------------------------------ MODULE BundleImport ------------------------------
(***************************************************************************)
(* From an uploaded bundle to the disks of a virtual machine: what is in   *)
(* the archive, which of its files are disks and under which names they    *)
(* travel, what the descriptor says of them, how they are packed and sent, *)
(* and which disk the machine gets where.  Every stage knows the disks     *)
(* under a name of its own.  When the stages run, and what interrupts      *)
(* them, is ImportJob's; here one bundle goes through all of them.         *)
(*                                                                         *)
(* A name is a tuple: directory, stem, the numbers appended to break ties, *)
(* extension.  Names are compared without regard to case in the code, so   *)
(* the ones here differ by more than that.                                 *)
(***************************************************************************)
EXTENDS ArchiveFormat

CONSTANTS
    Files,      \* what a bundle may hold, see FilesAssumption
    MaxFiles,   \* files in a bundle (a bound)
    MaxRefs,    \* disks a descriptor refers to (a bound)
    Buses,      \* what the administrator picks from (a bound)
    Clean,      \* sanitizeMemberName, by stem
    BusLimits   \* BUS_LIMITS

ASSUME FilesAssumption ==
    \A f \in Files :
        /\ DOMAIN f = {"dir", "stem", "ext", "size", "lists"}
        /\ f.stem \in DOMAIN Clean /\ Clean[f.stem] \in DOMAIN Clean
        /\ f.size \in Nat
        /\ f.lists # {} => f.ext = "vmdk"
ASSUME BoundAssumption == {MaxFiles, MaxRefs} \subseteq Nat
ASSUME BusAssumption ==
    /\ {"sata", "scsi"} \subseteq DOMAIN BusLimits
    /\ DOMAIN BusLimits \subseteq {"sata", "scsi", "ide", "virtio"}
    /\ \A b \in DOMAIN BusLimits : BusLimits[b] \in Nat \ {0}
    /\ "auto" \in Buses /\ Buses \ {"auto"} \subseteq DOMAIN BusLimits

VARIABLES
    upload,      \* the bundle, and who made it
    pc,          \* how far it has got
    inspection,  \* files with their flat names and roles, disks of the guest
    settings,
    artifacts,   \* what is sent to the node, in its order
    tape,        \* the blocks of the OVA on their way
    disks        \* files the machine's disks are made from, from the first on

vars == <<upload, pc, inspection, settings, artifacts, tape, disks>>

-----------------------------------------------------------------------------
(* Names *)

Base(f) == <<f.stem, <<>>, f.ext>>
Name(f) == <<f.dir, f.stem, f.ext>>
Sanitize(base) == [base EXCEPT ![1] = Clean[@]]
Numbered(base, n) == [base EXCEPT ![2] = Append(@, n)]

\* roleOf: "extent.vmdk" stands for -s001, -flat, -delta and the like.
RoleOf(f) ==
    CASE f.ext \in {"vmdk", "qcow2"} -> "disk"
      [] f.ext = "extent.vmdk" -> "disk-extent"
      [] OTHER -> "other"

\* Mutant: names are made safe, and not compared again.
FlatSafe(base, used) == Sanitize(base)

\* The first of name, name-2, name-3 that no earlier file has.
Flat(base, used) ==
    LET safe == Sanitize(base)
        Free(n) == Numbered(safe, n) \notin used
    IN IF safe \notin used THEN safe
       ELSE Numbered(safe, CHOOSE n \in 2 .. Cardinality(used) + 2 :
                              Free(n) /\ \A k \in 2 .. n - 1 : ~Free(k))

Added(files, f) ==
    Append(files, [file |-> f, role |-> RoleOf(f),
                   flat |-> Flat(Base(f), {g.flat : g \in Range(files)})])

Classify(entries) ==
    LET files[n \in 0 .. Len(entries)] ==
            IF n = 0 THEN <<>> ELSE Added(files[n - 1], entries[n])
    IN files[Len(entries)]

OfRole(files, roles) == Picked(files, {i \in DOMAIN files : files[i].role \in roles})
DiskFiles == OfRole(inspection.files, {"disk"})
Extents == OfRole(inspection.files, {"disk-extent"})

\* Maps by base name, where the last of several files stays.
HasBase(files, base) == \E i \in DOMAIN files : Base(files[i].file) = base
ByBase(files, base) ==
    files[CHOOSE i \in DOMAIN files :
             /\ Base(files[i].file) = base
             /\ \A k \in i + 1 .. Len(files) : Base(files[k].file) # base]

-----------------------------------------------------------------------------
(* Inspection *)

(***************************************************************************)
(* The lines of a descriptor say of a disk that it is attached to the      *)
(* machine; of an OVF's they may only list it, of a VMX's they may say     *)
(* that it is a CD-ROM or that the device is not there.                    *)
(***************************************************************************)
Saying(what) ==
    Picked(upload.lines, {i \in DOMAIN upload.lines : upload.lines[i].says \in what})
Bases(lines) == [i \in DOMAIN lines |-> lines[i].base]

\* "Some exporters omit the disk Items entirely and only fill DiskSection."
ParseOvf ==
    Bases(IF Saying({"attached"}) # <<>> THEN Saying({"attached"})
          ELSE Saying({"attached", "listed"}))
ParseVmx == Bases(Saying({"attached"}))

\* Mutant: a reference to an extent stands.
ResolveAny(refs, files) ==
    LET found == Picked(refs, {i \in DOMAIN refs : HasBase(files, refs[i])})
    IN IF found # <<>> THEN [i \in DOMAIN found |-> ByBase(files, found[i]).file]
       ELSE LET all == OfRole(files, {"disk"}) IN [i \in DOMAIN all |-> all[i].file]

\* resolveDisks: what is not there, or an extent, is passed over.
ResolveDisks(refs, files) ==
    LET Usable(r) == HasBase(files, r) /\ ByBase(files, r).role = "disk"
        found == Picked(refs, {i \in DOMAIN refs : Usable(refs[i])})
        all == OfRole(files, {"disk"})
    IN IF found # <<>> THEN [i \in DOMAIN found |-> ByBase(files, found[i]).file]
       ELSE [i \in DOMAIN all |-> all[i].file]

\* detectOs: the first hint that says something.
DetectOs(hints) ==
    LET known == SelectSeq(hints, LAMBDA h : h # "none") IN
    IF known = <<>> THEN "other" ELSE known[1]

Entry(f) == [name |-> Name(f), size |-> f.size]

\* As the archive's own program has written it, a tar in one of two ways.
Tars == {"gnu", "pax"}
Written(u) ==
    IF u.kind \in Tars
    THEN ForeignTar([i \in DOMAIN u.files |->
            [name |-> Name(u.files[i]), size |-> u.files[i].size,
             long |-> u.files[i].dir = "b"]], u.kind)
    ELSE [i \in DOMAIN u.files |->
            ZipRecord([name |-> Name(u.files[i]), size |-> u.files[i].size,
                       compressed |-> u.files[i].size \div 2, offset |-> i * Block])]

\* listEntries, and the file each entry is.
Listed(u) ==
    IF u.kind \in Tars THEN ListTar(Written(u))
    ELSE LET entries == ListZip(Written(u)) IN
         [i \in DOMAIN entries |-> [name |-> entries[i].name, size |-> entries[i].size]]

FileOf(u, e) == CHOOSE f \in Range(u.files) : Name(f) = e.name
Contained(u) ==
    LET listed == Listed(u)
        found == Picked(listed, {i \in DOMAIN listed : listed[i].size > 0}) IN
    [i \in DOMAIN found |-> FileOf(u, found[i])]

\* Mutant: what was chosen is what is done.
AsChosen(strategy, files) == strategy

ResolveStrategy(strategy, files) ==
    IF strategy = "ova" /\ OfRole(files, {"disk-extent"}) # <<>> THEN "disk" ELSE strategy

\* suggestSettings, what matters here
Suggest(files) ==
    [bus |-> "auto",
     strategy |-> ResolveStrategy(IF upload.kind = "raw" THEN "disk" ELSE "ova", files)]

\* The descriptor is not too large, and compressed in a known way.
Legible == upload.legible

HeuristicDisks(files) ==
    LET all == OfRole(files, {"disk"}) IN [i \in DOMAIN all |-> all[i].file]

\* inspectBareImage: any image is a disk, under its own name.
Bare(f) == <<[file |-> f, role |-> "disk", flat |-> Base(f)]>>
IsImage(f) == RoleOf(f) \in {"disk", "disk-extent"}

\* inspectBundle, inspectBareImage: an archive with nothing in it, a descriptor
\* that cannot be read or that leaves no disk, or a bare file that is no image
\* is an error.  Without a descriptor all disks are taken, be it none.
Inspect ==
    /\ pc = "uploaded"
    /\ LET files == IF upload.kind = "raw" THEN Bare(upload.files[1])
                    ELSE Classify(Contained(upload))
           found == IF upload.descriptor = "none" THEN HeuristicDisks(files)
                    ELSE ResolveDisks(IF upload.descriptor = "ovf" THEN ParseOvf ELSE ParseVmx, files)
       IN IF \/ files = <<>> \/ ~Legible
             \/ upload.descriptor # "none" /\ found = <<>>
             \/ upload.kind = "raw" /\ ~IsImage(upload.files[1])
          THEN pc' = "rejected" /\ UNCHANGED <<inspection, settings>>
          ELSE /\ pc' = "ready"
               /\ inspection' = [files |-> files, disks |-> found,
                                 family |-> DetectOs(upload.hints)]
               /\ settings' = Suggest(files)
    /\ UNCHANGED <<upload, artifacts, tape, disks>>

-----------------------------------------------------------------------------
(* Settings and packaging *)

\* Whatever the form suggested, the administrator submits; the run resolves
\* the strategy once more.
Submit ==
    /\ pc = "ready"
    /\ \E strategy \in {"ova", "disk"}, bus \in Buses :
          settings' = [bus |-> bus, strategy |-> ResolveStrategy(strategy, inspection.files)]
    /\ pc' = "queued"
    /\ UNCHANGED <<upload, inspection, artifacts, tape, disks>>

\* name: in the package.  from: the file it is.  lists: the parts it names.
Member(f, lists) ==
    [name |-> f.flat, size |-> f.file.size, from |-> f.file, lists |-> lists]

\* rewriteDescriptorIfNeeded: renames has every file, the last of a name.
Rewrite(f) ==
    {IF HasBase(inspection.files, b) THEN ByBase(inspection.files, b).flat ELSE b
        : b \in f.file.lists}

BuildOvf == [i \in DOMAIN DiskFiles |-> DiskFiles[i].flat]

\* The names in the descriptor that is sent.
Hrefs ==
    IF upload.descriptor = "ovf"
    THEN LET refs == Bases(Saying({"attached", "listed"})) IN
         [i \in DOMAIN refs |->
            IF HasBase(inspection.files, refs[i])
            THEN ByBase(inspection.files, refs[i]).flat ELSE refs[i]]
    ELSE BuildOvf

\* packageBundle.  A split disk is merged from its parts into one image, the
\* only thing that is sent.
RawPackage ==
    <<[is |-> "disk", hrefs |-> <<>>, members |-> <<Member(inspection.files[1], {})>>]>>
MergedPackage ==
    <<[is |-> "merged", hrefs |-> <<>>,
       members |-> <<Member(DiskFiles[1], Rewrite(DiskFiles[1]))>>
                   \o [i \in DOMAIN Extents |-> Member(Extents[i], {})]]>>
DiskPackages ==
    [i \in DOMAIN DiskFiles |->
        [is |-> "disk", hrefs |-> <<>>, members |-> <<Member(DiskFiles[i], {})>>]]
OvaPackage ==
    LET files == OfRole(inspection.files, {"disk", "disk-extent"}) IN
    <<[is |-> "ova", hrefs |-> Hrefs,
       members |-> [i \in DOMAIN files |-> Member(files[i], Rewrite(files[i]))]]>>

PackageRaw == upload.kind = "raw" /\ artifacts' = RawPackage
PackageMerged ==
    /\ upload.kind # "raw" /\ settings.strategy = "disk" /\ Extents # <<>>
    /\ artifacts' = MergedPackage
PackageDisks ==
    /\ upload.kind # "raw" /\ settings.strategy = "disk" /\ Extents = <<>>
    /\ artifacts' = DiskPackages
PackageOva ==
    /\ upload.kind # "raw" /\ settings.strategy = "ova"
    /\ artifacts' = OvaPackage

\* Without any disk it throws; mergeSplitDisk also without the descriptor of
\* the parts, or without qemu-img.
Package ==
    /\ pc = "queued"
    /\ IF \/ upload.kind # "raw" /\ DiskFiles = <<>>
          \/ Extents # <<>> /\ ~upload.qemu
       THEN pc' = "rejected" /\ UNCHANGED artifacts
       ELSE /\ pc' = "packaged"
            /\ PackageRaw \/ PackageMerged \/ PackageDisks \/ PackageOva
    /\ UNCHANGED <<upload, inspection, settings, tape, disks>>

-----------------------------------------------------------------------------
(* Transfer and creation *)

Ova == artifacts[1].members
OvfSize == 1
InOva == <<[name |-> <<"ovf">>, size |-> OvfSize]>>
         \o [i \in DOMAIN Ova |-> [name |-> Ova[i].name, size |-> Ova[i].size]]

Promised == [i \in DOMAIN InOva |-> InOva[i].size]

\* The sources deliver what the archive's directory promised, or, from a
\* damaged archive, less; then, or at too long a name, the upload breaks off.
Deliveries == {Promised} \cup {[Promised EXCEPT ![k] = @ - 1] : k \in 2 .. Len(InOva)}

SendOva ==
    /\ pc = "packaged"
    /\ artifacts[1].is = "ova"
    /\ \E delivered \in Deliveries :
        /\ tape' = TarStream(InOva, delivered)
        /\ pc' = IF /\ Throwing(InOva, delivered) = {}
                    /\ Block * Len(tape') = TarSize(InOva)
                 THEN "sent" ELSE "rejected"
    /\ UNCHANGED <<upload, inspection, settings, artifacts, disks>>

SendDisks ==
    /\ pc = "packaged"
    /\ artifacts[1].is # "ova"
    /\ pc' = "sent"
    /\ UNCHANGED <<upload, inspection, settings, artifacts, tape, disks>>

ChooseBus ==
    IF settings.bus # "auto" THEN settings.bus
    ELSE IF inspection.family = "windows" THEN "sata" ELSE "scsi"

\* The volumes to import from, as the files they hold.  Proxmox names those
\* that the descriptor attaches and the package has; if it cannot, or there are
\* none, they are composed from the disks of the inspection.
Composed == [i \in DOMAIN DiskFiles |-> DiskFiles[i].file]
Named ==
    LET Attached(i) == upload.descriptor = "ovf" => upload.lines[i].says = "attached"
        Holding(name) == {m \in Range(Ova) : m.name = name}
        found == Picked(Hrefs, {i \in DOMAIN Hrefs : Attached(i) /\ Holding(Hrefs[i]) # {}})
    IN [i \in DOMAIN found |-> (CHOOSE m \in Holding(found[i]) : TRUE).from]
Volumes ==
    IF artifacts[1].is # "ova"
    THEN {[i \in DOMAIN artifacts |-> artifacts[i].members[1].from]}
    ELSE {IF Named = <<>> THEN Composed ELSE Named, Composed}

Attachable(volumes) ==
    SubSeq(volumes, 1, Min({Len(volumes), BusLimits[ChooseBus]}))

Create ==
    /\ pc = "sent"
    /\ \E volumes \in Volumes : disks' = Attachable(volumes)
    /\ pc' = "created"
    /\ UNCHANGED <<upload, inspection, settings, artifacts, tape>>

\* A bare image sent under the strategy "ova" is looked for inside itself.
CreateFails ==
    /\ pc = "sent"
    /\ upload.kind = "raw" /\ settings.strategy = "ova"
    /\ pc' = "rejected"
    /\ UNCHANGED <<upload, inspection, settings, artifacts, tape, disks>>

-----------------------------------------------------------------------------
\* As a bundle may come: files of different names, a descriptor or none, and
\* in it files, present or not, in the order of their attachment.
Uploads ==
    LET Distinct(s) == \A i, k \in DOMAIN s : i # k => s[i] # s[k]
        SeqsOf(S, n) == UNION {{s \in [1 .. k -> S] : Distinct(s)} : k \in 1 .. n}
        files == SeqsOf(Files, MaxFiles)
        bases == {Base(f) : f \in Files}
        \* the last line may say something else
        Lines(other) ==
            UNION {{[i \in DOMAIN s |-> [base |-> s[i], says |-> IF i < Len(s) THEN "attached" ELSE w]]
                       : w \in {"attached", other}} : s \in SeqsOf(bases, MaxRefs)}
        U(kind, descriptor, lines, hints, Q) ==
            [kind : {kind}, files : files, descriptor : {descriptor}, lines : lines,
             hints : {hints}, legible : Q, qemu : Q]
        Raw == {s \in files : Len(s) = 1}
        Single == {<<[base |-> b, says |-> "attached"]>> : b \in bases}
    IN U("zip", "vmx", Lines("absent"), <<"none", "windows">>, {TRUE})
       \cup U("zip", "none", {<<>>}, <<"none", "none">>, {TRUE})
       \cup U("gnu", "ovf", Lines("listed"), <<"linux", "windows">>, {TRUE})
       \cup U("pax", "ovf", Lines("listed"), <<"linux", "windows">>, {TRUE})
       \cup U("gnu", "vmx", Single, <<"windows", "none">>, BOOLEAN)
       \cup [kind : {"raw"}, files : Raw, descriptor : {"none"}, lines : {<<>>},
             hints : {<<"windows", "linux">>}, legible : {TRUE}, qemu : {TRUE}]

Nothing == <<>>
Init ==
    /\ upload \in Uploads
    /\ pc = "uploaded"
    /\ inspection = Nothing /\ settings = Nothing
    /\ artifacts = <<>> /\ tape = <<>> /\ disks = <<>>

Next == Inspect \/ Submit \/ Package \/ SendOva \/ SendDisks \/ Create \/ CreateFails

Spec == Init /\ [][Next]_vars

-----------------------------------------------------------------------------
(* Properties *)

\* No two files, and no file and a missing one, that a map by base name or a
\* name made safe would take for each other.
Unambiguous ==
    /\ \A i, k \in DOMAIN inspection.files :
          i # k => Base(inspection.files[i].file) # Base(inspection.files[k].file)
    /\ \A r \in Range(Bases(upload.lines)) :
          HasBase(inspection.files, r) \/ \A f \in Range(inspection.files) : f.flat # r
Max8 == 8^SizeDigits
SizesListed == upload.kind = "pax" => \A f \in Range(upload.files) : f.size < PaxMax

IsHere(base, roles) ==
    HasBase(inspection.files, base) /\ ByBase(inspection.files, base).role \in roles

\* What is read out of an archive, and what the node reads out of the one that
\* is sent, is what was put in: names, sizes and order, whatever the format
\* does with long names, large values and partial blocks ("the reader locates
\* them purely by offset", services/archive.ts:415-416); up to the largest
\* size a header can hold, our own and, as size= is passed over, that of PAX.
ReadsBack ==
    /\ upload.kind # "raw" /\ SizesListed =>
          Listed(upload) = [i \in DOMAIN upload.files |-> Entry(upload.files[i])]
    /\ pc \in {"sent", "created"} /\ tape # <<>> /\ (\A m \in Range(InOva) : m.size < Max8) =>
          ListTar(tape) = InOva

\* Packaging, transfer and creation agree on names ("have to agree on it",
\* vmImport/pipeline.ts:426-428): no two files travel under one, the package
\* holds every present file its descriptors name under the name they use.
NamesAgree ==
    pc \in {"packaged", "sent", "created"} =>
        \A a \in Range(artifacts) :
            /\ \A i, k \in DOMAIN a.members : i # k => a.members[i].name # a.members[k].name
            /\ LET names == {m.name : m \in Range(a.members)} IN
               /\ \A i \in DOMAIN a.hrefs :
                    upload.descriptor = "ovf" /\ IsHere(upload.lines[i].base, {"disk", "disk-extent"})
                        => a.hrefs[i] \in names
               /\ \A m \in Range(a.members) : \A b \in m.from.lists :
                    IsHere(b, {"disk-extent"}) =>
                        ByBase(inspection.files, b).flat \in m.lists \cap names

\* "Proxmox cannot read a split VMDK in either form" (pipeline.ts:441): when a
\* bundle has extents, neither they nor their descriptor are sent as they are.
\* (An extent uploaded alone is a bare image to the code, and is sent.)
NoPartTravels ==
    pc \in {"packaged", "sent", "created"} /\ Extents # <<>> =>
        \A a \in Range(artifacts) : a.is = "merged"

\* Every disk that the inspection showed the administrator is a disk of the
\* machine, once, as long as the bus has room for all there are.  Not so for
\* bundles with ambiguous names, and for a split disk that is not alone; the
\* README says what happens to them.
DiskForDisk ==
    pc = "created" /\ Unambiguous
    /\ Len(DiskFiles) <= BusLimits[ChooseBus] /\ (Extents # <<>> => Len(DiskFiles) = 1) =>
        \A d \in Range(inspection.disks) : Cardinality({i \in DOMAIN disks : disks[i] = d}) = 1

\* The generated descriptor lists the disks "in attachment order"
\* (vmImport/ovfBuilder.ts:31-32), and the machine boots from the first.
BootsFromFirst ==
    pc = "created" /\ Unambiguous /\ upload.descriptor = "vmx" /\ artifacts[1].is = "ova" =>
        disks[1] = inspection.disks[1]
=============================================================================
