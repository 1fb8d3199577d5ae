----------------------------- MODULE MCBundleImport -----------------------------
(***************************************************************************)
(* A small choice of files for BundleImport: names that become equal when  *)
(* they are made safe, names that look like one made unique, one name in   *)
(* two directories, a split disk and its part, sizes at the borders, a     *)
(* name too long to be sent in an OVA, and a file that is no disk.         *)
(***************************************************************************)
EXTENDS BundleImport

File(dir, stem, ext, size, lists) ==
    [dir |-> dir, stem |-> stem, ext |-> ext, size |-> size, lists |-> lists]

MCFiles ==
    {File("a", "my disk", "vmdk", 56, {}),
     File("a", "my-disk", "vmdk", 520, {}),
     File("b", "my disk", "vmdk", 57, {}),
     File("a", "split", "vmdk", 1, {<<"my disk", <<>>, "extent.vmdk">>}),
     File("b", "my disk", "extent.vmdk", 60, {}),
     File("a", "empty", "vmdk", 0, {}),
     File("a", "tools", "iso", 3, {})}

MCClean ==
    [s \in {f.stem : f \in MCFiles} |-> IF s = "my disk" THEN "my-disk" ELSE s]

MCLongNames == {<<"split", <<>>, "vmdk">>}

MCBusLimits == [sata |-> 2, scsi |-> 3]
=============================================================================
