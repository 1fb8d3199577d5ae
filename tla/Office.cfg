\* One student's two requests for two clones, and one procedure of the administrator.
SPECIFICATION Spec
CONSTANTS
    student = student
    Clones = {c1, c2}
    Image = image
    Requests = {r1, r2}
    Users = {student}
    UserOf <- MCUserOf
    MaxVms = 1
    MaxDuties = 1
    None = None
SYMMETRY Perms
INVARIANTS TypeOK AccountedFor ReadyIsThere UserLimit OneDemo
\* Everything built, used and swept away: there is nothing left to do.
CHECK_DEADLOCK FALSE
