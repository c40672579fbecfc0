------------------------------ MODULE MCDownload ------------------------------
(***************************************************************************)
(* Small instances of Download: two releases of different lengths, the     *)
(* second with a new fork and without a case of the first.                 *)
(***************************************************************************)
EXTENDS Download

CONSTANTS r1, r2

File(fork, case, file) == [fork |-> fork, case |-> case, file |-> file]

MCContents ==
    [r \in {r1, r2} |->
        IF r = r1
        THEN <<File("electra", "c1", "pre"), File("electra", "c1", "post"),
               File("electra", "c2", "pre")>>
        ELSE <<File("fulu", "c1", "pre"), File("electra", "c1", "pre")>>]

MCMember ==
    UNION {{MCContents[r][i] : i \in DOMAIN MCContents[r]} : r \in {r1, r2}}
================================================================================
