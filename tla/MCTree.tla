-------------------------------- MODULE MCTree --------------------------------
(* A small instance of Tree for TLC. *)
EXTENDS Tree

CONSTANTS d0, d1, d2

Three == {d0, d1, d2}

File == [type |-> "file"]
None == [type |-> "none"]
DirAt(d) == [type |-> "dir", to |-> d]
LinkTo(d) == [type |-> "link", to |-> d]

\* d2 is below d1 or beside it; 2 is hidden; the links lead up and aside.
Deep == [d \in Three |-> [x \in 1..3 |->
            CASE <<d, x>> = <<d0, 1>> -> DirAt(d1) [] <<d, x>> = <<d0, 3>> -> LinkTo(d1)
              [] <<d, x>> = <<d1, 2>> -> DirAt(d2) [] <<d, x>> = <<d1, 3>> -> File
              [] OTHER -> None]]
Wide == [d \in Three |-> [x \in 1..3 |->
            CASE <<d, x>> = <<d0, 1>> -> DirAt(d1) [] <<d, x>> = <<d0, 2>> -> File
              [] <<d, x>> = <<d0, 3>> -> DirAt(d2) [] <<d, x>> = <<d2, 1>> -> LinkTo(d0)
              [] OTHER -> None]]

\* Everything is permitted, or one thing in one directory below is not.
DeepAndWide ==
    [entry : {Deep, Wide},
     perm : {[d \in Three |-> {"r", "x"} \ (IF d = e THEN p ELSE {})] :
                e \in {d1, d2}, p \in {{}, {"r"}, {"x"}}}]

\* Without -d (3 is as deep as it gets), and -d 1, 0 and -1.
Arguments ==
    [show_all : {TRUE}, long_mode : {TRUE}, max_depth : {3, 1, 0, -1}]
      \cup [show_all : {FALSE}, long_mode : {FALSE}, max_depth : {3}]

=============================================================================
