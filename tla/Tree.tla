--------------------------------- MODULE Tree ---------------------------------
(******************************************************************************)
(* tree (Directories/tree.c): prints a directory and everything below it.     *)
(* visit goes down by chdir and comes back by fchdir, one system call per     *)
(* action, while others remove, replace and protect what it is looking at.    *)
(*                                                                            *)
(* A directory is the object, whatever its name; a name leads to an object    *)
(* only in the directory it is looked up in.  Names are numbers in the order  *)
(* of strcmp, and 0 is ".".  The user is not root: "r" lets him list a        *)
(* directory, "x" look up names in it and enter it.  A listing is read at     *)
(* once.                                                                      *)
(******************************************************************************)
EXTENDS Integers, FiniteSets, SequencesExt

CONSTANTS
    Dir, Root,      \* the directories, and the one tree is started in
    Name, Hidden,   \* names but ".", and which of them begin with a dot
    Worlds,         \* what the file system may be at the start
    Options,        \* what the arguments may be
    Limits,         \* how many descriptors may be open
    MaxChanges      \* bound: what others do while tree runs

Dot == 0

Things == [type : {"dir", "link"}, to : Dir] \cup [type : {"none", "file"}]

\* Directories are in directories: one is higher than what it contains.
Heights(e) ==
    {height \in [Dir -> 0..Cardinality(Dir) - 1] :
        \A d \in Dir, x \in Name : e[d][x].type = "dir" => height[e[d][x].to] < height[d]}

ASSUME TreeAssumption ==
    /\ Root \in Dir /\ IsFiniteSet(Dir)
    /\ Name \subseteq Nat \ {Dot} /\ Hidden \subseteq Name /\ IsFiniteSet(Name)
    /\ Worlds \subseteq [entry : [Dir -> [Name -> Things]], perm : [Dir -> SUBSET {"r", "x"}]]
    /\ \A w \in Worlds : Heights(w.entry) # {}
    /\ Options \subseteq [show_all : BOOLEAN, long_mode : BOOLEAN, max_depth : Int]
    /\ Limits \subseteq Nat /\ MaxChanges \in Nat

VARIABLES
    entry, perm,    \* the file system
    changes,
    option, limit,
    stack,          \* unfinished calls of visit, the innermost first
    cwd,
    fds,            \* open descriptors of saved directories
    error,          \* error; the exit status
    crashed,        \* NULL was given to readdir
    strayed,        \* history: fchdir has failed
    out             \* what was printed

system == <<entry, perm, changes>>
vars == <<system, option, limit, stack, cwd, fds, error, crashed, strayed, out>>

\* A call of visit: the next thing it does; once it is in its directory, where it
\* came from (saved_fd), where it is, and the names it has still to visit, which it
\* takes in order.
Call(x) == [name |-> x, at |-> "lstat", saved |-> Root, here |-> Root, kids |-> {}]

Calls == [name : Name \cup {Dot}, saved : Dir, here : Dir, kids : SUBSET Name,
          at : {"lstat", "readlink", "opendir", "open", "chdir", "list", "kids"}]

TypeOK ==
    /\ [entry |-> entry, perm |-> perm] \in [entry : [Dir -> [Name -> Things]],
                                             perm : [Dir -> SUBSET {"r", "x"}]]
    /\ changes \in 0..MaxChanges
    /\ option \in Options /\ limit \in Limits
    /\ stack \in Seq(Calls)
    /\ cwd \in Dir
    /\ fds \in 0..limit
    /\ error \in BOOLEAN /\ crashed \in BOOLEAN /\ strayed \in BOOLEAN
    /\ out \in Seq([depth : Nat, name : Name \cup {Dot}, ok : BOOLEAN])

Init ==
    /\ \E w \in Worlds : entry = w.entry /\ perm = w.perm
    /\ changes = 0
    /\ option \in Options /\ limit \in Limits
    /\ stack = <<Call(Dot)>>
    /\ cwd = Root
    /\ fds = 0
    /\ error = FALSE /\ crashed = FALSE /\ strayed = FALSE
    /\ out = <<>>

-----------------------------------------------------------------------------
(* The file system.                                                        *)

MayList(d) == {"r", "x"} \subseteq perm[d]      \* as "." of the current directory

\* What a name means in the current directory; what lstat finds; what it leads to
\* when links are followed.
Entry(x) == IF x = Dot THEN [type |-> "dir", to |-> cwd] ELSE entry[cwd][x]
Found(x) == "x" \in perm[cwd] /\ Entry(x).type # "none"
LeadsTo(x, d) == Found(x) /\ Entry(x).type \in {"dir", "link"} /\ Entry(x).to = d

\* Others remove something, put a file or a link there, or move a directory away.
Change(d, x) ==
    /\ changes < MaxChanges
    /\ changes' = changes + 1
    /\ \E t \in {u \in Things : u.type # "dir" /\ u # entry[d][x]} :
          entry' = [entry EXCEPT ![d][x] = t]
    /\ UNCHANGED <<perm, option, limit, stack, cwd, fds, error, crashed, strayed, out>>

Chmod(d) ==
    /\ changes < MaxChanges
    /\ changes' = changes + 1
    /\ \E p \in SUBSET {"r", "x"} : p # perm[d] /\ perm' = [perm EXCEPT ![d] = p]
    /\ UNCHANGED <<entry, option, limit, stack, cwd, fds, error, crashed, strayed, out>>

-----------------------------------------------------------------------------
(* visit.                                                                  *)

call == Head(stack)
Depth == Len(stack) - 1
At(where) == stack # <<>> /\ call.at = where

Become(c) == stack' = <<c>> \o Tail(stack)
Goto(where) == Become([call EXCEPT !.at = where])
Return == stack' = Tail(stack)
PrintLine(ok) == out' = Append(out, [depth |-> Depth, name |-> call.name, ok |-> ok])

\* print_line with strerror, and the exit status.
Report == PrintLine(FALSE) /\ error' = TRUE /\ Return

TooDeep ==
    /\ At("lstat") /\ Depth > option.max_depth
    /\ Return
    /\ UNCHANGED <<system, option, limit, cwd, fds, error, crashed, strayed, out>>

\* Mutant: stat instead of lstat.
LstatFollows ==
    /\ At("lstat") /\ Depth <= option.max_depth
    /\ IF ~Found(call.name) THEN Report
       ELSE /\ IF \E d \in Dir : LeadsTo(call.name, d)
               THEN Goto("opendir") /\ UNCHANGED out
               ELSE Return /\ PrintLine(TRUE)
            /\ UNCHANGED error
    /\ UNCHANGED <<system, option, limit, cwd, fds, crashed, strayed>>

Lstat ==
    /\ At("lstat") /\ Depth <= option.max_depth
    /\ \/ ~Found(call.name) /\ Report
       \/ /\ Found(call.name)
          /\ CASE Entry(call.name).type = "dir" -> Goto("opendir") /\ UNCHANGED out
               [] Entry(call.name).type = "link" /\ option.long_mode ->
                      Goto("readlink") /\ UNCHANGED out
               [] OTHER -> Return /\ PrintLine(TRUE)
          /\ UNCHANGED error
    /\ UNCHANGED <<system, option, limit, cwd, fds, crashed, strayed>>

\* pathtostr, under -l.
Readlink ==
    /\ At("readlink")
    /\ \/ /\ Found(call.name) /\ Entry(call.name).type = "link"
          /\ PrintLine(TRUE) /\ Return /\ UNCHANGED error
       \/ ~(Found(call.name) /\ Entry(call.name).type = "link") /\ Report
    /\ UNCHANGED <<system, option, limit, cwd, fds, crashed, strayed>>

Opens(x) == fds < limit /\ \E d \in Dir : LeadsTo(x, d) /\ "r" \in perm[d]

\* opendir(name) and closedir: can it be listed?
Opendir ==
    /\ At("opendir")
    /\ \/ ~Opens(call.name) /\ Report
       \/ /\ Opens(call.name)
          /\ PrintLine(TRUE)
          /\ IF Depth >= option.max_depth THEN Return ELSE Goto("open")
          /\ UNCHANGED error
    /\ UNCHANGED <<system, option, limit, cwd, fds, crashed, strayed>>

\* saved_fd = open(".").
Open ==
    /\ At("open")
    /\ \/ /\ fds < limit /\ MayList(cwd)
          /\ fds' = fds + 1
          /\ Become([call EXCEPT !.saved = cwd, !.at = "chdir"])
          /\ UNCHANGED error
       \/ /\ ~(fds < limit /\ MayList(cwd))
          /\ error' = TRUE
          /\ Return
          /\ UNCHANGED fds
    /\ UNCHANGED <<system, option, limit, cwd, crashed, strayed, out>>

Enters(x, d) == LeadsTo(x, d) /\ "x" \in perm[d]

\* Mutant: the descriptor is closed on the error path and again at the end.
ChdirClosesTwice ==
    /\ At("chdir")
    /\ \/ \E d \in Dir : Enters(call.name, d) /\ cwd' = d /\ Goto("list") /\ UNCHANGED <<fds, error>>
       \/ /\ ~\E d \in Dir : Enters(call.name, d)
          /\ error' = TRUE
          /\ fds' = fds - 2
          /\ Return
          /\ UNCHANGED cwd
    /\ UNCHANGED <<system, option, limit, crashed, strayed, out>>

Chdir ==
    /\ At("chdir")
    /\ \/ \E d \in Dir : Enters(call.name, d) /\ cwd' = d /\ Goto("list") /\ UNCHANGED <<fds, error>>
       \/ /\ ~\E d \in Dir : Enters(call.name, d)
          /\ error' = TRUE
          /\ fds' = fds - 1
          /\ Return
          /\ UNCHANGED cwd
    /\ UNCHANGED <<system, option, limit, crashed, strayed, out>>

\* skip.
Listed(x) == entry[cwd][x].type # "none" /\ (option.show_all \/ x \notin Hidden)

\* read_directories; readdir of a directory that opendir did not open.
List ==
    /\ At("list")
    /\ \/ /\ fds < limit /\ MayList(cwd)
          /\ Become([call EXCEPT !.at = "kids", !.here = cwd,
                                 !.kids = {x \in Name : Listed(x)}])
          /\ UNCHANGED crashed
       \/ /\ ~(fds < limit /\ MayList(cwd))
          /\ crashed' = TRUE
          /\ stack' = <<>>
    /\ UNCHANGED <<system, option, limit, cwd, fds, error, strayed, out>>

VisitKid ==
    /\ At("kids")
    /\ \E x \in call.kids :
          /\ \A y \in call.kids : x <= y
          /\ stack' = <<Call(x), [call EXCEPT !.kids = @ \ {x}]>> \o Tail(stack)
    /\ UNCHANGED <<system, option, limit, cwd, fds, error, crashed, strayed, out>>

\* Mutant: an empty directory is left without fchdir.
BackIfKids ==
    /\ At("kids") /\ call.kids = {}
    /\ cwd' = IF out[Len(out)].depth = Depth THEN cwd ELSE call.saved
    /\ fds' = fds - 1
    /\ Return
    /\ UNCHANGED <<system, option, limit, error, crashed, strayed, out>>

\* Mutant: fchdir is tried until it succeeds.
BackRetries ==
    /\ At("kids") /\ call.kids = {}
    /\ "x" \in perm[call.saved]
    /\ cwd' = call.saved
    /\ fds' = fds - 1
    /\ Return
    /\ UNCHANGED <<system, option, limit, error, crashed, strayed, out>>

\* fchdir, whose result is not looked at, and close.
Back ==
    /\ At("kids") /\ call.kids = {}
    /\ cwd' = IF "x" \in perm[call.saved] THEN call.saved ELSE cwd
    /\ strayed' = (strayed \/ "x" \notin perm[call.saved])
    /\ fds' = fds - 1
    /\ Return
    /\ UNCHANGED <<system, option, limit, error, crashed, out>>

Visit == TooDeep \/ Lstat \/ Readlink \/ Opendir \/ Open \/ Chdir \/ List \/ VisitKid \/ Back

Next == Visit \/ \E d \in Dir : Chmod(d) \/ \E x \in Name : Change(d, x)

Spec == Init /\ [][Next]_vars

\* The scheduler runs tree; nobody need change anything.
FairSpec == Spec /\ WF_vars(Visit)

-----------------------------------------------------------------------------
(* What tree prints if nothing changes.                                    *)

\* In directory d, at depth k: the directory that a name leads to, links not followed,
\* the names that are shown, and the line of one, an error if it cannot be listed.
Target(d, x) == IF x = Dot THEN d ELSE entry[d][x].to
IsDir(d, x) == x = Dot \/ entry[d][x].type = "dir"
Shown(d) == {x \in Name : entry[d][x].type # "none" /\ (option.show_all \/ x \notin Hidden)}
Line(d, x, k) == [depth |-> k, name |-> x, ok |-> IsDir(d, x) => "r" \in perm[Target(d, x)]]

\* Whether there is anything below that line.
GoesBelow(d, x, k) == IsDir(d, x) /\ k < option.max_depth /\ MayList(Target(d, x))

First(kids) == CHOOSE x \in kids : \A y \in kids : x <= y

\* The lines of some names of d at depth k, each followed by what is below it.
Contents[w \in Dir \X (SUBSET (Name \cup {Dot})) \X Nat] ==
    LET d == w[1]
        kids == w[2]
        k == w[3]
        x == First(kids)
        e == Target(d, x)
        below == IF GoesBelow(d, x, k) THEN Contents[<<e, Shown(e), k + 1>>] ELSE <<>>
    IN  IF kids = {} THEN <<>>
                     ELSE <<Line(d, x, k)>> \o below \o Contents[<<d, kids \ {x}, k>>]

Below(d, x, k) ==
    LET e == Target(d, x) IN IF GoesBelow(d, x, k) THEN Contents[<<e, Shown(e), k + 1>>] ELSE <<>>

\* Whether something at a name or below it cannot be listed or entered.
Fails[w \in Dir \X (Name \cup {Dot}) \X Nat] ==
    LET d == w[1]
        x == w[2]
        k == w[3]
        e == Target(d, x)
    IN  /\ IsDir(d, x)
        /\ \/ "r" \notin perm[e]
           \/ /\ k < option.max_depth
              /\ "x" \notin perm[e] \/ \E y \in Shown(e) : Fails[<<e, y, k + 1>>]

Listing == IF option.max_depth < 0 THEN <<>> ELSE Contents[<<Root, {Dot}, 0>>]
Failing == option.max_depth >= 0 /\ Fails[<<Root, Dot, 0>>]

\* Nobody is around, there are enough descriptors, and the directory tree starts in
\* may be listed.
Undisturbed == changes = 0 /\ limit > Cardinality(Dir) /\ MayList(Root)

-----------------------------------------------------------------------------
(* Where the calls of visit are: the inductive invariant.                  *)

\* Where call i was made; whether it has gone on into its own directory, or is about to.
From(i) == IF i = Len(stack) THEN Root ELSE stack[i + 1].here
Inside(i) == stack[i].at \in {"chdir", "list", "kids"}

\* All calls but the innermost are visiting their kids.
Outer == \A i \in 2..Len(stack) : stack[i].at = "kids"

\* Every call that is inside has a descriptor, and no one else.
Counted ==
    /\ crashed => stack = <<>>
    /\ ~crashed => fds = Len(stack) - (IF stack # <<>> /\ ~Inside(1) THEN 1 ELSE 0)

\* What is saved is where the call was made, and the innermost call is there or in
\* its own directory.
Placed ==
    ~strayed =>
        /\ \A i \in 1..Len(stack) : Inside(i) => stack[i].saved = From(i)
        /\ stack = <<>> /\ ~crashed => cwd = Root
        /\ stack # <<>> => CASE stack[1].at = "kids" -> cwd = stack[1].here
                             [] stack[1].at = "list" -> TRUE
                             [] OTHER -> cwd = From(1)

\* While nobody interferes, every saved directory may be entered again.
Unhindered ==
    /\ strayed => changes > 0
    /\ changes = 0 => \A i \in 1..Len(stack) : Inside(i) => "x" \in perm[stack[i].saved]

Bookkeeping == TypeOK /\ Outer /\ Counted /\ Placed /\ Unhindered

\* A call c that was made in d at depth k is where its name leads to, as far as it
\* has gone, and has found what it needs to go on.
Height == CHOOSE height \in Heights(entry) : TRUE

OnItsWay(c, d, k) ==
    LET e == Target(d, c.name) IN
    /\ c.name = Dot => d = Root /\ k = 0
    /\ c.name # Dot => c.name \in Shown(d) /\ k <= option.max_depth
    /\ IsDir(d, c.name) => k + Height[e] < Cardinality(Dir)
    /\ c.at = "readlink" => c.name # Dot /\ entry[d][c.name].type = "link"
    /\ c.at \in {"readlink", "opendir"} => k <= option.max_depth
    /\ c.at \in {"opendir", "open", "chdir", "list", "kids"} => IsDir(d, c.name)
    /\ c.at \in {"open", "chdir", "list", "kids"} => "r" \in perm[e] /\ k < option.max_depth
    /\ c.at \in {"list", "kids"} => "x" \in perm[e]
    /\ c.at = "kids" => c.here = e /\ c.kids \subseteq Shown(e)

\* What it has still to print, and whether it will fail.
Rest(c, d, k) ==
    CASE c.at \in {"lstat", "readlink", "opendir"} ->
             IF k <= option.max_depth THEN <<Line(d, c.name, k)>> \o Below(d, c.name, k) ELSE <<>>
      [] c.at \in {"open", "chdir", "list"} -> Below(d, c.name, k)
      [] c.at = "kids" -> Contents[<<c.here, c.kids, k + 1>>]

WillFail(c, d, k) ==
    IF c.at = "kids" THEN \E y \in c.kids : Fails[<<c.here, y, k + 1>>]
                     ELSE k <= option.max_depth /\ Fails[<<d, c.name, k>>]

\* What all calls have still to print, the innermost first.
Owed == FlattenSeq([i \in 1..Len(stack) |-> Rest(stack[i], From(i), Len(stack) - i)])

\* If nobody interferes: what was printed and what is still to be printed is the
\* listing, and the failures there have been and will be are those there are.
OnCourse ==
    Undisturbed =>
        /\ ~crashed
        /\ Heights(entry) # {}
        /\ \A i \in 1..Len(stack) : OnItsWay(stack[i], From(i), Len(stack) - i)
        /\ At("list") => cwd = Target(From(1), call.name)
        /\ out \o Owed = Listing
        /\ (error \/ \E i \in 1..Len(stack) : WillFail(stack[i], From(i), Len(stack) - i)) <=> Failing

IInv == Bookkeeping /\ OnCourse

-----------------------------------------------------------------------------
(* Properties.                                                             *)

Finished == stack = <<>> /\ ~crashed

\* Names are looked up in the directory whose listing they come from: visit has
\* come back from everything it entered, whatever was removed, moved or failed
\* meanwhile; at the end it is where it began and every descriptor is closed.
\* The exception is an fchdir that fails, and then somebody has taken the
\* directory's permission away.
InPlace ==
    /\ strayed => changes > 0
    /\ Finished => fds = 0 /\ (strayed \/ cwd = Root)
    /\ ~strayed => \A where \in {"lstat", "readlink", "opendir", "open", "chdir"} :
          At(where) /\ Len(stack) > 1 => cwd = stack[2].here

\* With enough descriptors, nobody around and a first directory that may be listed,
\* readdir is never given NULL, and tree prints the tree and exits with a failure if
\* and only if something in it could not be listed or entered.
AsListed == Undisturbed => ~crashed /\ (stack = <<>> => out = Listing /\ error = Failing)

\* tree ends: what others do may keep it busy only as long as they do it.
Ends == <>(stack = <<>>)

=============================================================================
