------------------------------ MODULE TreeProofs ------------------------------
(******************************************************************************)
(* tree comes back from everything it enters, whatever others do meanwhile    *)
(* (Bookkeeping), and prints the tree if nobody does anything (OnCourse):     *)
(* together they are inductive, for all file systems, limits and arguments.   *)
(******************************************************************************)
EXTENDS Tree, Measures, SequenceTheorems

\* A step replaces the innermost call by none, one or two; the others stay.
LEMMA Replaced ==
    ASSUME stack \in Seq(Calls), stack # <<>>, NEW STATE s, s \in Seq(Calls), stack' = s \o Tail(stack)
    PROVE  /\ Len(stack) \in Nat \ {0} /\ Len(s) \in Nat
           /\ stack' \in Seq(Calls)
           /\ Len(stack') = Len(s) + Len(stack) - 1
           /\ \A i \in 1..Len(s) : stack'[i] = s[i]
           /\ \A i \in 2..Len(stack) : stack'[Len(s) + i - 1] = stack[i]
  <1> DEFINE t == Tail(stack)
  <1>1. /\ t \in Seq(Calls) /\ Len(t) = Len(stack) - 1
        /\ \A i \in 1..Len(t) : t[i] = stack[i + 1]
    BY HeadTailProperties
  <1>2. Len(stack) \in Nat \ {0} /\ Len(s) \in Nat
    BY EmptySeq, LenProperties
  <1> HIDE DEF t
  <1>3. /\ s \o t \in Seq(Calls) /\ Len(s \o t) = Len(s) + Len(t)
        /\ \A i \in 1..Len(s) + Len(t) : (s \o t)[i] = IF i <= Len(s) THEN s[i] ELSE t[i - Len(s)]
    BY <1>1, ConcatProperties
  <1>4. stack' = s \o t
    BY DEF t
  <1>5. ASSUME NEW i \in 2..Len(stack)
        PROVE  stack'[Len(s) + i - 1] = stack[i]
    <2> DEFINE j == Len(s) + i - 1
    <2>1. /\ j \in 1..Len(s) + Len(t) /\ ~(j <= Len(s))
          /\ j - Len(s) = i - 1 /\ i - 1 \in 1..Len(t) /\ i - 1 + 1 = i
      BY <1>1, <1>2
    <2> HIDE DEF j
    <2>2. stack'[j] = t[j - Len(s)]
      BY <1>3, <1>4, <2>1
    <2>3. stack'[j] = stack[i]
      BY <1>1, <2>1, <2>2
    <2> QED
      BY <2>3 DEF j
  <1>6. ASSUME NEW i \in 1..Len(s)
        PROVE  stack'[i] = s[i]
    BY <1>1, <1>2, <1>3, <1>4
  <1> QED
    BY <1>1, <1>2, <1>3, <1>4, <1>5, <1>6

\* The innermost call.
LEMMA Innermost ==
    ASSUME stack \in Seq(Calls), stack # <<>>
    PROVE  /\ Len(stack) \in Nat \ {0}
           /\ call = stack[1] /\ call \in Calls
  BY EmptySeq, LenProperties, HeadTailProperties, ElementOfSeq DEF call

\* It goes on, in the same directory, and the rest of the stack stays.
LEMMA Becomes ==
    ASSUME stack \in Seq(Calls), stack # <<>>, NEW STATE c, c \in Calls, Become(c)
    PROVE  /\ stack' \in Seq(Calls) /\ Len(stack') = Len(stack) /\ stack' # <<>>
           /\ stack'[1] = c
           /\ \A i \in 2..Len(stack) : stack'[i] = stack[i]
           /\ \A i \in 1..Len(stack) : From(i)' = From(i)
  <1> DEFINE s == <<c>>
  <1>1. s \in Seq(Calls) /\ Len(s) = 1 /\ s[1] = c
    OBVIOUS
  <1>2. stack' = s \o Tail(stack)
    BY DEF Become
  <1> HIDE DEF s
  <1>3. /\ Len(stack) \in Nat \ {0}
        /\ stack' \in Seq(Calls) /\ Len(stack') = Len(stack)
        /\ stack'[1] = c
        /\ \A i \in 2..Len(stack) : stack'[i] = stack[i]
    <2>1. /\ Len(stack) \in Nat \ {0}
          /\ stack' \in Seq(Calls)
          /\ Len(stack') = Len(s) + Len(stack) - 1
          /\ \A i \in 1..Len(s) : stack'[i] = s[i]
          /\ \A i \in 2..Len(stack) : stack'[Len(s) + i - 1] = stack[i]
      BY <1>1, <1>2, Replaced
    <2>2. ASSUME NEW i \in 2..Len(stack)
          PROVE  stack'[i] = stack[i]
      <3>1. Len(s) + i - 1 = i
        BY <1>1, <2>1
      <3> QED
        BY <2>1, <3>1
    <2> QED
      BY <1>1, <2>1, <2>2
  <1>4. stack' # <<>>
    BY <1>3, EmptySeq
  <1>5. ASSUME NEW i \in 1..Len(stack)
        PROVE  From(i)' = From(i)
    <2>1. CASE i = Len(stack)
      BY <1>3, <2>1 DEF From
    <2>2. CASE i # Len(stack)
      <3>1. i + 1 \in 2..Len(stack)
        BY <1>3, <2>2
      <3> QED
        BY <1>3, <2>2, <3>1 DEF From
    <2> QED
      BY <2>1, <2>2
  <1> QED
    BY <1>3, <1>4, <1>5

\* It returns: the call that made it is innermost.
LEMMA Returns ==
    ASSUME stack \in Seq(Calls), stack # <<>>, Return
    PROVE  /\ stack' \in Seq(Calls) /\ Len(stack') = Len(stack) - 1
           /\ stack' = <<>> <=> Len(stack) = 1
           /\ \A i \in 1..Len(stack') : stack'[i] = stack[i + 1] /\ From(i)' = From(i + 1)
  <1>1. /\ Len(stack) \in Nat \ {0}
        /\ stack' \in Seq(Calls) /\ Len(stack') = Len(stack) - 1
        /\ \A i \in 1..Len(stack') : stack'[i] = stack[i + 1]
    BY EmptySeq, LenProperties, HeadTailProperties DEF Return
  <1>2. stack' = <<>> <=> Len(stack') = 0
    BY <1>1, EmptySeq
  <1>3. ASSUME NEW i \in 1..Len(stack')
        PROVE  From(i)' = From(i + 1)
    <2>1. CASE i = Len(stack')
      BY <1>1, <2>1 DEF From
    <2>2. CASE i # Len(stack')
      <3>1. i + 1 \in 1..Len(stack')
        BY <1>1, <2>2
      <3> QED
        BY <1>1, <2>2, <3>1 DEF From
    <2> QED
      BY <2>1, <2>2
  <1> QED
    BY <1>1, <1>2, <1>3

\* The innermost call makes another one.
LEMMA Visits ==
    ASSUME stack \in Seq(Calls), stack # <<>>, NEW x \in Name, Root \in Dir,
           NEW c, c = [call EXCEPT !.kids = @ \ {x}], stack' = <<Call(x), c>> \o Tail(stack)
    PROVE  /\ c \in Calls /\ Call(x) \in Calls
           /\ stack' \in Seq(Calls) /\ Len(stack') = Len(stack) + 1 /\ stack' # <<>>
           /\ stack'[1] = Call(x) /\ stack'[2] = c
           /\ \A i \in 2..Len(stack) : stack'[i + 1] = stack[i]
           /\ From(1)' = call.here
           /\ \A i \in 1..Len(stack) : From(i + 1)' = From(i)
  <1>1. /\ Len(stack) \in Nat \ {0} /\ call = stack[1] /\ call \in Calls
    BY Innermost
  <1>2. c \in Calls /\ c.here = call.here /\ Call(x) \in Calls
    BY <1>1 DEF Calls, Call
  <1> DEFINE s == <<Call(x), c>>
  <1>3. s \in Seq(Calls) /\ Len(s) = 2 /\ s[1] = Call(x) /\ s[2] = c
    BY <1>2
  <1>4. stack' = s \o Tail(stack)
    OBVIOUS
  <1> HIDE DEF s
  <1>5. /\ stack' \in Seq(Calls)
        /\ Len(stack') = Len(s) + Len(stack) - 1
        /\ \A i \in 1..Len(s) : stack'[i] = s[i]
        /\ \A i \in 2..Len(stack) : stack'[Len(s) + i - 1] = stack[i]
    BY <1>3, <1>4, Replaced
  <1>6. /\ Len(stack') = Len(stack) + 1 /\ stack' # <<>>
        /\ stack'[1] = Call(x) /\ stack'[2] = c
    BY <1>1, <1>3, <1>5, EmptySeq
  <1>7. ASSUME NEW i \in 2..Len(stack)
        PROVE  stack'[i + 1] = stack[i]
    <2>1. Len(s) + i - 1 = i + 1
      BY <1>1, <1>3
    <2> QED
      BY <1>5, <2>1
  <1>8. ASSUME NEW j \in 1..Len(stack)
        PROVE  stack'[j + 1].here = stack[j].here
    <2>1. CASE j = 1
      <3>1. j + 1 = 2 /\ stack[j] = call /\ stack'[j + 1] = c
        BY <1>1, <1>6, <2>1
      <3> QED
        BY <1>2, <3>1
    <2>2. CASE j # 1
      <3>1. j \in 2..Len(stack)
        BY <1>1, <2>2
      <3> QED
        BY <1>7, <3>1
    <2> QED
      BY <2>1, <2>2
  <1>9. ASSUME NEW i \in 1..Len(stack)
        PROVE  From(i + 1)' = From(i)
    <2>1. CASE i = Len(stack)
      BY <1>6, <2>1 DEF From
    <2>2. CASE i # Len(stack)
      <3>1. i + 1 \in 1..Len(stack) /\ i + 1 # Len(stack')
        BY <1>1, <1>6, <2>2
      <3> QED
        BY <1>8, <2>2, <3>1 DEF From
    <2> QED
      BY <2>1, <2>2
  <1>10. From(1)' = call.here
    <2>1. 1 # Len(stack') /\ 1 + 1 = 2
      BY <1>1, <1>6
    <2> QED
      BY <1>2, <1>6, <2>1 DEF From
  <1> QED
    BY <1>2, <1>5, <1>6, <1>7, <1>9, <1>10

-----------------------------------------------------------------------------
(* What the steps of visit do to the stack.                                *)

Structure == Outer /\ Counted /\ Placed /\ Unhindered

\* A call returns: whoever made it finds the current directory where he left it.
LEMMA ReturnKeeps ==
    ASSUME Bookkeeping, stack # <<>>, Return,
           fds' = Len(stack) - 1,
           ~strayed' => ~strayed /\ cwd' = From(1),
           strayed' => changes > 0,
           UNCHANGED <<perm, changes, crashed>>
    PROVE  stack' \in Seq(Calls) /\ Structure'
  <1>1. /\ Len(stack) \in Nat \ {0}
        /\ stack' \in Seq(Calls) /\ Len(stack') = Len(stack) - 1
        /\ stack' = <<>> <=> Len(stack) = 1
        /\ \A i \in 1..Len(stack') : stack'[i] = stack[i + 1] /\ From(i)' = From(i + 1)
    BY Returns, Innermost DEF Bookkeeping, TypeOK
  <1>2. ~crashed /\ ~crashed'
    BY DEF Bookkeeping, Counted
  <1>3. ASSUME NEW i \in 1..Len(stack')
        PROVE  i + 1 \in 2..Len(stack) /\ i + 1 \in 1..Len(stack) /\ stack'[i] = stack[i + 1]
               /\ stack'[i].at = "kids" /\ Inside(i)' /\ Inside(i + 1) /\ From(i)' = From(i + 1)
    <2>1. i + 1 \in 2..Len(stack) /\ i + 1 \in 1..Len(stack)
      BY <1>1
    <2>2. stack[i + 1].at = "kids"
      BY <2>1 DEF Bookkeeping, Outer
    <2> QED
      BY <1>1, <2>1, <2>2 DEF Inside
  <1>4. Outer'
    <2>1. \A i \in 2..Len(stack') : i \in 1..Len(stack')
      BY <1>1
    <2> QED
      BY <1>3, <2>1 DEF Outer
  <1>5. Counted'
    <2>1. stack' # <<>> => 1 \in 1..Len(stack')
      BY <1>1
    <2>2. stack' # <<>> => Inside(1)'
      BY <1>3, <2>1
    <2> QED
      BY <1>1, <1>2, <2>2 DEF Counted
  <1>6. Placed'
    <2> SUFFICES ASSUME ~strayed'
                 PROVE  /\ \A i \in 1..Len(stack') : stack'[i].saved = From(i)'
                        /\ stack' = <<>> => cwd' = Root
                        /\ stack' # <<>> => stack'[1].at = "kids" /\ cwd' = stack'[1].here
      BY DEF Placed
    <2>1. \A i \in 1..Len(stack') : stack'[i].saved = From(i)'
      BY <1>3 DEF Bookkeeping, Placed
    <2>2. stack' = <<>> => cwd' = Root
      BY <1>1 DEF From
    <2>3. ASSUME stack' # <<>>
          PROVE  stack'[1].at = "kids" /\ cwd' = stack'[1].here
      <3>1. 1 \in 1..Len(stack') /\ Len(stack) # 1
        BY <1>1, <2>3
      <3>2. stack'[1].at = "kids" /\ stack'[1] = stack[2]
        BY <1>3, <3>1
      <3>3. From(1) = stack[2].here
        BY <3>1 DEF From
      <3> QED
        BY <3>2, <3>3
    <2> QED
      BY <2>1, <2>2, <2>3
  <1>7. Unhindered'
    BY <1>3 DEF Bookkeeping, Unhindered
  <1> QED
    BY <1>1, <1>4, <1>5, <1>6, <1>7 DEF Structure

\* A call goes on as c: it has a descriptor if and only if it is inside, what it
\* saved is where it was made, and it is there or in its own directory.
LEMMA BecomeKeeps ==
    ASSUME Bookkeeping, stack # <<>>, NEW STATE c, c \in Calls, Become(c),
           fds' = Len(stack) - (IF c.at \in {"chdir", "list", "kids"} THEN 0 ELSE 1),
           ~strayed => /\ c.at \in {"chdir", "list", "kids"} => c.saved = From(1)
                       /\ c.at = "kids" => cwd' = c.here
                       /\ c.at \notin {"list", "kids"} => cwd' = From(1),
           c.at \in {"chdir", "list", "kids"} /\ changes = 0 => "x" \in perm[c.saved],
           UNCHANGED <<perm, changes, crashed, strayed>>
    PROVE  stack' \in Seq(Calls) /\ Structure'
  <1>1. /\ Len(stack) \in Nat \ {0}
        /\ stack' \in Seq(Calls) /\ Len(stack') = Len(stack) /\ stack' # <<>>
        /\ stack'[1] = c
        /\ \A i \in 2..Len(stack) : stack'[i] = stack[i]
        /\ \A i \in 1..Len(stack) : From(i)' = From(i)
    BY Becomes, Innermost DEF Bookkeeping, TypeOK
  <1>2. ~crashed /\ ~crashed'
    BY DEF Bookkeeping, Counted
  <1>3. Inside(1)' <=> c.at \in {"chdir", "list", "kids"}
    BY <1>1 DEF Inside
  <1>4. \A i \in 1..Len(stack) : i # 1 => i \in 2..Len(stack)
    BY <1>1
  <1>5. \A i \in 1..Len(stack) : i # 1 => stack'[i] = stack[i] /\ (Inside(i)' <=> Inside(i))
    BY <1>1, <1>4 DEF Inside
  <1>6. Outer'
    BY <1>1 DEF Bookkeeping, Outer
  <1>7. Counted'
    BY <1>1, <1>2, <1>3 DEF Counted
  <1>8. Placed'
    <2> SUFFICES ASSUME ~strayed'
                 PROVE  /\ \A i \in 1..Len(stack') : Inside(i)' => stack'[i].saved = From(i)'
                        /\ CASE stack'[1].at = "kids" -> cwd' = stack'[1].here
                             [] stack'[1].at = "list" -> TRUE
                             [] OTHER -> cwd' = From(1)'
      BY <1>1 DEF Placed
    <2>1. ~strayed /\ From(1)' = From(1)
      BY <1>1
    <2>2. ASSUME NEW i \in 1..Len(stack'), Inside(i)'
          PROVE  stack'[i].saved = From(i)'
      <3>1. CASE i = 1
        BY <1>1, <1>3, <2>1, <2>2, <3>1
      <3>2. CASE i # 1
        BY <1>1, <1>5, <2>1, <2>2, <3>2 DEF Bookkeeping, Placed
      <3> QED
        BY <3>1, <3>2
    <2> QED
      BY <1>1, <2>1, <2>2
  <1>9. Unhindered'
    <2>1. ASSUME changes = 0, NEW i \in 1..Len(stack'), Inside(i)'
          PROVE  "x" \in perm[stack'[i].saved]
      <3>1. CASE i = 1
        BY <1>1, <1>3, <2>1, <3>1
      <3>2. CASE i # 1
        BY <1>1, <1>5, <2>1, <3>2 DEF Bookkeeping, Unhindered
      <3> QED
        BY <3>1, <3>2
    <2> QED
      BY <2>1 DEF Bookkeeping, Unhindered
  <1> QED
    BY <1>1, <1>6, <1>7, <1>8, <1>9 DEF Structure

\* A call visits a name: the new call is made where the old one is.
LEMMA CallKeeps ==
    ASSUME Bookkeeping, stack # <<>>, call.at = "kids", NEW x \in Name,
           stack' = <<Call(x), [call EXCEPT !.kids = @ \ {x}]>> \o Tail(stack),
           Root \in Dir, UNCHANGED <<perm, changes, cwd, fds, crashed, strayed>>
    PROVE  stack' \in Seq(Calls) /\ Structure'
  <1>1. /\ Len(stack) \in Nat \ {0} /\ call = stack[1] /\ call \in Calls
    BY Innermost DEF Bookkeeping, TypeOK
  <1>2. PICK k : k = [call EXCEPT !.kids = @ \ {x}]
    OBVIOUS
  <1>3. k.at = "kids" /\ k.here = call.here /\ k.saved = call.saved /\ Call(x).at = "lstat"
    BY <1>1, <1>2 DEF Calls, Call
  <1>5. /\ stack' \in Seq(Calls) /\ Len(stack') = Len(stack) + 1 /\ stack' # <<>>
        /\ stack'[1] = Call(x) /\ stack'[2] = k
        /\ \A i \in 2..Len(stack) : stack'[i + 1] = stack[i]
        /\ From(1)' = call.here
        /\ \A i \in 1..Len(stack) : From(i + 1)' = From(i)
    BY <1>2, Visits DEF Bookkeeping, TypeOK
  <1>8. ASSUME NEW j \in 1..Len(stack)
        PROVE  /\ stack'[j + 1].saved = stack[j].saved
               /\ stack'[j + 1].at = "kids" /\ stack[j].at = "kids"
               /\ From(j + 1)' = From(j)
    <2>1. CASE j = 1
      <3>1. j + 1 = 2 /\ stack[j] = call /\ stack'[j + 1] = k
        BY <1>1, <1>5, <2>1
      <3> QED
        BY <1>3, <1>5, <3>1
    <2>2. CASE j # 1
      <3>1. j \in 2..Len(stack)
        BY <1>1, <2>2
      <3> QED
        BY <1>5, <3>1 DEF Bookkeeping, Outer
    <2> QED
      BY <2>1, <2>2
  <1>9. ASSUME NEW i \in 1..Len(stack'), i # 1
        PROVE  /\ i - 1 \in 1..Len(stack) /\ i = (i - 1) + 1
               /\ stack'[i].saved = stack[i - 1].saved
               /\ stack'[i].at = "kids" /\ stack[i - 1].at = "kids"
               /\ From(i)' = From(i - 1)
    <2>1. i - 1 \in 1..Len(stack) /\ i = (i - 1) + 1
      BY <1>1, <1>5, <1>9
    <2> QED
      BY <1>8, <2>1
  <1>10. ~crashed /\ Inside(1) /\ ~Inside(1)'
    BY <1>1, <1>3, <1>5 DEF Bookkeeping, Counted, Inside
  <1>11. Outer'
    <2>1. \A i \in 2..Len(stack') : i \in 1..Len(stack') /\ i # 1
      BY <1>1, <1>5
    <2> QED
      BY <1>9, <2>1 DEF Outer
  <1>12. Counted'
    BY <1>1, <1>5, <1>10 DEF Bookkeeping, Counted
  <1>13. Placed'
    <2> SUFFICES ASSUME ~strayed'
                 PROVE  /\ \A i \in 1..Len(stack') : Inside(i)' => stack'[i].saved = From(i)'
                        /\ cwd' = From(1)'
      BY <1>3, <1>5 DEF Placed
    <2>1. \A i \in 1..Len(stack') : Inside(i)' => stack'[i].saved = From(i)'
      <3>1. \A i \in 1..Len(stack) : Inside(i) => stack[i].saved = From(i)
        BY DEF Bookkeeping, Placed
      <3>2. \A i \in 1..Len(stack) : stack[i].at = "kids" => Inside(i)
        BY DEF Inside
      <3> QED
        BY <1>9, <1>10, <3>1, <3>2
    <2>2. From(1)' = stack[1].here
      BY <1>1, <1>5
    <2>3. cwd = stack[1].here
      BY <1>1 DEF Bookkeeping, Placed
    <2> QED
      BY <2>1, <2>2, <2>3
  <1>14. Unhindered'
    <2>1. \A i \in 1..Len(stack) : stack[i].at = "kids" => Inside(i)
      BY DEF Inside
    <2> QED
      BY <1>9, <1>10, <2>1 DEF Bookkeeping, Unhindered
  <1> QED
    BY <1>5, <1>11, <1>12, <1>13, <1>14 DEF Structure

-----------------------------------------------------------------------------
(* The books.                                                              *)

\* They are in order when main calls visit.
LEMMA InitBooks == Init => Bookkeeping
  <1> SUFFICES ASSUME Init PROVE Bookkeeping
    OBVIOUS
  <1> USE TreeAssumption
  <1>1. Call(Dot) \in Calls /\ Call(Dot).at = "lstat"
    BY DEF Calls, Call
  <1>2. stack \in Seq(Calls) /\ Len(stack) = 1 /\ stack[1] = Call(Dot) /\ stack # <<>>
    BY <1>1 DEF Init
  <1>3. TypeOK
    <2>1. entry \in [Dir -> [Name -> Things]] /\ perm \in [Dir -> SUBSET {"r", "x"}]
      BY DEF Init
    <2>2. fds \in 0..limit /\ changes \in 0..MaxChanges
      BY DEF Init
    <2>3. out \in Seq([depth : Nat, name : Name \cup {Dot}, ok : BOOLEAN])
      BY DEF Init
    <2> QED
      BY <1>2, <2>1, <2>2, <2>3 DEF Init, TypeOK
  <1>4. Outer
    BY <1>2 DEF Outer
  <1>5. ~Inside(1)
    BY <1>1, <1>2 DEF Inside
  <1>6. Counted
    BY <1>2, <1>5 DEF Init, Counted
  <1>7. Placed
    <2>1. From(1) = Root
      BY <1>2 DEF From
    <2> QED
      BY <1>1, <1>2, <1>5, <2>1 DEF Init, Placed
  <1>8. Unhindered
    BY <1>2, <1>5 DEF Init, Unhindered
  <1> QED
    BY <1>3, <1>4, <1>6, <1>7, <1>8 DEF Bookkeeping

\* What a step of visit prints is a line.
LEMMA Prints ==
    ASSUME TypeOK, stack # <<>>, NEW ok \in BOOLEAN, PrintLine(ok)
    PROVE  out' \in Seq([depth : Nat, name : Name \cup {Dot}, ok : BOOLEAN])
  <1>1. Depth \in Nat /\ call \in Calls
    BY Innermost DEF TypeOK, Depth
  <1>2. [depth |-> Depth, name |-> call.name, ok |-> ok]
            \in [depth : Nat, name : Name \cup {Dot}, ok : BOOLEAN]
    BY <1>1 DEF Calls
  <1> QED
    BY <1>2, AppendProperties DEF TypeOK, PrintLine

\* What the innermost call has, wherever it is.
LEMMA Here ==
    ASSUME Bookkeeping, stack # <<>>
    PROVE  /\ Len(stack) \in Nat \ {0} /\ limit \in Nat
           /\ call \in Calls /\ ~crashed
           /\ call.at \in {"chdir", "list", "kids"} =>
                 /\ fds = Len(stack)
                 /\ ~strayed => call.saved = From(1)
                 /\ changes = 0 => "x" \in perm[call.saved]
           /\ call.at \notin {"chdir", "list", "kids"} => fds = Len(stack) - 1
           /\ ~strayed /\ call.at \notin {"list", "kids"} => cwd = From(1)
           /\ strayed => changes > 0
  <1>1. /\ Len(stack) \in Nat \ {0} /\ 1 \in 1..Len(stack)
        /\ call = stack[1] /\ call \in Calls
    BY Innermost DEF Bookkeeping, TypeOK
  <1>2. limit \in Nat
    BY TreeAssumption DEF Bookkeeping, TypeOK
  <1>3. Inside(1) <=> call.at \in {"chdir", "list", "kids"}
    BY <1>1 DEF Inside
  <1>4. ~crashed /\ fds = Len(stack) - (IF Inside(1) THEN 0 ELSE 1)
    BY <1>1 DEF Bookkeeping, Counted
  <1>5. Inside(1) => /\ ~strayed => call.saved = From(1)
                     /\ changes = 0 => "x" \in perm[call.saved]
    BY <1>1 DEF Bookkeeping, Placed, Unhindered
  <1>6. ~strayed /\ call.at \notin {"list", "kids"} => cwd = From(1)
    BY <1>1 DEF Bookkeeping, Placed
  <1>7. strayed => changes > 0
    BY DEF Bookkeeping, Unhindered
  <1> QED
    BY <1>1, <1>2, <1>3, <1>4, <1>5, <1>6, <1>7

\* Every step keeps it.
LEMMA StepBooks == Bookkeeping /\ [Next]_vars => Bookkeeping'
  <1> SUFFICES ASSUME Bookkeeping, [Next]_vars PROVE Bookkeeping'
    OBVIOUS
  <1> USE TreeAssumption
  <1>1. TypeOK
    BY DEF Bookkeeping
  <1> DEFINE Lines == Seq([depth : Nat, name : Name \cup {Dot}, ok : BOOLEAN])
  \* A step of visit that is not yet in its directory, or stays outside.
  <1>2. ASSUME stack # <<>>, call.at \in {"lstat", "readlink", "opendir"}, Return,
               UNCHANGED <<system, option, limit, cwd, fds, crashed, strayed>>,
               error' \in BOOLEAN, out' \in Lines
        PROVE  Bookkeeping'
    <2>1. stack' \in Seq(Calls) /\ Structure'
      BY <1>2, Here, ReturnKeeps DEF system
    <2> QED
      BY <1>1, <1>2, <2>1 DEF Bookkeeping, TypeOK, Structure, system
  <1>3. ASSUME stack # <<>>, call.at \in {"lstat", "readlink", "opendir"},
               NEW w \in {"readlink", "opendir", "open"}, Goto(w),
               UNCHANGED <<system, option, limit, cwd, fds, crashed, strayed>>,
               error' \in BOOLEAN, out' \in Lines
        PROVE  Bookkeeping'
    <2> DEFINE c == [call EXCEPT !.at = w]
    <2>1. c \in Calls /\ c.at = w
      BY <1>3, Here DEF Calls
    <2>2. Become(c)
      BY <1>3 DEF Goto
    <2> HIDE DEF c
    <2>3. stack' \in Seq(Calls) /\ Structure'
      BY <1>3, <2>1, <2>2, Here, BecomeKeeps DEF system
    <2> QED
      BY <1>1, <1>3, <2>3 DEF Bookkeeping, TypeOK, Structure, system
  <1>4. ASSUME stack # <<>>, NEW ok \in BOOLEAN, PrintLine(ok)
        PROVE  out' \in Lines
    BY <1>1, <1>4, Prints
  <1>5. out \in Lines /\ error \in BOOLEAN
    BY <1>1 DEF TypeOK
  <1> HIDE DEF Lines
  <1>6. CASE TooDeep
    BY <1>2, <1>5, <1>6 DEF TooDeep, At
  <1>7. CASE Lstat
    <2>1. /\ stack # <<>> /\ call.at = "lstat"
          /\ UNCHANGED <<system, option, limit, cwd, fds, crashed, strayed>>
      BY <1>7 DEF Lstat, At
    <2>2. CASE Report
      BY <1>2, <1>4, <2>1, <2>2 DEF Report
    <2>3. CASE Goto("opendir") /\ UNCHANGED <<out, error>>
      BY <1>3, <1>5, <2>1, <2>3
    <2>4. CASE Goto("readlink") /\ UNCHANGED <<out, error>>
      BY <1>3, <1>5, <2>1, <2>4
    <2>5. CASE Return /\ PrintLine(TRUE) /\ UNCHANGED error
      BY <1>2, <1>4, <1>5, <2>1, <2>5
    <2> QED
      BY <1>7, <2>2, <2>3, <2>4, <2>5 DEF Lstat
  <1>8. CASE Readlink
    <2>1. /\ stack # <<>> /\ call.at = "readlink"
          /\ UNCHANGED <<system, option, limit, cwd, fds, crashed, strayed>>
      BY <1>8 DEF Readlink, At
    <2>2. CASE Report
      BY <1>2, <1>4, <2>1, <2>2 DEF Report
    <2>3. CASE Return /\ PrintLine(TRUE) /\ UNCHANGED error
      BY <1>2, <1>4, <1>5, <2>1, <2>3
    <2> QED
      BY <1>8, <2>2, <2>3 DEF Readlink
  <1>9. CASE Opendir
    <2>1. /\ stack # <<>> /\ call.at = "opendir"
          /\ UNCHANGED <<system, option, limit, cwd, fds, crashed, strayed>>
      BY <1>9 DEF Opendir, At
    <2>2. CASE Report
      BY <1>2, <1>4, <2>1, <2>2 DEF Report
    <2>3. CASE Return /\ PrintLine(TRUE) /\ UNCHANGED error
      BY <1>2, <1>4, <1>5, <2>1, <2>3
    <2>4. CASE Goto("open") /\ PrintLine(TRUE) /\ UNCHANGED error
      BY <1>3, <1>4, <1>5, <2>1, <2>4
    <2> QED
      BY <1>9, <2>2, <2>3, <2>4 DEF Opendir
  <1>10. CASE Open
    <2>1. /\ stack # <<>> /\ call.at = "open"
          /\ UNCHANGED <<system, option, limit, cwd, crashed, strayed, out>>
      BY <1>10 DEF Open, At
    <2>2. ASSUME fds < limit, MayList(cwd), fds' = fds + 1, UNCHANGED error,
                 Become([call EXCEPT !.saved = cwd, !.at = "chdir"])
          PROVE  Bookkeeping'
      <3> DEFINE c == [call EXCEPT !.saved = cwd, !.at = "chdir"]
      <3>1. c \in Calls /\ c.at = "chdir" /\ c.saved = cwd
        BY <1>1, <2>1, Here DEF Calls, TypeOK
      <3>2. Become(c) /\ "x" \in perm[c.saved]
        BY <2>2, <3>1 DEF MayList
      <3> HIDE DEF c
      <3>3. stack' \in Seq(Calls) /\ Structure'
        BY <2>1, <2>2, <3>1, <3>2, Here, BecomeKeeps DEF system
      <3>4. fds' \in 0..limit
        BY <2>1, <2>2, Here
      <3> QED
        BY <1>1, <2>1, <2>2, <3>3, <3>4 DEF Bookkeeping, TypeOK, Structure, system
    <2>3. ASSUME error' = TRUE, Return, UNCHANGED fds
          PROVE  Bookkeeping'
      <3>1. stack' \in Seq(Calls) /\ Structure'
        BY <2>1, <2>3, Here, ReturnKeeps DEF system
      <3> QED
        BY <1>1, <2>1, <2>3, <3>1 DEF Bookkeeping, TypeOK, Structure, system
    <2> QED
      BY <1>10, <2>2, <2>3 DEF Open
  <1>11. CASE Chdir
    <2>1. /\ stack # <<>> /\ call.at = "chdir"
          /\ UNCHANGED <<system, option, limit, crashed, strayed, out>>
      BY <1>11 DEF Chdir, At
    <2>2. ASSUME NEW d \in Dir, cwd' = d, Goto("list"), UNCHANGED <<fds, error>>
          PROVE  Bookkeeping'
      <3> DEFINE c == [call EXCEPT !.at = "list"]
      <3>1. c \in Calls /\ c.at = "list" /\ c.saved = call.saved
        BY <2>1, Here DEF Calls
      <3>2. Become(c)
        BY <2>2 DEF Goto
      <3> HIDE DEF c
      <3>3. stack' \in Seq(Calls) /\ Structure'
        BY <2>1, <2>2, <3>1, <3>2, Here, BecomeKeeps DEF system
      <3> QED
        BY <1>1, <2>1, <2>2, <3>3 DEF Bookkeeping, TypeOK, Structure, system
    <2>3. ASSUME error' = TRUE, fds' = fds - 1, Return, UNCHANGED cwd
          PROVE  Bookkeeping'
      <3>1. stack' \in Seq(Calls) /\ Structure'
        BY <2>1, <2>3, Here, ReturnKeeps DEF system
      <3>2. fds' \in 0..limit
        BY <1>1, <2>1, <2>3, Here DEF TypeOK
      <3> QED
        BY <1>1, <2>1, <2>3, <3>1, <3>2 DEF Bookkeeping, TypeOK, Structure, system
    <2> QED
      BY <1>11, <2>2, <2>3 DEF Chdir
  <1>12. CASE List
    <2>1. /\ stack # <<>> /\ call.at = "list"
          /\ UNCHANGED <<system, option, limit, cwd, fds, error, strayed, out>>
      BY <1>12 DEF List, At
    <2> DEFINE c == [call EXCEPT !.at = "kids", !.here = cwd, !.kids = {x \in Name : Listed(x)}]
    <2>2. ASSUME Become(c), UNCHANGED crashed
          PROVE  Bookkeeping'
      <3>1. c \in Calls /\ c.at = "kids" /\ c.saved = call.saved /\ c.here = cwd
        BY <1>1, <2>1, Here DEF Calls, TypeOK
      <3> HIDE DEF c
      <3>2. stack' \in Seq(Calls) /\ Structure'
        BY <2>1, <2>2, <3>1, Here, BecomeKeeps DEF system
      <3> QED
        BY <1>1, <2>1, <2>2, <3>2 DEF Bookkeeping, TypeOK, Structure, system
    <2>3. ASSUME crashed' = TRUE, stack' = <<>>
          PROVE  Bookkeeping'
      <3>1. stack' \in Seq(Calls) /\ Len(stack') = 0
        BY <2>3
      <3>2. Outer' /\ Counted' /\ Placed' /\ Unhindered'
        BY <2>1, <2>3, <3>1 DEF Outer, Counted, Placed, Unhindered, Bookkeeping, system
      <3> QED
        BY <1>1, <2>1, <2>3, <3>1, <3>2 DEF Bookkeeping, TypeOK, system
    <2> QED
      BY <1>12, <2>2, <2>3 DEF List
  <1>13. CASE VisitKid
    <2>1. /\ stack # <<>> /\ call.at = "kids"
          /\ UNCHANGED <<system, option, limit, cwd, fds, error, crashed, strayed, out>>
      BY <1>13 DEF VisitKid, At
    <2>2. PICK x \in call.kids :
             stack' = <<Call(x), [call EXCEPT !.kids = @ \ {x}]>> \o Tail(stack)
      BY <1>13 DEF VisitKid
    <2>3. x \in Name
      BY <2>1, <2>2, Here DEF Calls
    <2>4. stack' \in Seq(Calls) /\ Structure'
      BY <2>1, <2>2, <2>3, CallKeeps DEF system
    <2> QED
      BY <1>1, <2>1, <2>4 DEF Bookkeeping, TypeOK, Structure, system
  <1>14. CASE Back
    <2>1. /\ stack # <<>> /\ call.at = "kids"
          /\ cwd' = IF "x" \in perm[call.saved] THEN call.saved ELSE cwd
          /\ strayed' = (strayed \/ "x" \notin perm[call.saved])
          /\ fds' = fds - 1 /\ Return
          /\ UNCHANGED <<system, option, limit, error, crashed, out>>
      BY <1>14 DEF Back, At
    <2>2. ~strayed' => ~strayed /\ cwd' = From(1)
      BY <2>1, Here
    <2>3. strayed' => changes > 0
      BY <1>1, <2>1, Here DEF TypeOK
    <2>4. stack' \in Seq(Calls) /\ Structure'
      BY <2>1, <2>2, <2>3, Here, ReturnKeeps DEF system
    <2>5. fds' \in 0..limit
      BY <1>1, <2>1, Here DEF TypeOK
    <2>6. cwd' \in Dir /\ strayed' \in BOOLEAN
      BY <1>1, <2>1, Here DEF TypeOK, Calls
    <2> QED
      BY <1>1, <2>1, <2>4, <2>5, <2>6 DEF Bookkeeping, TypeOK, Structure, system
  \* Others change neither the stack nor anything tree has.
  <1>15. ASSUME UNCHANGED <<option, limit, stack, cwd, fds, error, crashed, strayed, out>>,
                changes' = changes + 1, changes < MaxChanges,
                entry' \in [Dir -> [Name -> Things]], perm' \in [Dir -> SUBSET {"r", "x"}]
         PROVE  Bookkeeping'
    <2>1. changes' \in 0..MaxChanges /\ changes' > 0
      BY <1>1, <1>15 DEF TypeOK
    <2>2. TypeOK'
      BY <1>1, <1>15, <2>1 DEF TypeOK
    <2>3. Outer' /\ Counted' /\ Placed'
      BY <1>15 DEF Bookkeeping, Outer, Counted, Placed, Inside, From
    <2>4. Unhindered'
      BY <2>1 DEF Unhindered
    <2> QED
      BY <2>2, <2>3, <2>4 DEF Bookkeeping
  <1>16. ASSUME NEW d \in Dir, Chmod(d)
         PROVE  Bookkeeping'
    BY <1>1, <1>15, <1>16 DEF Chmod, TypeOK
  <1>17. ASSUME NEW d \in Dir, NEW x \in Name, Change(d, x)
         PROVE  Bookkeeping'
    BY <1>1, <1>15, <1>17 DEF Change, TypeOK
  <1>18. CASE UNCHANGED vars
    BY <1>18 DEF vars, system, Bookkeeping, TypeOK, Outer, Counted, Placed, Unhindered, Inside, From
  <1> QED
    BY <1>6, <1>7, <1>8, <1>9, <1>10, <1>11, <1>12, <1>13, <1>14, <1>16, <1>17, <1>18 DEF Next, Visit

-----------------------------------------------------------------------------
(* The listing.                                                            *)

Names == Name \cup {Dot}
Lines == Seq([depth : Nat, name : Names, ok : BOOLEAN])
Places == Dir \X (SUBSET Names) \X Nat

\* What a name leads to, what is shown of a directory, and a line of the listing.
LEMMA Kinds ==
    ASSUME TypeOK, NEW d \in Dir, NEW x \in Names
    PROVE  /\ IsDir(d, x) => Target(d, x) \in Dir
           /\ Shown(d) \in SUBSET Names /\ Shown(d) \subseteq Name /\ Dot \notin Shown(d)
           /\ \A k \in Nat : <<Line(d, x, k)>> \in Lines
  <1> USE TreeAssumption DEF Names
  <1>1. x # Dot => x \in Name /\ entry[d][x] \in Things
    BY DEF TypeOK
  <1>2. \A t \in Things : t.type = "dir" => t.to \in Dir
    BY DEF Things
  <1>3. IsDir(d, x) => Target(d, x) \in Dir
    BY <1>1, <1>2 DEF IsDir, Target
  <1>4. Shown(d) \in SUBSET Names /\ Shown(d) \subseteq Name /\ Dot \notin Shown(d)
    BY DEF Shown
  <1>5. ASSUME NEW k \in Nat PROVE <<Line(d, x, k)>> \in Lines
    <2>1. (IsDir(d, x) => "r" \in perm[Target(d, x)]) \in BOOLEAN
      BY Zenon
    <2>2. Line(d, x, k) \in [depth : Nat, name : Names, ok : BOOLEAN]
      BY <2>1 DEF Line
    <2> QED
      BY <2>2 DEF Lines
  <1> QED
    BY <1>3, <1>4, <1>5

\* The names that are left are numbers, of which one is the first.
LEMMA FirstIs ==
    ASSUME NEW kids \in SUBSET Names, kids # {}
    PROVE  /\ First(kids) \in kids /\ First(kids) \in Names
           /\ \A y \in kids : First(kids) <= y
           /\ kids \ {First(kids)} \in SUBSET Names
           /\ \A x \in kids : (\A y \in kids : x <= y) => x = First(kids)
  <1>1. kids \subseteq Nat
    BY TreeAssumption DEF Names, Dot
  <1>2. \E x \in kids : \A y \in kids : x <= y
    BY <1>1, LeastNat
  <1>3. First(kids) \in kids /\ \A y \in kids : First(kids) <= y
    BY <1>2 DEF First
  <1>4. ASSUME NEW x \in kids, \A y \in kids : x <= y PROVE x = First(kids)
    <2>1. x <= First(kids) /\ First(kids) <= x
      BY <1>3, <1>4
    <2>2. x \in Nat /\ First(kids) \in Nat
      BY <1>1, <1>3
    <2> QED
      BY <2>1, <2>2
  <1> QED
    BY <1>3, <1>4

\* How much there is left to list at most: it is less below a name and after it.
Most == IF option.max_depth > 0 THEN option.max_depth ELSE 0
Size(w) == (IF w[3] <= Most THEN Most - w[3] ELSE 0) * (Cardinality(Names) + 1) + Cardinality(w[2])

LEMMA Lesser ==
    ASSUME NEW a \in Nat, NEW n \in Nat, NEW c \in 0..n, NEW d \in Nat
    PROVE  a * (n + 1) + c < (a + 1) * (n + 1) + d /\ a * (n + 1) \in Nat
  <1>1. (a + 1) * (n + 1) = a * (n + 1) + (n + 1)
    OBVIOUS
  <1>2. a * (n + 1) \in Nat
    OBVIOUS
  <1> QED
    BY <1>1, <1>2

LEMMA Sizes ==
    ASSUME TypeOK
    PROVE  /\ \A w \in Places : Size(w) \in Nat
           /\ \A d \in Dir, kids \in SUBSET Names, k \in Nat :
                 /\ \A x \in kids : Size(<<d, kids \ {x}, k>>) < Size(<<d, kids, k>>)
                 /\ k < option.max_depth =>
                        \A e \in Dir, s \in SUBSET Names : Size(<<e, s, k + 1>>) < Size(<<d, kids, k>>)
  <1> DEFINE n == Cardinality(Names)
  <1>1. IsFiniteSet(Names) /\ n \in Nat
    <2>1. IsFiniteSet(Names)
      BY TreeAssumption, FS_AddElement DEF Names
    <2> QED
      BY <2>1, FS_CardinalityType
  <1>2. \A s \in SUBSET Names : IsFiniteSet(s) /\ Cardinality(s) \in 0..n
    BY <1>1, FS_Subset, FS_CardinalityType
  <1>3. Most \in Nat /\ \A k \in Nat : k < option.max_depth => k + 1 <= Most
    <2>1. option.max_depth \in Int
      BY TreeAssumption DEF TypeOK
    <2> QED
      BY <2>1 DEF Most
  <1> HIDE DEF n
  <1> DEFINE m(k) == IF k <= Most THEN Most - k ELSE 0
  <1>4. \A k \in Nat : m(k) \in Nat /\ m(k) * (n + 1) \in Nat
    <2>1. ASSUME NEW k \in Nat PROVE m(k) \in Nat
      BY <1>3
    <2> HIDE DEF m
    <2>2. ASSUME NEW k \in Nat PROVE m(k) * (n + 1) \in Nat
      BY <2>1, <1>1, Lesser
    <2> QED
      BY <2>1, <2>2
  <1>5. \A d, s, k : Size(<<d, s, k>>) = m(k) * (n + 1) + Cardinality(s)
    BY DEF Size, n
  <1>6. \A w \in Places : w[2] \in SUBSET Names /\ w[3] \in Nat /\ w = <<w[1], w[2], w[3]>>
    BY DEF Places
  <1>7. \A w \in Places : Size(w) = m(w[3]) * (n + 1) + Cardinality(w[2])
    BY <1>5, <1>6
  <1>m. \A k \in Nat : k < option.max_depth => m(k) = m(k + 1) + 1
    BY <1>3
  <1> HIDE DEF m
  <1>8. ASSUME NEW w \in Places PROVE Size(w) \in Nat
    <2>1. Cardinality(w[2]) \in Nat
      BY <1>2, <1>6
    <2> QED
      BY <1>4, <1>6, <1>7, <2>1
  <1>9. ASSUME NEW d \in Dir, NEW kids \in SUBSET Names, NEW k \in Nat, NEW x \in kids
        PROVE  Size(<<d, kids \ {x}, k>>) < Size(<<d, kids, k>>)
    <2>1. Cardinality(kids \ {x}) = Cardinality(kids) - 1 /\ Cardinality(kids) \in Nat
      BY <1>2, FS_RemoveElement
    <2> DEFINE p == m(k) * (n + 1)
    <2>2. p \in Nat
      BY <1>4
    <2>3. Size(<<d, kids \ {x}, k>>) = p + Cardinality(kids \ {x}) /\ Size(<<d, kids, k>>) = p + Cardinality(kids)
      BY <1>5
    <2> HIDE DEF p
    <2> QED
      BY <2>1, <2>2, <2>3
  <1>10. ASSUME NEW d \in Dir, NEW kids \in SUBSET Names, NEW k \in Nat, k < option.max_depth,
                NEW e \in Dir, NEW s \in SUBSET Names
         PROVE  Size(<<e, s, k + 1>>) < Size(<<d, kids, k>>)
    <2>1. Cardinality(s) \in 0..n /\ Cardinality(kids) \in Nat
      BY <1>1, <1>2
    <2>2. m(k) = m(k + 1) + 1 /\ m(k + 1) \in Nat
      BY <1>m, <1>4, <1>10
    <2>3. m(k + 1) * (n + 1) + Cardinality(s) < (m(k + 1) + 1) * (n + 1) + Cardinality(kids)
      BY <2>1, <2>2, <1>1, Lesser
    <2> QED
      BY <1>5, <2>2, <2>3
  <1> QED
    BY <1>8, <1>9, <1>10

\* One level of the recursion, with g for the calls.
BelowBy(g, d, x, k) ==
    IF GoesBelow(d, x, k) THEN g[<<Target(d, x), Shown(Target(d, x)), k + 1>>] ELSE <<>>
ListBy(g, w) ==
    IF w[2] = {} THEN <<>>
    ELSE <<Line(w[1], First(w[2]), w[3])>> \o BelowBy(g, w[1], First(w[2]), w[3])
            \o g[<<w[1], w[2] \ {First(w[2])}, w[3]>>]

\* One level of the listing is text, and depends only on smaller places.
LEMMA ListByType ==
    ASSUME TypeOK, NEW g \in [Places -> Lines], NEW w \in Places
    PROVE  ListBy(g, w) \in Lines
  <1> DEFINE d == w[1]
             kids == w[2]
             k == w[3]
             x == First(kids)
  <1>1. d \in Dir /\ kids \in SUBSET Names /\ k \in Nat
    BY DEF Places
  <1> HIDE DEF d, kids, k
  <1>2. CASE kids = {}
    BY <1>2 DEF ListBy, kids, Lines
  <1>3. CASE kids # {}
    <2>1. x \in Names /\ kids \ {x} \in SUBSET Names
      BY <1>1, <1>3, FirstIs
    <2> HIDE DEF x
    <2>2. <<Line(d, x, k)>> \in Lines
      BY <1>1, <2>1, Kinds
    <2>3. g[<<d, kids \ {x}, k>>] \in Lines
      BY <1>1, <2>1 DEF Places
    <2>4. BelowBy(g, d, x, k) \in Lines
      <3>1. CASE GoesBelow(d, x, k)
        <4>1. Target(d, x) \in Dir
          BY <3>1, <1>1, <2>1, Kinds DEF GoesBelow
        <4>2. Shown(Target(d, x)) \in SUBSET Names
          BY <4>1, <2>1, Kinds
        <4>3. <<Target(d, x), Shown(Target(d, x)), k + 1>> \in Places
          BY <1>1, <4>1, <4>2 DEF Places
        <4> QED
          BY <3>1, <4>3 DEF BelowBy
      <3>2. CASE ~GoesBelow(d, x, k)
        BY <3>2 DEF BelowBy, Lines
      <3> QED
        BY <3>1, <3>2
    <2>5. <<Line(d, x, k)>> \o BelowBy(g, d, x, k) \o g[<<d, kids \ {x}, k>>] \in Lines
      BY <2>2, <2>3, <2>4 DEF Lines
    <2> QED
      BY <1>3, <2>5 DEF ListBy, x, d, kids, k
  <1> QED
    BY <1>2, <1>3

LEMMA ListBySame ==
    ASSUME TypeOK, NEW g, NEW h, NEW w \in Places,
           \A v \in Places : Size(v) < Size(w) => g[v] = h[v]
    PROVE  ListBy(g, w) = ListBy(h, w)
  <1> DEFINE d == w[1]
             kids == w[2]
             k == w[3]
             x == First(kids)
  <1>1. d \in Dir /\ kids \in SUBSET Names /\ k \in Nat /\ w = <<d, kids, k>>
    BY DEF Places
  <1> HIDE DEF d, kids, k
  <1>2. CASE kids = {}
    BY <1>2 DEF ListBy, kids
  <1>3. CASE kids # {}
    <2>1. x \in Names /\ x \in kids /\ kids \ {x} \in SUBSET Names
      BY <1>1, <1>3, FirstIs
    <2> HIDE DEF x
    <2>2. g[<<d, kids \ {x}, k>>] = h[<<d, kids \ {x}, k>>]
      <3>1. <<d, kids \ {x}, k>> \in Places
        BY <1>1, <2>1 DEF Places
      <3>2. Size(<<d, kids \ {x}, k>>) < Size(w)
        BY <1>1, <2>1, Sizes
      <3> QED
        BY <3>1, <3>2
    <2>3. BelowBy(g, d, x, k) = BelowBy(h, d, x, k)
      <3>1. CASE GoesBelow(d, x, k)
        <4> DEFINE v == <<Target(d, x), Shown(Target(d, x)), k + 1>>
        <4>1. Target(d, x) \in Dir /\ k < option.max_depth
          BY <3>1, <1>1, <2>1, Kinds DEF GoesBelow
        <4>2. Shown(Target(d, x)) \in SUBSET Names
          BY <4>1, <2>1, Kinds
        <4>3. v \in Places
          BY <1>1, <4>1, <4>2 DEF Places
        <4>4. Size(v) < Size(w)
          BY <1>1, <4>1, <4>2, Sizes
        <4>5. g[v] = h[v]
          BY <4>3, <4>4
        <4> QED
          BY <3>1, <4>5 DEF BelowBy
      <3>2. CASE ~GoesBelow(d, x, k)
        BY <3>2 DEF BelowBy
      <3> QED
        BY <3>1, <3>2
    <2> QED
      BY <1>3, <2>2, <2>3 DEF ListBy, x, d, kids, k
  <1> QED
    BY <1>2, <1>3

\* Contents is what its definition says.
LEMMA ContentsEquation ==
    ASSUME TypeOK
    PROVE  Contents \in [Places -> Lines] /\ \A w \in Places : Contents[w] = ListBy(Contents, w)
  <1> DEFINE Body(g) == [w \in Places |-> ListBy(g, w)]
             F == [g \in [Places -> Lines] |-> Body(g)]
             mu == [w \in Places |-> Size(w)]
             g0 == [w \in Places |-> <<>>]
  <1>1. mu \in [Places -> Nat]
    BY Sizes
  <1>2. F \in [[Places -> Lines] -> [Places -> Lines]]
    BY ListByType
  <1>3. g0 \in [Places -> Lines]
    BY DEF Lines
  <1>4. \A g, h \in [Places -> Lines], w \in Places :
            (\A v \in Places : mu[v] < mu[w] => g[v] = h[v]) => F[g][w] = F[h][w]
    <2> SUFFICES ASSUME NEW g \in [Places -> Lines], NEW h \in [Places -> Lines], NEW w \in Places,
                        \A v \in Places : mu[v] < mu[w] => g[v] = h[v]
                 PROVE  F[g][w] = F[h][w]
      OBVIOUS
    <2>1. ListBy(g, w) = ListBy(h, w)
      BY ListBySame
    <2> QED
      BY <2>1
  <1>5. \E g \in [Places -> Lines] : g = F[g]
    <2> HIDE DEF F, g0, mu
    <2>1. Descends(Places, Lines, mu, F)
      BY <1>1, <1>2, <1>4 DEF Descends
    <2> QED
      BY <2>1, <1>3, Recursion
  <1>6. \A g \in [Places -> Lines] : F[g] = Body(g)
    <2> HIDE DEF Body
    <2> QED
      OBVIOUS
  <1>7. \E g : g = Body(g)
    <2> HIDE DEF F, Body
    <2> QED
      BY <1>5, <1>6
  <1>8. Contents = CHOOSE g : g = Body(g)
    BY DEF Contents, Body, ListBy, BelowBy, Places, Names
  <1>9. Contents = Body(Contents)
    <2> HIDE DEF Body
    <2> QED
      BY <1>7, <1>8
  <1>10. \A w \in Places : Contents[w] = ListBy(Contents, w)
    BY <1>9
  <1>11. \A w \in Places : Contents[w] \in Lines
    <2> DEFINE Out == {w \in Places : Contents[w] \notin Lines}
               T == {Size(w) : w \in Out}
               h == [w \in Places |-> IF Contents[w] \in Lines THEN Contents[w] ELSE <<>>]
    <2> SUFFICES ASSUME Out # {} PROVE FALSE
      OBVIOUS
    <2>1. T # {} /\ T \subseteq Nat
      BY Sizes
    <2>2. PICK w \in Out : \A v \in Out : Size(w) <= Size(v)
      <3> HIDE DEF Out
      <3>1. PICK l \in T : \A i \in T : l <= i
        <4> HIDE DEF T
        <4> QED
          BY <2>1, LeastNat
      <3> QED
        BY <3>1
    <2>3. \A v \in Places : Size(v) < Size(w) => Contents[v] = h[v]
      <3> SUFFICES ASSUME NEW v \in Places, Size(v) < Size(w), Contents[v] \notin Lines PROVE FALSE
        OBVIOUS
      <3>1. Size(w) <= Size(v) /\ Size(v) \in Nat /\ Size(w) \in Nat
        BY <2>2, Sizes
      <3> QED
        BY <3>1
    <2>4. h \in [Places -> Lines]
      BY DEF Lines
    <2> HIDE DEF h
    <2>5. ListBy(Contents, w) = ListBy(h, w)
      BY <2>3, ListBySame
    <2>6. ListBy(h, w) \in Lines
      BY <2>4, ListByType
    <2> QED
      BY <2>2, <2>5, <2>6, <1>10
  <1> QED
    BY <1>9, <1>10, <1>11

\* The lines of some names: that of the first, those below it, and the others.
LEMMA ContentsIs ==
    ASSUME TypeOK, NEW d \in Dir, NEW k \in Nat
    PROVE  /\ \A kids \in SUBSET Names : Contents[<<d, kids, k>>] \in Lines
           /\ Contents[<<d, {}, k>>] = <<>>
           /\ \A x \in Names : Below(d, x, k) \in Lines
           /\ \A kids \in SUBSET Names : kids # {} =>
                 Contents[<<d, kids, k>>] =
                    <<Line(d, First(kids), k)>> \o Below(d, First(kids), k)
                        \o Contents[<<d, kids \ {First(kids)}, k>>]
  <1>1. \A kids \in SUBSET Names : <<d, kids, k>> \in Places
    BY DEF Places
  <1>2. \A kids \in SUBSET Names : Contents[<<d, kids, k>>] \in Lines
    BY <1>1, ContentsEquation
  <1>3. Contents[<<d, {}, k>>] = <<>>
    <2>1. Contents[<<d, {}, k>>] = ListBy(Contents, <<d, {}, k>>)
      BY <1>1, ContentsEquation
    <2> QED
      BY <2>1 DEF ListBy
  <1>4. \A x : BelowBy(Contents, d, x, k) = Below(d, x, k)
    BY DEF BelowBy, Below
  <1>5. ASSUME NEW kids \in SUBSET Names, kids # {}
        PROVE  Contents[<<d, kids, k>>] =
                    <<Line(d, First(kids), k)>> \o Below(d, First(kids), k)
                        \o Contents[<<d, kids \ {First(kids)}, k>>]
    <2>1. Contents[<<d, kids, k>>] = ListBy(Contents, <<d, kids, k>>)
      BY <1>1, ContentsEquation
    <2> QED
      BY <2>1, <1>4, <1>5 DEF ListBy
  <1>6. ASSUME NEW x \in Names PROVE Below(d, x, k) \in Lines
    <2>1. CASE GoesBelow(d, x, k)
      <3>1. Target(d, x) \in Dir
        BY <2>1, Kinds DEF GoesBelow
      <3>2. Shown(Target(d, x)) \in SUBSET Names
        BY <3>1, Kinds
      <3>3. <<Target(d, x), Shown(Target(d, x)), k + 1>> \in Places
        BY <3>1, <3>2 DEF Places
      <3> QED
        BY <2>1, <3>3, ContentsEquation DEF Below
    <2>2. CASE ~GoesBelow(d, x, k)
      BY <2>2 DEF Below, Lines
    <2> QED
      BY <2>1, <2>2
  <1> QED
    BY <1>2, <1>3, <1>5, <1>6

-----------------------------------------------------------------------------
(* Failures.                                                               *)

Spots == Dir \X Names \X Nat

FaultBy(g, w) ==
    /\ IsDir(w[1], w[2])
    /\ \/ "r" \notin perm[Target(w[1], w[2])]
       \/ /\ w[3] < option.max_depth
          /\ \/ "x" \notin perm[Target(w[1], w[2])]
             \/ \E y \in Shown(Target(w[1], w[2])) : g[<<Target(w[1], w[2]), y, w[3] + 1>>]

\* One level of Fails depends only on deeper spots.
LEMMA FaultBySame ==
    ASSUME TypeOK, NEW g, NEW h, NEW w \in Spots,
           \A v \in Spots : v[3] > w[3] /\ w[3] < option.max_depth => g[v] = h[v]
    PROVE  FaultBy(g, w) = FaultBy(h, w)
  <1> DEFINE e == Target(w[1], w[2])
  <1>1. w[1] \in Dir /\ w[2] \in Names /\ w[3] \in Nat
    BY DEF Spots
  <1>2. ASSUME IsDir(w[1], w[2]), w[3] < option.max_depth, NEW y \in Shown(e)
        PROVE  g[<<e, y, w[3] + 1>>] = h[<<e, y, w[3] + 1>>]
    <2>1. e \in Dir
      BY <1>1, <1>2, Kinds
    <2>2. y \in Names
      BY <1>1, <1>2, <2>1, Kinds
    <2> HIDE DEF e
    <2>3. <<e, y, w[3] + 1>> \in Spots /\ w[3] + 1 > w[3] /\ <<e, y, w[3] + 1>>[3] = w[3] + 1
      BY <1>1, <2>1, <2>2 DEF Spots
    <2> QED
      BY <1>2, <2>3
  <1>3. CASE IsDir(w[1], w[2]) /\ w[3] < option.max_depth
    <2>1. \A y \in Shown(e) : g[<<e, y, w[3] + 1>>] = h[<<e, y, w[3] + 1>>]
      BY <1>2, <1>3
    <2> QED
      BY <2>1, Zenon DEF FaultBy
  <1>4. CASE ~(IsDir(w[1], w[2]) /\ w[3] < option.max_depth)
    BY <1>4, Zenon DEF FaultBy
  <1> QED
    BY <1>3, <1>4

\* Fails is what its definition says.
LEMMA FailsEquation ==
    ASSUME TypeOK
    PROVE  \A w \in Spots : Fails[w] = FaultBy(Fails, w)
  <1> DEFINE Body(g) == [w \in Spots |-> FaultBy(g, w)]
             F == [g \in [Spots -> BOOLEAN] |-> Body(g)]
             mu == [w \in Spots |-> IF w[3] <= Most THEN Most - w[3] ELSE 0]
             g0 == [w \in Spots |-> FALSE]
  <1>m. option.max_depth \in Int /\ Most \in Nat
    <2>1. option.max_depth \in Int
      BY TreeAssumption DEF TypeOK
    <2> QED
      BY <2>1 DEF Most
  <1>s. \A w \in Spots : w[3] \in Nat
    BY DEF Spots
  <1>1. mu \in [Spots -> Nat]
    BY <1>m, <1>s
  <1>2. F \in [[Spots -> BOOLEAN] -> [Spots -> BOOLEAN]]
    <2>1. \A g, w : FaultBy(g, w) \in BOOLEAN
      BY Zenon DEF FaultBy
    <2> QED
      BY <2>1
  <1>3. g0 \in [Spots -> BOOLEAN]
    OBVIOUS
  <1>4. \A g, h \in [Spots -> BOOLEAN], w \in Spots :
            (\A v \in Spots : mu[v] < mu[w] => g[v] = h[v]) => F[g][w] = F[h][w]
    <2> SUFFICES ASSUME NEW g \in [Spots -> BOOLEAN], NEW h \in [Spots -> BOOLEAN], NEW w \in Spots,
                        \A v \in Spots : mu[v] < mu[w] => g[v] = h[v]
                 PROVE  F[g][w] = F[h][w]
      OBVIOUS
    <2>1. ASSUME NEW v \in Spots, v[3] > w[3], w[3] < option.max_depth PROVE g[v] = h[v]
      <3>1. mu[v] < mu[w]
        BY <1>m, <1>s, <2>1 DEF Most
      <3> QED
        BY <3>1
    <2>2. FaultBy(g, w) = FaultBy(h, w)
      BY <2>1, FaultBySame
    <2> QED
      BY <2>2
  <1>5. \E g \in [Spots -> BOOLEAN] : g = F[g]
    <2> HIDE DEF F, g0, mu
    <2>1. Descends(Spots, BOOLEAN, mu, F)
      BY <1>1, <1>2, <1>4 DEF Descends
    <2> QED
      BY <2>1, <1>3, Recursion
  <1>6. \A g \in [Spots -> BOOLEAN] : F[g] = Body(g)
    <2> HIDE DEF Body
    <2> QED
      OBVIOUS
  <1>7. \E g : g = Body(g)
    <2> HIDE DEF F, Body
    <2> QED
      BY <1>5, <1>6
  <1>8. Fails = CHOOSE g : g = Body(g)
    BY DEF Fails, Body, FaultBy, Spots, Names
  <1>9. Fails = Body(Fails)
    <2> HIDE DEF Body
    <2> QED
      BY <1>7, <1>8
  <1> QED
    BY <1>9

\* What fails at a name: it cannot be listed or entered, or something below it cannot.
LEMMA FailsIs ==
    ASSUME TypeOK, NEW d \in Dir, NEW x \in Names, NEW k \in Nat
    PROVE  Fails[<<d, x, k>>] <=>
              /\ IsDir(d, x)
              /\ \/ "r" \notin perm[Target(d, x)]
                 \/ /\ k < option.max_depth
                    /\ \/ "x" \notin perm[Target(d, x)]
                       \/ \E y \in Shown(Target(d, x)) : Fails[<<Target(d, x), y, k + 1>>]
  <1>1. <<d, x, k>> \in Spots
    BY DEF Spots
  <1>2. Fails[<<d, x, k>>] = FaultBy(Fails, <<d, x, k>>)
    BY <1>1, FailsEquation
  <1>3. FaultBy(Fails, <<d, x, k>>) <=>
              /\ IsDir(d, x)
              /\ \/ "r" \notin perm[Target(d, x)]
                 \/ /\ k < option.max_depth
                    /\ \/ "x" \notin perm[Target(d, x)]
                       \/ \E y \in Shown(Target(d, x)) : Fails[<<Target(d, x), y, k + 1>>]
    BY DEF FaultBy
  <1> QED
    BY <1>2, <1>3, Zenon

-----------------------------------------------------------------------------
(* Texts one after the other.                                              *)

\* Texts one after the other, however they are grouped.
LEMMA Joins ==
    ASSUME NEW V
    PROVE  \A u, v, w \in Seq(V) : (u \o v) \o w = u \o (v \o w) /\ u \o v \in Seq(V)
  <1> DEFINE W == Seq(V)
  <1>1. \A u, v, w \in W : (u \o v) \o w = u \o (v \o w)
    BY ConcatAssociative
  <1>2. \A u, v \in W : u \o v \in W
    BY ConcatProperties
  <1> HIDE DEF W
  <1>3. \A u, v, w \in W : (u \o v) \o w = u \o (v \o w) /\ u \o v \in W
    BY <1>1, <1>2, Zenon
  <1> QED
    BY <1>3 DEF W

\* FlattenSeq goes through the texts from the first to the last.
LEMMA FlattenIs ==
    ASSUME NEW V, NEW ss \in Seq(Seq(V)), ss # <<>>
    PROVE  \E f \in [1..Len(ss) -> Seq(V)] :
               /\ f[1] = ss[1] /\ \A k \in 2..Len(ss) : f[k] = f[k - 1] \o ss[k]
               /\ FlattenSeq(ss) = f[Len(ss)]
  <1> DEFINE n == Len(ss)
             W == Seq(V)
             Body(g) == [k \in 1..n |-> IF k = 1 THEN ss[k] ELSE g[k - 1] \o ss[k]]
             f == CHOOSE g : g = Body(g)
             S == [k \in 1..n |-> [w \in W |-> w \o ss[k]]]
  <1>1. n \in Nat /\ n # 0
    BY EmptySeq, LenProperties
  <1>2. FlattenSeq(ss) = f[n]
    BY <1>1 DEF FlattenSeq
  <1>3. \A k \in 1..n : ss[k] \in W
    OBVIOUS
  <1>4. <<>> \in W /\ (\A u, v \in W : u \o v \in W) /\ \A u \in W : <<>> \o u = u
    BY ConcatProperties
  <1> HIDE DEF W
  <1>5. S \in [1..n -> [W -> W]]
    BY <1>3, <1>4
  <1>6. PICK g \in [0..n -> W] : Iterates(g, n, <<>>, S)
    <2> HIDE DEF S, n
    <2> QED
      BY <1>1, <1>4, <1>5, Iterate
  <1>7. ASSUME NEW k \in 1..n PROVE g[k] = (IF k = 1 THEN ss[k] ELSE g[k - 1] \o ss[k]) /\ g[k] \in W
    <2>0. k - 1 \in 0..n /\ k \in 0..n
      BY <1>1
    <2>1. g[k - 1] \in W /\ g[k] \in W
      BY <2>0
    <2>2. g[k] = g[k - 1] \o ss[k]
      <3>1. g[k] = S[k][g[k - 1]]
        BY <1>6 DEF Iterates
      <3> QED
        BY <2>1, <3>1
    <2>3. ASSUME k = 1 PROVE g[k] = ss[k]
      <3>1. g[0] = <<>>
        BY <1>6 DEF Iterates
      <3>2. g[k] = <<>> \o ss[k]
        <4>1. k - 1 = 0
          BY <2>3
        <4> QED
          BY <2>2, <3>1, <4>1, Zenon
      <3> QED
        BY <1>3, <1>4, <3>2, Zenon
    <2> QED
      BY <2>1, <2>2, <2>3
  <1>8. \E h : h = Body(h)
    <2> DEFINE h == [k \in 1..n |-> g[k]]
    <2>1. \A k \in 1..n : k # 1 => k - 1 \in 1..n
      BY <1>1
    <2>2. ASSUME NEW k \in 1..n PROVE h[k] = IF k = 1 THEN ss[k] ELSE h[k - 1] \o ss[k]
      BY <1>7, <2>1
    <2>3. h = Body(h)
      BY <2>2
    <2> QED
      BY <2>3
  <1>9. f = Body(f)
    <2> HIDE DEF Body
    <2> QED
      BY <1>8
  <1> HIDE DEF f
  <1>10. ASSUME NEW k \in 1..n PROVE f[k] = IF k = 1 THEN ss[k] ELSE f[k - 1] \o ss[k]
    BY <1>9
  <1> DEFINE T == {k \in Nat : k + 1 \in 1..n => f[k + 1] \in W}
  <1>11. \A k \in 0..n : k \in T
    <2>1. 0 \in T
      BY <1>1, <1>3, <1>10
    <2>2. ASSUME NEW k \in 0..n, k \in T, k < n PROVE k + 1 \in T
      <3>1. CASE k + 1 + 1 \in 1..n
        <4>1. k + 1 \in 1..n /\ k + 1 + 1 # 1 /\ (k + 1 + 1) - 1 = k + 1
          BY <3>1, <1>1
        <4>2. f[k + 1 + 1] = f[k + 1] \o ss[k + 1 + 1]
          BY <1>10, <3>1, <4>1
        <4>3. f[k + 1] \in W /\ ss[k + 1 + 1] \in W
          BY <1>3, <2>2, <3>1, <4>1
        <4>4. f[k + 1 + 1] \in W
          BY <1>4, <4>2, <4>3, Zenon
        <4> QED
          BY <4>4
      <3>2. CASE k + 1 + 1 \notin 1..n
        BY <3>2
      <3> QED
        BY <3>1, <3>2
    <2> HIDE DEF T
    <2> QED
      BY <1>1, <2>1, <2>2, Climb
  <1>12. \A k \in 1..n : f[k] \in W
    <2>1. \A k \in 1..n : k - 1 \in 0..n /\ (k - 1) + 1 = k
      BY <1>1
    <2> QED
      BY <1>11, <2>1
  <1>13. f \in [1..n -> W]
    BY <1>9, <1>12
  <1>14. f[1] = ss[1] /\ \A k \in 2..n : f[k] = f[k - 1] \o ss[k]
    <2>1. 1 \in 1..n /\ \A k \in 2..n : k \in 1..n /\ k # 1
      BY <1>1
    <2> QED
      BY <1>10, <2>1
  <1> QED
    BY <1>2, <1>13, <1>14 DEF W, n

\* One text more in front.
LEMMA FlattenMore ==
    ASSUME NEW V, NEW s \in Seq(V), NEW ss \in Seq(Seq(V))
    PROVE  /\ FlattenSeq(ss) \in Seq(V)
           /\ FlattenSeq(<<s>> \o ss) = s \o FlattenSeq(ss)
  <1> DEFINE tt == <<s>> \o ss
             n == Len(ss)
             W == Seq(V)
  <1>1. /\ n \in Nat /\ tt \in Seq(W) /\ Len(tt) = n + 1 /\ tt # <<>>
        /\ tt[1] = s /\ \A k \in 1..n : tt[k + 1] = ss[k] /\ ss[k] \in W
    <2>1. <<s>> \in Seq(Seq(V)) /\ Len(<<s>>) = 1 /\ <<s>>[1] = s /\ n \in Nat
      OBVIOUS
    <2>2. /\ tt \in Seq(Seq(V)) /\ Len(tt) = 1 + n
          /\ \A k \in 1..1 + n : tt[k] = IF k <= 1 THEN <<s>>[k] ELSE ss[k - 1]
      BY <2>1, ConcatProperties
    <2> HIDE DEF tt, n
    <2>3. \A k \in 1..n : k + 1 \in 1..1 + n /\ ~(k + 1 <= 1) /\ (k + 1) - 1 = k
      BY <2>1
    <2>4. tt[1] = s /\ tt # <<>> /\ Len(tt) = n + 1
      BY <2>1, <2>2, EmptySeq
    <2>5. \A k \in 1..n : tt[k + 1] = ss[k]
      BY <2>2, <2>3
    <2>6. \A k \in 1..n : ss[k] \in W
      BY DEF n
    <2> QED
      BY <2>1, <2>2, <2>4, <2>5, <2>6
  <1>2. /\ \A u \in W : u \o <<>> = u
        /\ \A u, v, w \in W : (u \o v) \o w = u \o (v \o w)
    BY ConcatProperties, ConcatAssociative, ConcatEmptySeq
  <1> HIDE DEF tt, n, W
  <1>3. PICK g \in [1..n + 1 -> W] :
            /\ g[1] = s /\ \A k \in 2..n + 1 : g[k] = g[k - 1] \o tt[k]
            /\ FlattenSeq(tt) = g[n + 1]
    <2>1. \E g \in [1..Len(tt) -> Seq(V)] :
            /\ g[1] = tt[1] /\ \A k \in 2..Len(tt) : g[k] = g[k - 1] \o tt[k]
            /\ FlattenSeq(tt) = g[Len(tt)]
      BY <1>1, FlattenIs DEF W
    <2> QED
      BY <1>1, <2>1 DEF W
  <1>4. CASE n = 0
    <2>1. ss = <<>>
      BY <1>4, EmptySeq DEF n
    <2>2. FlattenSeq(ss) = <<>>
      BY <2>1 DEF FlattenSeq
    <2>3. FlattenSeq(tt) = s
      BY <1>3, <1>4
    <2> QED
      BY <1>2, <2>2, <2>3 DEF tt, W
  <1>5. CASE n # 0
    <2>1. ss # <<>>
      BY <1>5 DEF n
    <2>2. PICK f \in [1..n -> W] :
            /\ f[1] = ss[1] /\ \A k \in 2..n : f[k] = f[k - 1] \o ss[k]
            /\ FlattenSeq(ss) = f[n]
      BY <2>1, FlattenIs DEF W, n
    <2> DEFINE T == {k \in Nat : k + 1 <= n => g[k + 2] = s \o f[k + 1]}
    <2>3. \A k \in 0..n : k \in T
      <3>1. 0 \in T
        <4>1. 2 \in 2..n + 1 /\ 2 - 1 = 1 /\ 1 \in 1..n /\ 1 + 1 = 2
          BY <1>1, <1>5
        <4>2. g[2] = g[1] \o tt[2] /\ tt[2] = ss[1]
          BY <1>1, <1>3, <4>1
        <4>3. g[2] = s \o f[1]
          BY <1>3, <2>2, <4>2, Zenon
        <4> QED
          BY <4>3
      <3>2. ASSUME NEW k \in 0..n, k \in T, k < n PROVE k + 1 \in T
        <4>1. CASE k + 1 + 1 <= n
          <5>1. /\ k + 1 + 2 \in 2..n + 1 /\ (k + 1 + 2) - 1 = k + 2 /\ k + 1 + 1 \in 2..n
                /\ (k + 1 + 1) - 1 = k + 1 /\ k + 1 + 1 \in 1..n /\ (k + 1 + 1) + 1 = k + 1 + 2
                /\ k + 1 \in 1..n /\ k + 1 <= n
            BY <1>1, <4>1
          <5>2. g[k + 1 + 2] = g[k + 2] \o ss[k + 1 + 1]
            BY <1>1, <1>3, <5>1
          <5>3. f[k + 1 + 1] = f[k + 1] \o ss[k + 1 + 1]
            BY <2>2, <5>1
          <5>4. g[k + 2] = s \o f[k + 1]
            BY <3>2, <5>1
          <5>5. f[k + 1] \in W /\ ss[k + 1 + 1] \in W /\ s \in W
            BY <1>1, <2>2, <5>1 DEF W
          <5>6. g[k + 1 + 2] = s \o f[k + 1 + 1]
            <6>1. (s \o f[k + 1]) \o ss[k + 1 + 1] = s \o (f[k + 1] \o ss[k + 1 + 1])
              BY <1>2, <5>5, Zenon
            <6> QED
              BY <5>2, <5>3, <5>4, <6>1, Zenon
          <5> QED
            BY <5>6
        <4>2. CASE ~(k + 1 + 1 <= n)
          BY <4>2
        <4> QED
          BY <4>1, <4>2
      <3> HIDE DEF T
      <3> QED
        BY <1>1, <3>1, <3>2, Climb
    <2>4. n - 1 \in 0..n /\ (n - 1) + 1 = n /\ (n - 1) + 2 = n + 1 /\ n \in 1..n
      BY <1>1, <1>5
    <2>5. g[n + 1] = s \o f[n]
      <3>1. n - 1 \in T
        BY <2>3, <2>4
      <3>2. (n - 1) + 1 <= n
        BY <1>1
      <3>3. g[(n - 1) + 2] = s \o f[(n - 1) + 1]
        BY <3>1, <3>2
      <3> QED
        BY <2>4, <3>3
    <2> QED
      BY <1>3, <2>2, <2>4, <2>5 DEF tt, W
  <1> QED
    BY <1>4, <1>5

-----------------------------------------------------------------------------
(* The text that calls have still to print.                                *)

\* While the file system stays as it is, what is said of a call remains.
LEMMA Frozen ==
    ASSUME UNCHANGED <<entry, perm, option>>, NEW c, NEW d, NEW k
    PROVE  /\ OnItsWay(c, d, k)' = OnItsWay(c, d, k)
           /\ Rest(c, d, k)' = Rest(c, d, k)
           /\ WillFail(c, d, k)' = WillFail(c, d, k)
           /\ Heights(entry)' = Heights(entry)
           /\ Listing' = Listing /\ Failing' = Failing
  <1>1. Contents' = Contents
    BY DEF Contents, GoesBelow, Line, IsDir, Target, Shown, MayList
  <1>2. Fails' = Fails
    BY DEF Fails, IsDir, Target, Shown
  <1>3. Heights(entry)' = Heights(entry)
    BY DEF Heights
  <1>4. OnItsWay(c, d, k)' = OnItsWay(c, d, k)
    BY <1>3 DEF OnItsWay, Height, IsDir, Target, Shown
  <1>5. Below(d, c.name, k)' = Below(d, c.name, k) /\ Line(d, c.name, k)' = Line(d, c.name, k)
    BY <1>1 DEF Below, Line, GoesBelow, IsDir, Target, Shown, MayList
  <1>6. Rest(c, d, k)' = Rest(c, d, k)
    BY <1>1, <1>5 DEF Rest
  <1>7. WillFail(c, d, k)' = WillFail(c, d, k)
    BY <1>2 DEF WillFail
  <1>8. Listing' = Listing /\ Failing' = Failing
    BY <1>1, <1>2 DEF Listing, Failing
  <1> QED
    BY <1>3, <1>4, <1>6, <1>7, <1>8

\* It is text.
LEMMA RestType ==
    ASSUME TypeOK, NEW c \in Calls, NEW d \in Dir, NEW k \in Nat
    PROVE  Rest(c, d, k) \in Lines
  <1>1. c.name \in Names /\ c.here \in Dir /\ c.kids \in SUBSET Names
    BY DEF Calls, Names
  <1>2. <<Line(d, c.name, k)>> \in Lines /\ Below(d, c.name, k) \in Lines
    BY <1>1, Kinds, ContentsIs
  <1>3. Contents[<<c.here, c.kids, k + 1>>] \in Lines
    <2>1. k + 1 \in Nat
      OBVIOUS
    <2> QED
      BY <1>1, <2>1, ContentsIs
  <1>4. <<Line(d, c.name, k)>> \o Below(d, c.name, k) \in Lines
    BY <1>2, ConcatProperties DEF Lines
  <1>5. <<>> \in Lines
    BY DEF Lines
  <1>6. c.at \in {"lstat", "readlink", "opendir", "open", "chdir", "list", "kids"}
    BY DEF Calls
  <1>7. CASE c.at \in {"lstat", "readlink", "opendir"}
    BY <1>4, <1>5, <1>7 DEF Rest
  <1>8. CASE c.at \in {"open", "chdir", "list"}
    BY <1>2, <1>8 DEF Rest
  <1>9. CASE c.at = "kids"
    BY <1>3, <1>9 DEF Rest
  <1> QED
    BY <1>6, <1>7, <1>8, <1>9

\* What call i has still to print, whether it will fail, and whether it is on its way.
RestOf(i) == Rest(stack[i], From(i), Len(stack) - i)
FateOf(i) == WillFail(stack[i], From(i), Len(stack) - i)
GoodOf(i) == OnItsWay(stack[i], From(i), Len(stack) - i)

\* Every call was made somewhere, at some depth.
LEMMA Made ==
    ASSUME TypeOK, NEW i \in 1..Len(stack)
    PROVE  /\ stack[i] \in Calls /\ From(i) \in Dir /\ Len(stack) - i \in Nat
           /\ RestOf(i) \in Lines
  <1>1. stack[i] \in Calls /\ Len(stack) \in Nat /\ Len(stack) - i \in Nat
    BY DEF TypeOK
  <1>2. CASE i = Len(stack)
    <2>1. From(i) \in Dir
      BY <1>2, TreeAssumption DEF From
    <2> QED
      BY <1>1, <2>1, RestType DEF RestOf
  <1>3. CASE i # Len(stack)
    <2>1. i + 1 \in 1..Len(stack)
      BY <1>1, <1>3
    <2>2. stack[i + 1] \in Calls
      BY <2>1 DEF TypeOK
    <2>3. From(i) \in Dir
      BY <1>3, <2>2 DEF From, Calls
    <2> QED
      BY <1>1, <2>3, RestType DEF RestOf
  <1> QED
    BY <1>2, <1>3

\* What all calls but the innermost have still to print.
Others == [i \in 1..Len(stack) - 1 |-> RestOf(i + 1)]

\* A text in front of others.
LEMMA InFront ==
    ASSUME NEW v \in Lines, NEW ss \in Seq(Lines), NEW n \in Nat, n = Len(ss),
           NEW all \in [1..n + 1 -> Lines],
           all[1] = v, \A i \in 1..n : all[i + 1] = ss[i]
    PROVE  /\ all \in Seq(Lines) /\ Len(all) = n + 1
           /\ FlattenSeq(ss) \in Lines /\ FlattenSeq(all) = v \o FlattenSeq(ss)
  <1> DEFINE t == <<v>> \o ss
  <1>1. <<v>> \in Seq(Lines) /\ Len(<<v>>) = 1 /\ <<v>>[1] = v
    OBVIOUS
  <1>2. /\ t \in Seq(Lines) /\ Len(t) = 1 + n
        /\ \A i \in 1..1 + n : t[i] = IF i <= 1 THEN <<v>>[i] ELSE ss[i - 1]
    BY <1>1, ConcatProperties
  <1> HIDE DEF t
  <1>3. ASSUME NEW i \in 1..n + 1 PROVE all[i] = t[i]
    <2>1. CASE i = 1
      BY <1>1, <1>2, <2>1
    <2>2. CASE i # 1
      <3>1. i - 1 \in 1..n /\ (i - 1) + 1 = i /\ ~(i <= 1) /\ i \in 1..1 + n
        BY <2>2
      <3>2. all[i] = ss[i - 1]
        BY <3>1
      <3> QED
        BY <1>2, <3>1, <3>2
    <2> QED
      BY <2>1, <2>2
  <1>4. all \in Seq(Lines) /\ Len(all) = n + 1
    <2>1. n + 1 \in Nat
      OBVIOUS
    <2> QED
      BY <2>1
  <1>5. all = t
    BY <1>2, <1>3, <1>4, SeqEqual
  <1> QED
    BY <1>4, <1>5, FlattenMore DEF Lines, t

\* What is owed is what the innermost call owes, and then the others.
LEMMA OwedIs ==
    ASSUME TypeOK, stack # <<>>
    PROVE  /\ Others \in Seq(Lines) /\ FlattenSeq(Others) \in Lines /\ RestOf(1) \in Lines
           /\ Owed = RestOf(1) \o FlattenSeq(Others) /\ Len(Others) = Len(stack) - 1
  <1>1. Len(stack) \in Nat \ {0} /\ 1 \in 1..Len(stack)
    BY Innermost DEF TypeOK
  <1>2. \A i \in 1..Len(stack) : RestOf(i) \in Lines
    BY Made
  <1>3. \A i \in 1..Len(stack) - 1 : i + 1 \in 1..Len(stack)
    BY <1>1
  <1>4. Others \in Seq(Lines) /\ Len(Others) = Len(stack) - 1
    <2>1. Len(stack) - 1 \in Nat
      BY <1>1
    <2>2. \A i \in 1..Len(stack) - 1 : RestOf(i + 1) \in Lines
      BY <1>2, <1>3
    <2> QED
      BY <2>1, <2>2 DEF Others
  <1>5. RestOf(1) \in Lines
    BY <1>1, <1>2
  <1> DEFINE all == [i \in 1..Len(stack) |-> RestOf(i)]
             n == Len(stack) - 1
  <1>6. Owed = FlattenSeq(all)
    BY DEF Owed, RestOf
  <1>7. FlattenSeq(Others) \in Lines /\ FlattenSeq(all) = RestOf(1) \o FlattenSeq(Others)
    <2>1. n \in Nat /\ n = Len(Others) /\ n + 1 = Len(stack)
      BY <1>1, <1>4
    <2>2. all \in [1..n + 1 -> Lines] /\ all[1] = RestOf(1)
      BY <1>1, <1>2, <2>1
    <2>3. \A i \in 1..n : all[i + 1] = Others[i]
      BY <1>3 DEF Others
    <2> HIDE DEF all, n, Others
    <2>4. Others \in Seq(Lines) /\ RestOf(1) \in Lines
      BY <1>4, <1>5
    <2> QED
      BY <2>1, <2>2, <2>3, <2>4, InFront
  <1> HIDE DEF all
  <1> QED
    BY <1>4, <1>5, <1>6, <1>7

-----------------------------------------------------------------------------
(* The walk while nobody interferes.                                       *)

\* A call that stays as it is, though its place in the stack may be another.
LEMMA Moved ==
    ASSUME UNCHANGED <<entry, perm, option>>, NEW i, NEW j,
           stack'[i] = stack[j], From(i)' = From(j), Len(stack') - i = Len(stack) - j
    PROVE  RestOf(i)' = RestOf(j) /\ FateOf(i)' = FateOf(j) /\ GoodOf(i)' = GoodOf(j)
  <1>1. PICK c, d, k : c = stack[j] /\ d = From(j) /\ k = Len(stack) - j
    OBVIOUS
  <1>2. RestOf(j) = Rest(c, d, k) /\ FateOf(j) = WillFail(c, d, k) /\ GoodOf(j) = OnItsWay(c, d, k)
    BY <1>1 DEF RestOf, FateOf, GoodOf
  <1>3. RestOf(i)' = Rest(c, d, k)' /\ FateOf(i)' = WillFail(c, d, k)' /\ GoodOf(i)' = OnItsWay(c, d, k)'
    BY <1>1 DEF RestOf, FateOf, GoodOf
  <1> QED
    BY <1>2, <1>3, Frozen

\* The innermost call is another one.
LEMMA NewPlace ==
    ASSUME UNCHANGED <<entry, perm, option>>, NEW i, NEW c, NEW d, NEW k,
           stack'[i] = c, From(i)' = d, Len(stack') - i = k
    PROVE  RestOf(i)' = Rest(c, d, k) /\ FateOf(i)' = WillFail(c, d, k) /\ GoodOf(i)' = OnItsWay(c, d, k)
  <1>1. RestOf(i)' = Rest(c, d, k)' /\ FateOf(i)' = WillFail(c, d, k)' /\ GoodOf(i)' = OnItsWay(c, d, k)'
    BY DEF RestOf, FateOf, GoodOf
  <1> QED
    BY <1>1, Frozen

Quiet == Bookkeeping /\ OnCourse /\ Undisturbed /\ Undisturbed'

\* A call that returns has printed what it had to print.
LEMMA ReturnCourse ==
    ASSUME Quiet, stack # <<>>, Return, UNCHANGED <<entry, perm, option, crashed>>,
           out' = out \o RestOf(1), out \in Lines,
           error' <=> (error \/ FateOf(1)), error \in BOOLEAN, error' \in BOOLEAN
    PROVE  OnCourse'
  <1>1. /\ Len(stack) \in Nat \ {0} /\ 1 \in 1..Len(stack)
        /\ stack' \in Seq(Calls) /\ Len(stack') = Len(stack) - 1
        /\ \A i \in 1..Len(stack') : stack'[i] = stack[i + 1] /\ From(i)' = From(i + 1)
    BY Returns, Innermost DEF Quiet, Bookkeeping, TypeOK
  <1>2. TypeOK
    BY DEF Quiet, Bookkeeping
  <1>3. ASSUME NEW i \in 1..Len(stack')
        PROVE  /\ RestOf(i)' = RestOf(i + 1) /\ FateOf(i)' = FateOf(i + 1) /\ GoodOf(i)' = GoodOf(i + 1)
               /\ i + 1 \in 2..Len(stack)
    <2>1. Len(stack') - i = Len(stack) - (i + 1) /\ i + 1 \in 2..Len(stack)
      BY <1>1
    <2> QED
      BY <1>1, <2>1, Moved
  <1>4. Owed' = FlattenSeq(Others)
    <2>1. Owed' = FlattenSeq([i \in 1..Len(stack') |-> RestOf(i)'])
      BY DEF Owed, RestOf
    <2>2. [i \in 1..Len(stack') |-> RestOf(i)'] = Others
      BY <1>1, <1>3 DEF Others
    <2> QED
      BY <2>1, <2>2
  <1>5. out' \o Owed' = out \o Owed
    <2>1. out \in Lines /\ RestOf(1) \in Lines /\ FlattenSeq(Others) \in Lines
      BY <1>2, OwedIs
    <2>2. Owed = RestOf(1) \o FlattenSeq(Others)
      BY <1>2, OwedIs
    <2>3. (out \o RestOf(1)) \o FlattenSeq(Others) = out \o (RestOf(1) \o FlattenSeq(Others))
      BY <2>1, ConcatAssociative DEF Lines
    <2> QED
      BY <1>4, <2>2, <2>3
  <1>6. out \o Owed = Listing /\ Listing' = Listing /\ Failing' = Failing
    BY Frozen DEF Quiet, OnCourse
  <1>7. (error' \/ \E i \in 1..Len(stack') : FateOf(i)') <=> (error \/ \E i \in 1..Len(stack) : FateOf(i))
    <2>1. (\E i \in 1..Len(stack) : FateOf(i)) <=> FateOf(1) \/ \E i \in 1..Len(stack') : FateOf(i + 1)
      <3>1. \A i \in 1..Len(stack) : i # 1 => i - 1 \in 1..Len(stack') /\ (i - 1) + 1 = i
        BY <1>1
      <3>2. \A i \in 1..Len(stack') : i + 1 \in 1..Len(stack)
        BY <1>1
      <3> QED
        BY <1>1, <3>1, <3>2
    <2> QED
      BY <1>3, <2>1
  <1>8. (error \/ \E i \in 1..Len(stack) : FateOf(i)) <=> Failing
    BY DEF Quiet, OnCourse, FateOf
  <1>9. \A i \in 1..Len(stack') : GoodOf(i)'
    <2>1. \A i \in 1..Len(stack) : GoodOf(i)
      BY DEF Quiet, OnCourse, GoodOf
    <2>2. \A i \in 1..Len(stack') : i + 1 \in 1..Len(stack)
      BY <1>1
    <2> QED
      BY <1>3, <2>1, <2>2
  <1>10. ~At("list")'
    <2>1. CASE stack' = <<>>
      BY <2>1 DEF At
    <2>2. CASE stack' # <<>>
      <3>1. 1 \in 1..Len(stack') /\ 2 \in 2..Len(stack)
        BY <1>1, <2>2, EmptySeq
      <3>2. stack'[1].at = "kids"
        BY <1>1, <3>1 DEF Quiet, Bookkeeping, Outer
      <3>3. call' = stack'[1]
        BY <1>1, <2>2, HeadTailProperties DEF call
      <3> QED
        BY <3>2, <3>3 DEF At
    <2> QED
      BY <2>1, <2>2
  <1>11. ~crashed' /\ Heights(entry)' # {}
    BY Frozen DEF Quiet, OnCourse
  <1> QED
    BY <1>5, <1>6, <1>7, <1>8, <1>9, <1>10, <1>11 DEF OnCourse, FateOf, GoodOf

\* A call goes on as c: what it prints and what c has still to print is what it
\* had to print.
LEMMA BecomeCourse ==
    ASSUME Quiet, stack # <<>>, UNCHANGED <<entry, perm, option, crashed>>,
           NEW c \in Calls, Become(c), c.name = call.name,
           NEW d, NEW k, d = From(1), k = Len(stack) - 1,
           OnItsWay(c, d, k), c.at = "list" => cwd' = Target(d, c.name),
           NEW text \in Lines, out' = out \o text, RestOf(1) = text \o Rest(c, d, k), out \in Lines,
           error \in BOOLEAN, error' = error, WillFail(c, d, k) <=> FateOf(1)
    PROVE  OnCourse'
  <1>1. /\ Len(stack) \in Nat \ {0} /\ 1 \in 1..Len(stack) /\ stack \in Seq(Calls)
        /\ stack' \in Seq(Calls) /\ Len(stack') = Len(stack) /\ stack' # <<>>
        /\ stack'[1] = c
        /\ \A i \in 2..Len(stack) : stack'[i] = stack[i]
        /\ \A i \in 1..Len(stack) : From(i)' = From(i)
    BY Becomes, Innermost DEF Quiet, Bookkeeping, TypeOK
  <1>2. TypeOK
    BY DEF Quiet, Bookkeeping
  <1>3. ASSUME NEW i \in 2..Len(stack)
        PROVE  RestOf(i)' = RestOf(i) /\ FateOf(i)' = FateOf(i) /\ GoodOf(i)' = GoodOf(i)
    <2>1. i \in 1..Len(stack)
      BY <1>1
    <2> QED
      BY <1>1, <2>1, Moved
  <1>4. RestOf(1)' = Rest(c, d, k) /\ FateOf(1)' = WillFail(c, d, k) /\ GoodOf(1)' = OnItsWay(c, d, k)
    <2>1. Len(stack') - 1 = k /\ From(1)' = d
      BY <1>1
    <2> QED
      BY <1>1, <2>1, NewPlace
  <1>c. d \in Dir /\ k \in Nat
    BY <1>1, <1>2, Made
  <1>r. Rest(c, d, k) \in Lines
    BY <1>2, <1>c, RestType
  <1>5. Owed' = Rest(c, d, k) \o FlattenSeq(Others)
    <2> DEFINE all == [i \in 1..Len(stack) |-> RestOf(i)']
    <2>1. Owed' = FlattenSeq(all)
      BY <1>1 DEF Owed, RestOf
    <2>2. Others \in Seq(Lines) /\ k \in Nat /\ k = Len(Others) /\ k + 1 = Len(stack)
      <3>1. Others \in Seq(Lines) /\ Len(Others) = Len(stack) - 1
        BY <1>2, OwedIs
      <3> QED
        BY <1>1, <3>1
    <2>3. all[1] = Rest(c, d, k)
      BY <1>1, <1>4, <2>2
    <2>4. ASSUME NEW i \in 1..k PROVE all[i + 1] = Others[i]
      <3>1. i + 1 \in 2..Len(stack) /\ i + 1 \in 1..Len(stack) /\ i \in 1..Len(stack) - 1
        BY <1>1, <2>2
      <3> QED
        BY <1>3, <3>1 DEF Others
    <2>5. all \in [1..k + 1 -> Lines]
      <3>1. ASSUME NEW i \in 1..Len(stack) PROVE RestOf(i)' \in Lines
        <4>1. CASE i = 1
          BY <1>r, <1>4, <4>1
        <4>2. CASE i # 1
          <5>1. i \in 2..Len(stack)
            BY <1>1, <4>2
          <5> QED
            BY <1>2, <1>3, <5>1, Made
        <4> QED
          BY <4>1, <4>2
      <3> QED
        BY <2>2, <3>1
    <2> HIDE DEF all, Others
    <2> QED
      BY <1>r, <2>1, <2>2, <2>3, <2>4, <2>5, InFront
  <1>6. out' \o Owed' = out \o Owed
    <2> DEFINE r == Rest(c, d, k)
               o == FlattenSeq(Others)
    <2>1. r \in Lines /\ o \in Lines
      BY <1>2, <1>r, OwedIs
    <2>2. Owed = (text \o r) \o o
      BY <1>2, OwedIs
    <2> HIDE DEF r, o
    <2>3. (out \o text) \o (r \o o) = out \o ((text \o r) \o o)
      <3>1. \A u, v, w \in Lines : (u \o v) \o w = u \o (v \o w) /\ u \o v \in Lines
        BY Joins DEF Lines
      <3>2. (out \o text) \o (r \o o) = out \o (text \o (r \o o))
        BY <2>1, <3>1, Zenon
      <3>3. (text \o r) \o o = text \o (r \o o)
        BY <2>1, <3>1, Zenon
      <3> QED
        BY <3>2, <3>3
    <2>4. Owed' = r \o o
      BY <1>5 DEF r, o
    <2> QED
      BY <2>2, <2>3, <2>4
  <1>7. out \o Owed = Listing /\ Listing' = Listing /\ Failing' = Failing
    BY Frozen DEF Quiet, OnCourse
  <1>8. \A i \in 1..Len(stack) : FateOf(i)' <=> FateOf(i)
    <2>1. \A i \in 1..Len(stack) : i # 1 => i \in 2..Len(stack)
      BY <1>1
    <2> QED
      BY <1>3, <1>4, <2>1
  <1>9. (error \/ \E i \in 1..Len(stack) : FateOf(i)) <=> Failing
    BY DEF Quiet, OnCourse, FateOf
  <1>10. \A i \in 1..Len(stack) : GoodOf(i)'
    <2>1. \A i \in 1..Len(stack) : GoodOf(i)
      BY DEF Quiet, OnCourse, GoodOf
    <2>2. \A i \in 1..Len(stack) : i # 1 => i \in 2..Len(stack)
      BY <1>1
    <2> QED
      BY <1>3, <1>4, <2>1, <2>2
  <1>11. call' = c
    BY <1>1, HeadTailProperties DEF call
  <1>12. At("list")' => cwd' = (Target(From(1), call.name))'
    <2>1. Target(d, c.name)' = Target(d, c.name)
      BY DEF Target
    <2>2. (Target(From(1), call.name))' = Target(d, c.name)'
      BY <1>1, <1>11
    <2> QED
      BY <1>11, <2>1, <2>2 DEF At
  <1>13. ~crashed' /\ Heights(entry)' # {}
    BY Frozen DEF Quiet, OnCourse
  <1> QED
    BY <1>1, <1>6, <1>7, <1>8, <1>9, <1>10, <1>12, <1>13 DEF OnCourse, FateOf, GoodOf

\* What the innermost call, made in d at depth k, finds while nobody interferes.
LEMMA Standing ==
    ASSUME Quiet, stack # <<>>, NEW d, NEW k, d = From(1), k = Len(stack) - 1
    PROVE  /\ TypeOK /\ d \in Dir /\ k \in Nat /\ k = Depth /\ MayList(d)
           /\ call \in Calls /\ call.name \in Names /\ option.max_depth \in Int
           /\ OnItsWay(call, d, k)
           /\ RestOf(1) = Rest(call, d, k) /\ FateOf(1) = WillFail(call, d, k)
           /\ call.at \notin {"list", "kids"} => cwd = d
           /\ call.at = "list" => cwd = Target(d, call.name)
           /\ IsDir(d, call.name) => Target(d, call.name) \in Dir /\ k + 1 < limit
           /\ call.at \in {"chdir", "list", "kids"} => fds = k + 1
           /\ call.at \notin {"chdir", "list", "kids"} => fds = k
           /\ call.name # Dot => entry[d][call.name].type # "none"
           /\ out \in Lines /\ error \in BOOLEAN
           /\ <<Line(d, call.name, k)>> \in Lines /\ Below(d, call.name, k) \in Lines
  <1>1. /\ Len(stack) \in Nat \ {0} /\ 1 \in 1..Len(stack) /\ TypeOK
        /\ call = stack[1] /\ call \in Calls /\ option.max_depth \in Int
    <2>1. option.max_depth \in Int /\ TypeOK
      BY TreeAssumption DEF Quiet, Bookkeeping, TypeOK
    <2> QED
      BY <2>1, Innermost DEF TypeOK
  <1>2. d \in Dir /\ k \in Nat /\ k = Depth /\ call.name \in Names
    BY <1>1, Made DEF Depth, Calls, Names
  <1>3. GoodOf(1) /\ Heights(entry) # {} /\ (call.at = "list" => cwd = Target(d, call.name))
    BY <1>1 DEF Quiet, OnCourse, GoodOf, At
  <1>4. OnItsWay(call, d, k)
    BY <1>1, <1>3 DEF GoodOf
  <1>5. RestOf(1) = Rest(call, d, k) /\ FateOf(1) = WillFail(call, d, k)
    BY <1>1 DEF RestOf, FateOf
  <1>6. MayList(d)
    <2>1. CASE Len(stack) = 1
      BY <2>1 DEF From, Quiet, Undisturbed
    <2>2. CASE Len(stack) # 1
      <3>1. 2 \in 1..Len(stack) /\ 2 \in 2..Len(stack)
        BY <1>1, <2>2
      <3>2. stack[2].at = "kids"
        BY <3>1 DEF Quiet, Bookkeeping, Outer
      <3>3. GoodOf(2)
        BY <3>1 DEF Quiet, OnCourse, GoodOf
      <3>4. {"r", "x"} \subseteq perm[stack[2].here]
        BY <3>2, <3>3 DEF GoodOf, OnItsWay
      <3>5. d = stack[2].here
        BY <2>2 DEF From
      <3> QED
        BY <3>4, <3>5 DEF MayList
    <2> QED
      BY <2>1, <2>2
  <1>7. /\ call.at \notin {"list", "kids"} => cwd = d
        /\ call.at \in {"chdir", "list", "kids"} => fds = k + 1
        /\ call.at \notin {"chdir", "list", "kids"} => fds = k
    <2>1. ~strayed
      BY <1>1, Here DEF Quiet, Undisturbed
    <2> QED
      BY <1>1, <2>1, Here DEF Quiet
  <1>8. ASSUME IsDir(d, call.name)
        PROVE  Target(d, call.name) \in Dir /\ k + 1 < limit
    <2> DEFINE e == Target(d, call.name)
    <2>1. e \in Dir
      BY <1>1, <1>2, <1>8, Kinds
    <2>2. k + Height[e] < Cardinality(Dir)
      BY <1>4, <1>8 DEF OnItsWay
    <2>3. Height \in Heights(entry)
      BY <1>3 DEF Height
    <2>4. Height[e] \in 0..Cardinality(Dir) - 1
      BY <2>1, <2>3 DEF Heights
    <2>5. Cardinality(Dir) \in Nat /\ limit \in Nat /\ limit > Cardinality(Dir)
      BY <1>1, TreeAssumption, FS_CardinalityType DEF Quiet, Undisturbed, TypeOK
    <2>6. Height[e] >= 0 /\ Height[e] \in Int
      BY <2>4, <2>5
    <2> HIDE DEF e
    <2>7. k + 1 < limit
      BY <1>2, <2>2, <2>5, <2>6
    <2> QED
      BY <2>1, <2>7 DEF e
  <1>9. call.name # Dot => entry[d][call.name].type # "none"
    BY <1>4 DEF OnItsWay, Shown
  <1>10. <<Line(d, call.name, k)>> \in Lines /\ Below(d, call.name, k) \in Lines
    BY <1>1, <1>2, Kinds, ContentsIs
  <1>11. out \in Lines /\ error \in BOOLEAN
    BY <1>1 DEF TypeOK, Lines, Names
  <1> QED
    BY <1>1, <1>2, <1>3, <1>4, <1>5, <1>6, <1>7, <1>8, <1>9, <1>10, <1>11

\* What lstat says of its name.
LEMMA Looked ==
    ASSUME Quiet, stack # <<>>, NEW d, NEW k, d = From(1), k = Len(stack) - 1,
           call.at \notin {"list", "kids"}
    PROVE  /\ Found(call.name)
           /\ Entry(call.name).type = "dir" <=> IsDir(d, call.name)
           /\ call.name # Dot => Entry(call.name) = entry[d][call.name]
           /\ IsDir(d, call.name) => \A e \in Dir : LeadsTo(call.name, e) <=> e = Target(d, call.name)
  <1>1. /\ cwd = d /\ MayList(d) /\ (call.name # Dot => entry[d][call.name].type # "none")
    BY Standing
  <1>2. Found(call.name)
    BY <1>1 DEF Found, Entry, MayList
  <1>3. Entry(call.name).type = "dir" <=> IsDir(d, call.name)
    BY <1>1 DEF Entry, IsDir
  <1>4. call.name # Dot => Entry(call.name) = entry[d][call.name]
    BY <1>1 DEF Entry
  <1>5. ASSUME IsDir(d, call.name), NEW e \in Dir
        PROVE  LeadsTo(call.name, e) <=> e = Target(d, call.name)
    <2>1. Entry(call.name).type = "dir"
      BY <1>3, <1>5
    <2>2. Entry(call.name).to = Target(d, call.name)
      BY <1>1 DEF Entry, Target
    <2> QED
      BY <1>2, <2>1, <2>2 DEF LeadsTo
  <1> QED
    BY <1>2, <1>3, <1>4, <1>5

\* The line that is printed is that of the listing.
LEMMA Printed ==
    ASSUME Quiet, stack # <<>>, NEW d, NEW k, d = From(1), k = Len(stack) - 1,
           NEW ok \in BOOLEAN, PrintLine(ok),
           ok <=> (IsDir(d, call.name) => "r" \in perm[Target(d, call.name)])
    PROVE  out' = out \o <<Line(d, call.name, k)>> /\ out' \in Lines
  <1>1. k = Depth /\ out \in Lines /\ <<Line(d, call.name, k)>> \in Lines
    BY Standing
  <1>2. [depth |-> Depth, name |-> call.name, ok |-> ok] = Line(d, call.name, k)
    <2>1. ok = (IsDir(d, call.name) => "r" \in perm[Target(d, call.name)])
      BY Zenon
    <2> QED
      BY <1>1, <2>1 DEF Line
  <1> DEFINE line == Line(d, call.name, k)
  <1>3. out' = Append(out, line)
    BY <1>2 DEF PrintLine
  <1>4. PICK V : Lines = Seq(V)
    BY DEF Lines
  <1> HIDE DEF line
  <1>5. line \in V
    <2>1. <<line>> \in Seq(V)
      BY <1>1, <1>4 DEF line
    <2> QED
      BY <2>1
  <1>6. Append(out, line) = out \o <<line>> /\ Append(out, line) \in Lines
    BY <1>1, <1>4, <1>5, AppendProperties, AppendIsConcat
  <1> QED
    BY <1>3, <1>6 DEF line

\* A call that is not in its directory yet prints its line and returns.
LEMMA LineCourse ==
    ASSUME Quiet, stack # <<>>, NEW d, NEW k, d = From(1), k = Len(stack) - 1,
           call.at \in {"lstat", "readlink", "opendir"}, k <= option.max_depth,
           Below(d, call.name, k) = <<>>,
           NEW ok \in BOOLEAN, PrintLine(ok), Return, UNCHANGED <<entry, perm, option, crashed>>,
           ok <=> (IsDir(d, call.name) => "r" \in perm[Target(d, call.name)]),
           error' \in BOOLEAN, error' <=> (error \/ Fails[<<d, call.name, k>>])
    PROVE  OnCourse'
  <1>1. /\ RestOf(1) = Rest(call, d, k) /\ FateOf(1) = WillFail(call, d, k)
        /\ out \in Lines /\ error \in BOOLEAN /\ <<Line(d, call.name, k)>> \in Lines
    BY Standing
  <1>2. RestOf(1) = <<Line(d, call.name, k)>> \o <<>>
    BY <1>1 DEF Rest
  <1>3. <<Line(d, call.name, k)>> \o <<>> = <<Line(d, call.name, k)>>
    BY <1>1, ConcatEmptySeq DEF Lines
  <1>4. out' = out \o RestOf(1)
    BY <1>2, <1>3, Printed
  <1>5. FateOf(1) <=> Fails[<<d, call.name, k>>]
    BY <1>1 DEF WillFail
  <1> QED
    BY <1>1, <1>4, <1>5, ReturnCourse

\* It goes on to its next system call.
LEMMA GoCourse ==
    ASSUME Quiet, stack # <<>>, NEW d, NEW k, d = From(1), k = Len(stack) - 1,
           call.at \in {"lstat", "opendir", "open", "chdir"},
           NEW c, c \in Calls, Become(c), c.name = call.name, c.at \notin {"lstat", "kids"},
           OnItsWay(c, d, k), c.at = "list" => cwd' = Target(d, c.name),
           k <= option.max_depth,
           NEW text \in Lines, out' = out \o text, Rest(call, d, k) = text \o Rest(c, d, k),
           UNCHANGED <<entry, perm, option, crashed, error>>
    PROVE  OnCourse'
  <1>1. /\ RestOf(1) = Rest(call, d, k) /\ FateOf(1) = WillFail(call, d, k)
        /\ out \in Lines /\ error \in BOOLEAN
    BY Standing
  <1>2. WillFail(c, d, k) <=> FateOf(1)
    BY <1>1 DEF WillFail
  <1> QED
    BY <1>1, <1>2, BecomeCourse

\* The steps of visit one by one.
LEMMA TooDeepCourse == ASSUME Quiet, TooDeep PROVE OnCourse'
  <1>1. stack # <<>> /\ call.at = "lstat" /\ Return /\ UNCHANGED <<entry, perm, option, crashed, error, out>>
    BY DEF TooDeep, At, system
  <1>2. PICK d, k : d = From(1) /\ k = Len(stack) - 1
    OBVIOUS
  <1>3. /\ k = Depth /\ k \in Nat /\ option.max_depth \in Int
        /\ RestOf(1) = Rest(call, d, k) /\ FateOf(1) = WillFail(call, d, k)
        /\ out \in Lines /\ error \in BOOLEAN
    BY <1>1, <1>2, Standing
  <1>4. ~(k <= option.max_depth)
    BY <1>3 DEF TooDeep
  <1>5. RestOf(1) = <<>> /\ ~FateOf(1)
    BY <1>1, <1>3, <1>4 DEF Rest, WillFail
  <1>6. out' = out \o RestOf(1)
    BY <1>1, <1>3, <1>5, ConcatEmptySeq DEF Lines
  <1> QED
    BY <1>1, <1>3, <1>5, <1>6, ReturnCourse

LEMMA LstatCourse == ASSUME Quiet, Lstat PROVE OnCourse'
  <1>1. /\ stack # <<>> /\ call.at = "lstat" /\ Depth <= option.max_depth
        /\ UNCHANGED <<entry, perm, option, crashed>>
    BY DEF Lstat, At, system
  <1>2. PICK d, k : d = From(1) /\ k = Len(stack) - 1
    OBVIOUS
  <1>3. /\ TypeOK /\ k = Depth /\ k \in Nat /\ d \in Dir /\ call.name \in Names /\ call \in Calls
        /\ OnItsWay(call, d, k) /\ out \in Lines /\ error \in BOOLEAN
    BY <1>1, <1>2, Standing
  <1>4. /\ Found(call.name)
        /\ Entry(call.name).type = "dir" <=> IsDir(d, call.name)
        /\ call.name # Dot => Entry(call.name) = entry[d][call.name]
    BY <1>1, <1>2, Looked
  <1>5. ASSUME NEW w \in {"readlink", "opendir"}, Goto(w), UNCHANGED <<out, error>>,
               w = "readlink" => Entry(call.name).type = "link",
               w = "opendir" => Entry(call.name).type = "dir"
        PROVE  OnCourse'
    <2>1. PICK c : c = [call EXCEPT !.at = w]
      OBVIOUS
    <2>2. c \in Calls /\ Become(c) /\ c.name = call.name /\ c.at = w
      BY <1>3, <1>5, <2>1 DEF Calls, Goto
    <2>3. w = "readlink" => call.name # Dot /\ entry[d][call.name].type = "link"
      BY <1>4, <1>5 DEF Entry
    <2>4. OnItsWay(c, d, k)
      BY <1>1, <1>3, <1>4, <1>5, <2>2, <2>3 DEF OnItsWay
    <2>5. Rest(call, d, k) = Rest(c, d, k) /\ Rest(c, d, k) \in Lines
      BY <1>1, <1>3, <2>2, RestType DEF Rest
    <2>6. <<>> \in Lines /\ out' = out \o <<>> /\ Rest(call, d, k) = <<>> \o Rest(c, d, k)
      BY <1>3, <1>5, <2>5, ConcatEmptySeq DEF Lines
    <2> QED
      BY <1>1, <1>2, <1>3, <1>5, <2>2, <2>4, <2>6, GoCourse
  <1>6. ASSUME Return, PrintLine(TRUE), UNCHANGED error, Entry(call.name).type # "dir"
        PROVE  OnCourse'
    <2>1. ~IsDir(d, call.name)
      BY <1>4, <1>6
    <2>2. Below(d, call.name, k) = <<>> /\ ~Fails[<<d, call.name, k>>]
      BY <1>3, <2>1, FailsIs DEF Below, GoesBelow
    <2> QED
      BY <1>1, <1>2, <1>3, <1>6, <2>1, <2>2, LineCourse
  <1> QED
    BY <1>4, <1>5, <1>6 DEF Lstat

LEMMA ReadlinkCourse == ASSUME Quiet, Readlink PROVE OnCourse'
  <1>1. /\ stack # <<>> /\ call.at = "readlink" /\ UNCHANGED <<entry, perm, option, crashed>>
    BY DEF Readlink, At, system
  <1>2. PICK d, k : d = From(1) /\ k = Len(stack) - 1
    OBVIOUS
  <1>3. /\ TypeOK /\ k \in Nat /\ d \in Dir /\ call.name \in Names
        /\ OnItsWay(call, d, k) /\ error \in BOOLEAN
    BY <1>1, <1>2, Standing
  <1>4. Found(call.name) /\ (call.name # Dot => Entry(call.name) = entry[d][call.name])
    BY <1>1, <1>2, Looked
  <1>5. call.name # Dot /\ entry[d][call.name].type = "link" /\ k <= option.max_depth
    BY <1>1, <1>3 DEF OnItsWay
  <1>6. Return /\ PrintLine(TRUE) /\ UNCHANGED error
    BY <1>4, <1>5 DEF Readlink
  <1>7. ~IsDir(d, call.name)
    BY <1>5 DEF IsDir
  <1>8. Below(d, call.name, k) = <<>> /\ ~Fails[<<d, call.name, k>>]
    BY <1>3, <1>7, FailsIs DEF Below, GoesBelow
  <1> QED
    BY <1>1, <1>2, <1>3, <1>5, <1>6, <1>7, <1>8, LineCourse

LEMMA OpendirCourse == ASSUME Quiet, Opendir PROVE OnCourse'
  <1>1. /\ stack # <<>> /\ call.at = "opendir" /\ UNCHANGED <<entry, perm, option, crashed>>
    BY DEF Opendir, At, system
  <1>2. PICK d, k : d = From(1) /\ k = Len(stack) - 1
    OBVIOUS
  <1> DEFINE e == Target(d, call.name)
  <1>3. /\ TypeOK /\ k = Depth /\ k \in Nat /\ d \in Dir /\ call.name \in Names /\ call \in Calls
        /\ OnItsWay(call, d, k) /\ out \in Lines /\ error \in BOOLEAN /\ fds = k
        /\ <<Line(d, call.name, k)>> \in Lines /\ option.max_depth \in Int
        /\ IsDir(d, call.name) => e \in Dir /\ k + 1 < limit
    BY <1>1, <1>2, Standing
  <1>4. IsDir(d, call.name) /\ k <= option.max_depth /\ limit \in Nat
    BY <1>1, <1>3, TreeAssumption DEF OnItsWay, TypeOK
  <1>5. \A x \in Dir : LeadsTo(call.name, x) <=> x = e
    BY <1>1, <1>2, <1>4, Looked
  <1>6. Opens(call.name) <=> "r" \in perm[e]
    <2>1. fds < limit
      BY <1>3, <1>4
    <2> HIDE DEF e
    <2> QED
      BY <1>3, <1>4, <1>5, <2>1 DEF Opens
  <1>7. Fails[<<d, call.name, k>>] <=>
           \/ "r" \notin perm[e]
           \/ k < option.max_depth /\ ("x" \notin perm[e] \/ \E y \in Shown(e) : Fails[<<e, y, k + 1>>])
    BY <1>3, <1>4, FailsIs
  <1>8. CASE ~Opens(call.name) /\ Report
    <2>1. Below(d, call.name, k) = <<>> /\ Fails[<<d, call.name, k>>]
      BY <1>6, <1>7, <1>8 DEF Below, GoesBelow, MayList
    <2>2. PrintLine(FALSE) /\ Return /\ error' = TRUE
      BY <1>8 DEF Report
    <2> QED
      BY <1>1, <1>2, <1>3, <1>4, <1>6, <1>8, <2>1, <2>2, LineCourse
  <1>9. CASE Opens(call.name) /\ PrintLine(TRUE) /\ Depth >= option.max_depth /\ Return /\ UNCHANGED error
    <2>1. ~(k < option.max_depth)
      BY <1>3, <1>9
    <2>2. Below(d, call.name, k) = <<>> /\ ~Fails[<<d, call.name, k>>]
      BY <1>6, <1>7, <1>9, <2>1 DEF Below, GoesBelow
    <2> QED
      BY <1>1, <1>2, <1>3, <1>4, <1>6, <1>9, <2>2, LineCourse
  <1>10. CASE Opens(call.name) /\ PrintLine(TRUE) /\ ~(Depth >= option.max_depth) /\ Goto("open") /\ UNCHANGED error
    <2>1. k < option.max_depth /\ "r" \in perm[e]
      BY <1>3, <1>6, <1>10
    <2>2. PICK c : c = [call EXCEPT !.at = "open"]
      OBVIOUS
    <2>3. c \in Calls /\ Become(c) /\ c.name = call.name /\ c.at = "open"
      BY <1>3, <1>10, <2>2 DEF Calls, Goto
    <2>4. OnItsWay(c, d, k)
      BY <1>1, <1>3, <1>4, <2>1, <2>3 DEF OnItsWay
    <2>5. Rest(call, d, k) = <<Line(d, call.name, k)>> \o Rest(c, d, k)
      BY <1>1, <1>4, <2>3 DEF Rest
    <2>6. out' = out \o <<Line(d, call.name, k)>>
      BY <1>1, <1>2, <1>6, <1>10, Printed
    <2> QED
      BY <1>1, <1>2, <1>3, <1>4, <1>10, <2>3, <2>4, <2>5, <2>6, GoCourse
  <1> QED
    BY <1>8, <1>9, <1>10 DEF Opendir

LEMMA OpenCourse == ASSUME Quiet, Open PROVE OnCourse'
  <1>1. /\ stack # <<>> /\ call.at = "open" /\ UNCHANGED <<entry, perm, option, crashed, out>>
    BY DEF Open, At, system
  <1>2. PICK d, k : d = From(1) /\ k = Len(stack) - 1
    OBVIOUS
  <1>3. /\ TypeOK /\ k \in Nat /\ d \in Dir /\ call.name \in Names /\ call \in Calls /\ MayList(d)
        /\ OnItsWay(call, d, k) /\ out \in Lines /\ option.max_depth \in Int
        /\ Below(d, call.name, k) \in Lines
    BY <1>1, <1>2, Standing
  <1>o. cwd = d /\ fds = k
    <2>1. k = Depth /\ Bookkeeping /\ Undisturbed
      BY <1>1, <1>2, Standing DEF Quiet
    <2>2. ~strayed /\ fds = Len(stack) - 1
      BY <1>1, <2>1, Here DEF Undisturbed
    <2>3. cwd = d
      BY <1>1, <1>2, <2>1, <2>2, Here
    <2> QED
      BY <1>2, <2>2, <2>3
  <1>4. IsDir(d, call.name) /\ k < option.max_depth /\ limit \in Nat
    BY <1>1, <1>3, TreeAssumption DEF OnItsWay, TypeOK
  <1>5. fds < limit /\ MayList(cwd) /\ k <= option.max_depth
    <2>1. k + 1 < limit
      BY <1>1, <1>2, <1>4, Standing
    <2> QED
      BY <1>3, <1>4, <1>o, <2>1
  <1>6. Become([call EXCEPT !.saved = cwd, !.at = "chdir"]) /\ UNCHANGED error
    BY <1>5 DEF Open
  <1>7. PICK c : c = [call EXCEPT !.saved = cwd, !.at = "chdir"]
    OBVIOUS
  <1>8. c \in Calls /\ Become(c) /\ c.name = call.name /\ c.at = "chdir"
    BY <1>3, <1>6, <1>7, <1>o DEF Calls
  <1>9. OnItsWay(c, d, k)
    BY <1>1, <1>3, <1>8 DEF OnItsWay
  <1>10. Rest(call, d, k) = Below(d, call.name, k) /\ Rest(c, d, k) = Below(d, call.name, k)
    BY <1>1, <1>8 DEF Rest
  <1>11. <<>> \in Lines /\ out' = out \o <<>> /\ Rest(call, d, k) = <<>> \o Rest(c, d, k)
    BY <1>1, <1>3, <1>10, ConcatEmptySeq DEF Lines
  <1> QED
    BY <1>1, <1>2, <1>5, <1>6, <1>8, <1>9, <1>11, GoCourse

LEMMA ChdirCourse == ASSUME Quiet, Chdir PROVE OnCourse'
  <1>1. /\ stack # <<>> /\ call.at = "chdir" /\ UNCHANGED <<entry, perm, option, crashed, out>>
    BY DEF Chdir, At, system
  <1>2. PICK d, k : d = From(1) /\ k = Len(stack) - 1
    OBVIOUS
  <1> DEFINE e == Target(d, call.name)
  <1>3. /\ TypeOK /\ k \in Nat /\ d \in Dir /\ call.name \in Names /\ call \in Calls
        /\ OnItsWay(call, d, k) /\ out \in Lines /\ option.max_depth \in Int
        /\ Below(d, call.name, k) \in Lines /\ error \in BOOLEAN
        /\ IsDir(d, call.name) => e \in Dir
        /\ RestOf(1) = Rest(call, d, k) /\ FateOf(1) = WillFail(call, d, k)
    BY <1>1, <1>2, Standing
  <1>4. IsDir(d, call.name) /\ k < option.max_depth /\ k <= option.max_depth /\ "r" \in perm[e]
    BY <1>1, <1>3 DEF OnItsWay
  <1>5. \A x \in Dir : Enters(call.name, x) <=> x = e /\ "x" \in perm[e]
    BY <1>1, <1>2, <1>4, Looked DEF Enters
  <1>6. Rest(call, d, k) = Below(d, call.name, k)
    BY <1>1 DEF Rest
  <1>7. ASSUME NEW x \in Dir, Enters(call.name, x), cwd' = x, Goto("list"), UNCHANGED <<fds, error>>
        PROVE  OnCourse'
    <2>1. x = e /\ "x" \in perm[e]
      BY <1>5, <1>7
    <2>2. PICK c : c = [call EXCEPT !.at = "list"]
      OBVIOUS
    <2>3. c \in Calls /\ Become(c) /\ c.name = call.name /\ c.at = "list"
      BY <1>3, <1>7, <2>2 DEF Calls, Goto
    <2>4. OnItsWay(c, d, k)
      BY <1>1, <1>3, <2>1, <2>3 DEF OnItsWay
    <2>5. <<>> \in Lines /\ out' = out \o <<>> /\ Rest(call, d, k) = <<>> \o Rest(c, d, k)
      <3>1. Rest(c, d, k) = Below(d, call.name, k)
        BY <2>3 DEF Rest
      <3> QED
        BY <1>1, <1>3, <1>6, <3>1, ConcatEmptySeq DEF Lines
    <2>6. cwd' = Target(d, c.name)
      BY <1>7, <2>1, <2>3
    <2> QED
      BY <1>1, <1>2, <1>4, <1>7, <2>3, <2>4, <2>5, <2>6, GoCourse
  <1>8. ASSUME ~\E x \in Dir : Enters(call.name, x), error' = TRUE, Return
        PROVE  OnCourse'
    <2>1. "x" \notin perm[e]
      BY <1>3, <1>4, <1>5, <1>8
    <2>2. Below(d, call.name, k) = <<>>
      BY <2>1 DEF Below, GoesBelow, MayList
    <2>3. Fails[<<d, call.name, k>>]
      BY <1>3, <1>4, <2>1, FailsIs
    <2>4. FateOf(1)
      BY <1>1, <1>3, <1>4, <2>3 DEF WillFail
    <2>5. out' = out \o RestOf(1)
      BY <1>1, <1>3, <1>6, <2>2, ConcatEmptySeq DEF Lines
    <2> QED
      BY <1>1, <1>3, <1>8, <2>4, <2>5, ReturnCourse
  <1> QED
    BY <1>7, <1>8 DEF Chdir

LEMMA ListCourse == ASSUME Quiet, List PROVE OnCourse'
  <1>1. /\ stack # <<>> /\ call.at = "list" /\ UNCHANGED <<entry, perm, option, out, error>>
    BY DEF List, At, system
  <1>2. PICK d, k : d = From(1) /\ k = Len(stack) - 1
    OBVIOUS
  <1>3. PICK e : e = Target(d, call.name)
    OBVIOUS
  <1>4. /\ TypeOK /\ k \in Nat /\ d \in Dir /\ call.name \in Names /\ call \in Calls
        /\ OnItsWay(call, d, k) /\ out \in Lines /\ option.max_depth \in Int
        /\ cwd = e /\ fds = k + 1 /\ error \in BOOLEAN
        /\ IsDir(d, call.name) => e \in Dir /\ k + 1 < limit
        /\ RestOf(1) = Rest(call, d, k) /\ FateOf(1) = WillFail(call, d, k)
    BY <1>1, <1>2, <1>3, Standing
  <1>5. /\ IsDir(d, call.name) /\ k < option.max_depth /\ {"r", "x"} \subseteq perm[e]
        /\ e \in Dir /\ k <= option.max_depth
    BY <1>1, <1>3, <1>4 DEF OnItsWay
  <1>6. fds < limit /\ MayList(cwd)
    BY <1>4, <1>5 DEF MayList
  <1>7. /\ Become([call EXCEPT !.at = "kids", !.here = cwd, !.kids = {x \in Name : Listed(x)}])
        /\ UNCHANGED crashed
    BY <1>6 DEF List
  <1>8. {x \in Name : Listed(x)} = Shown(e)
    BY <1>4 DEF Listed, Shown
  <1>9. PICK c : c = [call EXCEPT !.at = "kids", !.here = e, !.kids = Shown(e)]
    OBVIOUS
  <1>10. /\ c \in Calls /\ Become(c) /\ c.name = call.name /\ c.at = "kids"
         /\ c.here = e /\ c.kids = Shown(e)
    <2>1. Become(c)
      BY <1>4, <1>7, <1>8, <1>9
    <2>2. Shown(e) \in SUBSET Name
      BY DEF Shown
    <2> QED
      BY <1>4, <1>5, <1>9, <2>1, <2>2 DEF Calls
  <1>11. OnItsWay(c, d, k)
    BY <1>1, <1>3, <1>4, <1>5, <1>10 DEF OnItsWay
  <1>12. RestOf(1) = Rest(c, d, k) /\ Rest(c, d, k) \in Lines
    <2>1. Rest(call, d, k) = Below(d, call.name, k)
      BY <1>1 DEF Rest
    <2>2. Below(d, call.name, k) = Contents[<<e, Shown(e), k + 1>>]
      BY <1>3, <1>5 DEF Below, GoesBelow, MayList
    <2>3. Rest(c, d, k) = Contents[<<e, Shown(e), k + 1>>]
      BY <1>10 DEF Rest
    <2> QED
      BY <1>4, <1>10, <2>1, <2>2, <2>3, RestType
  <1>13. <<>> \in Lines /\ out' = out \o <<>> /\ RestOf(1) = <<>> \o Rest(c, d, k)
    BY <1>1, <1>4, <1>12, ConcatEmptySeq DEF Lines
  <1>14. WillFail(c, d, k) <=> FateOf(1)
    <2>1. FateOf(1) <=> Fails[<<d, call.name, k>>]
      BY <1>1, <1>4, <1>5 DEF WillFail
    <2>2. Fails[<<d, call.name, k>>] <=> \E y \in Shown(e) : Fails[<<e, y, k + 1>>]
      BY <1>3, <1>4, <1>5, FailsIs
    <2>3. WillFail(c, d, k) <=> \E y \in Shown(e) : Fails[<<e, y, k + 1>>]
      BY <1>10 DEF WillFail
    <2> QED
      BY <2>1, <2>2, <2>3
  <1> QED
    BY <1>1, <1>2, <1>4, <1>7, <1>10, <1>11, <1>13, <1>14, BecomeCourse

LEMMA BackCourse == ASSUME Quiet, Back PROVE OnCourse'
  <1>1. /\ stack # <<>> /\ call.at = "kids" /\ call.kids = {} /\ Return
        /\ UNCHANGED <<entry, perm, option, crashed, error, out>>
    BY DEF Back, At, system
  <1>2. PICK d, k : d = From(1) /\ k = Len(stack) - 1
    OBVIOUS
  <1>3. /\ TypeOK /\ k \in Nat /\ call \in Calls /\ out \in Lines /\ error \in BOOLEAN
        /\ RestOf(1) = Rest(call, d, k) /\ FateOf(1) = WillFail(call, d, k)
    BY <1>1, <1>2, Standing
  <1>4. ~FateOf(1)
    BY <1>1, <1>3 DEF WillFail
  <1>5. RestOf(1) = <<>>
    <2>1. call.here \in Dir /\ k + 1 \in Nat
      BY <1>3 DEF Calls
    <2>2. Contents[<<call.here, {}, k + 1>>] = <<>>
      BY <1>3, <2>1, ContentsIs
    <2> QED
      BY <1>1, <1>3, <2>2 DEF Rest
  <1>6. out' = out \o RestOf(1)
    BY <1>1, <1>3, <1>5, ConcatEmptySeq DEF Lines
  <1> QED
    BY <1>1, <1>3, <1>4, <1>6, ReturnCourse

\* What a call has to print at a name and after it, and what fails there.
LEMMA OneByOne ==
    ASSUME Quiet, stack # <<>>, call.at = "kids", NEW d, NEW k, d = From(1), k = Len(stack) - 1,
           NEW x \in call.kids, \A y \in call.kids : x <= y,
           NEW c, c = [call EXCEPT !.kids = @ \ {x}]
    PROVE  /\ x \in Name /\ call.here \in Dir /\ k + 1 \in Nat
           /\ OnItsWay(Call(x), call.here, k + 1) /\ OnItsWay(c, d, k)
           /\ RestOf(1) = Rest(Call(x), call.here, k + 1) \o Rest(c, d, k)
           /\ FateOf(1) <=> WillFail(Call(x), call.here, k + 1) \/ WillFail(c, d, k)
  <1>1. /\ TypeOK /\ d \in Dir /\ k \in Nat /\ call \in Calls /\ call.name \in Names
        /\ option.max_depth \in Int /\ OnItsWay(call, d, k)
        /\ RestOf(1) = Rest(call, d, k) /\ FateOf(1) = WillFail(call, d, k)
    BY Standing
  <1>2. PICK h, kids : h = call.here /\ kids = call.kids
    OBVIOUS
  <1>3. /\ h \in Dir /\ kids \in SUBSET Names /\ kids \subseteq Name /\ x \in kids /\ x \in Name
        /\ k + 1 \in Nat /\ x \in Names
    BY <1>1, <1>2 DEF Calls, Names
  <1>4. x = First(kids)
    BY <1>2, <1>3, FirstIs
  <1>5. /\ c.at = "kids" /\ c.name = call.name /\ c.here = h /\ c.kids = kids \ {x}
        /\ Call(x).at = "lstat" /\ Call(x).name = x
    BY <1>1, <1>2 DEF Calls, Call
  <1>6. /\ k < option.max_depth /\ k + 1 <= option.max_depth
        /\ IsDir(d, call.name) /\ h = Target(d, call.name)
        /\ kids \subseteq Shown(h) /\ k + Height[h] < Cardinality(Dir)
    BY <1>1, <1>2 DEF OnItsWay
  <1>7. OnItsWay(c, d, k)
    <2>1. kids \ {x} \subseteq Shown(h)
      BY <1>6
    <2> QED
      BY <1>1, <1>2, <1>5, <2>1 DEF OnItsWay
  <1>8. x # Dot
    BY <1>3, TreeAssumption
  <1>9. ASSUME IsDir(h, x)
        PROVE  (k + 1) + Height[Target(h, x)] < Cardinality(Dir)
    <2>1. Height \in Heights(entry)
      BY DEF Quiet, OnCourse, Height
    <2>2. Target(h, x) = entry[h][x].to /\ entry[h][x].type = "dir"
      BY <1>8, <1>9 DEF Target, IsDir
    <2>3. Target(h, x) \in Dir
      BY <1>1, <1>3, <1>9, Kinds
    <2>4. Height[Target(h, x)] < Height[h]
      BY <1>3, <2>1, <2>2 DEF Heights
    <2>5. Height[h] \in 0..Cardinality(Dir) - 1 /\ Height[Target(h, x)] \in 0..Cardinality(Dir) - 1
      BY <1>3, <2>1, <2>3 DEF Heights
    <2>6. Cardinality(Dir) \in Nat
      BY TreeAssumption, FS_CardinalityType
    <2>7. Height[h] \in Int /\ Height[Target(h, x)] \in Int
      BY <2>5, <2>6
    <2> QED
      BY <1>1, <1>6, <2>4, <2>6, <2>7
  <1>10. OnItsWay(Call(x), h, k + 1)
    BY <1>3, <1>5, <1>6, <1>8, <1>9 DEF OnItsWay
  <1>11. RestOf(1) = Rest(Call(x), h, k + 1) \o Rest(c, d, k)
    <2>1. RestOf(1) = Contents[<<h, kids, k + 1>>]
      BY <1>1, <1>2 DEF Rest
    <2>2. Rest(c, d, k) = Contents[<<h, kids \ {x}, k + 1>>]
      BY <1>5 DEF Rest
    <2>3. Rest(Call(x), h, k + 1) = <<Line(h, x, k + 1)>> \o Below(h, x, k + 1)
      BY <1>5, <1>6 DEF Rest
    <2>4. Contents[<<h, kids, k + 1>>] =
             <<Line(h, x, k + 1)>> \o Below(h, x, k + 1) \o Contents[<<h, kids \ {x}, k + 1>>]
      <3>1. kids # {}
        BY <1>3
      <3> QED
        BY <1>1, <1>3, <1>4, <3>1, ContentsIs
    <2> QED
      BY <2>1, <2>2, <2>3, <2>4
  <1>12. FateOf(1) <=> WillFail(Call(x), h, k + 1) \/ WillFail(c, d, k)
    <2>1. FateOf(1) <=> \E y \in kids : Fails[<<h, y, k + 1>>]
      BY <1>1, <1>2 DEF WillFail
    <2>2. WillFail(c, d, k) <=> \E y \in kids \ {x} : Fails[<<h, y, k + 1>>]
      BY <1>5 DEF WillFail
    <2>3. WillFail(Call(x), h, k + 1) <=> Fails[<<h, x, k + 1>>]
      BY <1>5, <1>6 DEF WillFail
    <2>4. (\E y \in kids : Fails[<<h, y, k + 1>>])
             <=> Fails[<<h, x, k + 1>>] \/ \E y \in kids \ {x} : Fails[<<h, y, k + 1>>]
      BY <1>3
    <2> QED
      BY <2>1, <2>2, <2>3, <2>4
  <1> QED
    BY <1>2, <1>3, <1>7, <1>10, <1>11, <1>12

\* A call for the first name that is left: what was owed at it is now owed by that call.
LEMMA VisitKidCourse == ASSUME Quiet, VisitKid PROVE OnCourse'
  <1>1. /\ stack # <<>> /\ call.at = "kids"
        /\ UNCHANGED <<entry, perm, option, crashed, out, error>>
    BY DEF VisitKid, At, system
  <1>2. PICK d, k : d = From(1) /\ k = Len(stack) - 1
    OBVIOUS
  <1>3. PICK x \in call.kids :
            /\ \A y \in call.kids : x <= y
            /\ stack' = <<Call(x), [call EXCEPT !.kids = @ \ {x}]>> \o Tail(stack)
    BY DEF VisitKid
  <1>4. PICK c, v, h, l :
            /\ c = [call EXCEPT !.kids = @ \ {x}] /\ v = Call(x) /\ h = call.here /\ l = k + 1
    OBVIOUS
  <1>5. /\ x \in Name /\ h \in Dir /\ l \in Nat
        /\ OnItsWay(v, h, l) /\ OnItsWay(c, d, k)
        /\ RestOf(1) = Rest(v, h, l) \o Rest(c, d, k)
        /\ FateOf(1) <=> WillFail(v, h, l) \/ WillFail(c, d, k)
    BY <1>1, <1>2, <1>3, <1>4, OneByOne
  <1>6. /\ TypeOK /\ k \in Nat /\ d \in Dir /\ Len(stack) = l /\ l = k + 1 /\ out \in Lines
    <2>1. TypeOK /\ k \in Nat /\ d \in Dir /\ out \in Lines
      BY <1>1, <1>2, Standing
    <2> QED
      BY <1>2, <1>4, <2>1 DEF TypeOK
  <1>7. /\ c \in Calls /\ v \in Calls
        /\ stack' \in Seq(Calls) /\ Len(stack') = l + 1 /\ stack' # <<>>
        /\ stack'[1] = v /\ stack'[2] = c
        /\ \A i \in 2..l : stack'[i + 1] = stack[i]
        /\ From(1)' = h
        /\ \A i \in 1..l : From(i + 1)' = From(i)
    <2>1. stack \in Seq(Calls) /\ Root \in Dir
      BY <1>6, TreeAssumption DEF TypeOK
    <2>2. stack' = <<Call(x), c>> \o Tail(stack)
      BY <1>3, <1>4
    <2> QED
      BY <1>1, <1>4, <1>5, <1>6, <2>1, <2>2, Visits
  <1>8. RestOf(1)' = Rest(v, h, l) /\ FateOf(1)' = WillFail(v, h, l) /\ GoodOf(1)' = OnItsWay(v, h, l)
    <2>1. Len(stack') - 1 = l
      BY <1>5, <1>7
    <2> QED
      BY <1>1, <1>7, <2>1, NewPlace
  <1>9. RestOf(2)' = Rest(c, d, k) /\ FateOf(2)' = WillFail(c, d, k) /\ GoodOf(2)' = OnItsWay(c, d, k)
    <2>1. Len(stack') - 2 = k /\ 1 \in 1..l /\ 1 + 1 = 2
      BY <1>6, <1>7
    <2>2. From(2)' = d
      BY <1>2, <1>7, <2>1
    <2> QED
      BY <1>1, <1>7, <2>1, <2>2, NewPlace
  <1>10. ASSUME NEW i \in 2..l
         PROVE  RestOf(i + 1)' = RestOf(i) /\ FateOf(i + 1)' = FateOf(i) /\ GoodOf(i + 1)' = GoodOf(i)
    <2>1. Len(stack') - (i + 1) = Len(stack) - i /\ i \in 1..l
      BY <1>6, <1>7
    <2> QED
      BY <1>1, <1>7, <2>1, Moved
  <1>11. Rest(v, h, l) \in Lines /\ Rest(c, d, k) \in Lines
    BY <1>5, <1>6, <1>7, RestType
  <1>12. Others \in Seq(Lines) /\ Len(Others) = k /\ FlattenSeq(Others) \in Lines
         /\ Owed = RestOf(1) \o FlattenSeq(Others)
    BY <1>1, <1>2, <1>6, OwedIs
  <1>13. Owed' = Rest(v, h, l) \o (Rest(c, d, k) \o FlattenSeq(Others))
    <2> DEFINE all == [i \in 1..l + 1 |-> RestOf(i)']
               ss == [i \in 1..l |-> RestOf(i + 1)']
    <2>1. Owed' = FlattenSeq(all)
      BY <1>7 DEF Owed, RestOf
    <2>2. \A i \in 1..k : ss[i + 1] = Others[i]
      <3>1. ASSUME NEW i \in 1..k PROVE ss[i + 1] = Others[i]
        <4>1. i + 1 \in 1..l /\ i + 1 \in 2..l /\ i \in 1..Len(stack) - 1
          BY <1>6
        <4>2. ss[i + 1] = RestOf((i + 1) + 1)'
          BY <4>1
        <4>3. RestOf((i + 1) + 1)' = RestOf(i + 1)
          BY <1>10, <4>1
        <4>4. Others[i] = RestOf(i + 1)
          BY <4>1 DEF Others
        <4> QED
          BY <4>2, <4>3, <4>4
      <3> QED
        BY <3>1
    <2>3. ss[1] = Rest(c, d, k)
      <3>1. 1 \in 1..l /\ 1 + 1 = 2
        BY <1>6
      <3> QED
        BY <1>9, <3>1
    <2>4. ss \in [1..k + 1 -> Lines]
      <3>1. ASSUME NEW i \in 1..l PROVE ss[i] \in Lines
        <4>1. CASE i = 1
          BY <1>11, <2>3, <4>1
        <4>2. CASE i # 1
          <5>1. i - 1 \in 1..k /\ (i - 1) + 1 = i
            BY <1>6, <4>2
          <5>2. Others[i - 1] \in Lines
            <6> HIDE DEF Others
            <6> QED
              BY <1>12, <5>1
          <5>3. ss[(i - 1) + 1] = Others[i - 1]
            BY <2>2, <5>1
          <5> HIDE DEF ss
          <5> QED
            BY <5>1, <5>2, <5>3
        <4> QED
          BY <4>1, <4>2
      <3> QED
        BY <1>6, <3>1
    <2>5. \A i \in 1..l : all[i + 1] = ss[i]
      <3>1. \A i \in 1..l : i + 1 \in 1..l + 1
        BY <1>5
      <3> QED
        BY <3>1
    <2>6. all[1] = Rest(v, h, l)
      BY <1>5, <1>8
    <2>7. all \in [1..l + 1 -> Lines]
      <3>1. ASSUME NEW i \in 1..l + 1 PROVE all[i] \in Lines
        <4>1. CASE i = 1
          BY <1>11, <2>6, <4>1
        <4>2. CASE i # 1
          <5>1. i - 1 \in 1..l /\ (i - 1) + 1 = i
            BY <1>5, <4>2
          <5>2. ss[i - 1] \in Lines
            <6> HIDE DEF ss
            <6> QED
              BY <1>6, <2>4, <5>1
          <5>3. all[(i - 1) + 1] = ss[i - 1]
            BY <2>5, <5>1
          <5> HIDE DEF ss, all
          <5> QED
            BY <5>1, <5>2, <5>3
        <4> QED
          BY <4>1, <4>2
      <3> QED
        BY <3>1
    <2> HIDE DEF all, ss, Others
    <2>8. ss \in Seq(Lines) /\ Len(ss) = k + 1 /\ FlattenSeq(ss) = Rest(c, d, k) \o FlattenSeq(Others)
      <3>1. k \in Nat /\ k = Len(Others) /\ Others \in Seq(Lines) /\ Rest(c, d, k) \in Lines
        BY <1>6, <1>11, <1>12
      <3>2. PICK f, g, r : f = ss /\ g = Others /\ r = Rest(c, d, k)
        OBVIOUS
      <3>3. /\ f \in [1..k + 1 -> Lines] /\ f[1] = r /\ \A i \in 1..k : f[i + 1] = g[i]
            /\ k \in Nat /\ k = Len(g) /\ g \in Seq(Lines) /\ r \in Lines
        BY <2>2, <2>3, <2>4, <3>1, <3>2
      <3>4. f \in Seq(Lines) /\ Len(f) = k + 1 /\ FlattenSeq(f) = r \o FlattenSeq(g)
        BY <3>3, InFront
      <3> QED
        BY <3>2, <3>4
    <2>9. FlattenSeq(all) = Rest(v, h, l) \o FlattenSeq(ss)
      <3>1. l \in Nat /\ l = Len(ss) /\ ss \in Seq(Lines) /\ Rest(v, h, l) \in Lines
        BY <1>5, <1>6, <1>11, <2>8
      <3> QED
        BY <2>5, <2>6, <2>7, <3>1, InFront
    <2> QED
      BY <2>1, <2>8, <2>9
  <1>14. out' \o Owed' = out \o Owed
    <2>1. \A q, r, s \in Lines : (q \o r) \o s = q \o (r \o s) /\ q \o r \in Lines
      BY Joins DEF Lines
    <2>2. (Rest(v, h, l) \o Rest(c, d, k)) \o FlattenSeq(Others)
              = Rest(v, h, l) \o (Rest(c, d, k) \o FlattenSeq(Others))
      BY <1>11, <1>12, <2>1, Zenon
    <2> QED
      BY <1>1, <1>5, <1>12, <1>13, <2>2
  <1>15. \A i \in 1..l + 1 : i = 1 \/ i = 2 \/ (i - 1 \in 2..l /\ (i - 1) + 1 = i)
    BY <1>5
  <1>16. \A i \in 1..l : i = 1 \/ (i \in 2..l /\ i + 1 \in 1..l + 1)
    BY <1>5
  <1>17. \A i \in 1..l + 1 : GoodOf(i)'
    <2>1. \A i \in 2..l : GoodOf(i)
      BY <1>6 DEF Quiet, OnCourse, GoodOf
    <2> QED
      BY <1>5, <1>8, <1>9, <1>10, <1>15, <2>1
  <1>18. (\E i \in 1..l + 1 : FateOf(i)') <=> (\E i \in 1..l : FateOf(i))
    <2>1. ASSUME NEW i \in 1..l + 1, FateOf(i)' PROVE \E j \in 1..l : FateOf(j)
      <3>1. CASE i = 1 \/ i = 2
        <4>1. FateOf(1) /\ 1 \in 1..l
          BY <1>5, <1>6, <1>8, <1>9, <2>1, <3>1
        <4> QED
          BY <4>1
      <3>2. CASE i - 1 \in 2..l /\ (i - 1) + 1 = i
        <4>1. FateOf(i - 1) /\ i - 1 \in 1..l
          BY <1>5, <1>10, <2>1, <3>2
        <4> QED
          BY <4>1
      <3> QED
        BY <1>15, <3>1, <3>2
    <2>2. ASSUME NEW i \in 1..l, FateOf(i) PROVE \E j \in 1..l + 1 : FateOf(j)'
      <3>1. CASE i = 1
        <4>1. 1 \in 1..l + 1 /\ 2 \in 1..l + 1
          BY <1>6
        <4>2. FateOf(1)' \/ FateOf(2)'
          BY <1>5, <1>8, <1>9, <2>2, <3>1
        <4> QED
          BY <4>1, <4>2
      <3>2. CASE i \in 2..l /\ i + 1 \in 1..l + 1
        BY <1>10, <2>2, <3>2
      <3> QED
        BY <1>16, <3>1, <3>2
    <2> QED
      BY <2>1, <2>2
  <1>19. ~At("list")'
    <2>1. call' = stack'[1]
      BY <1>7, HeadTailProperties DEF call
    <2> QED
      BY <1>4, <1>7, <2>1 DEF At, Call
  <1>20. /\ out \o Owed = Listing /\ Listing' = Listing /\ Failing' = Failing
         /\ ~crashed' /\ Heights(entry)' # {}
         /\ (error \/ \E i \in 1..l : FateOf(i)) <=> Failing
    BY <1>1, <1>6, Frozen DEF Quiet, OnCourse, FateOf
  <1> QED
    BY <1>1, <1>7, <1>14, <1>17, <1>18, <1>19, <1>20 DEF OnCourse, FateOf, GoodOf

\* When main calls visit, everything has still to be printed.
LEMMA InitCourse == Init => OnCourse
  <1> SUFFICES ASSUME Init PROVE OnCourse
    OBVIOUS
  <1>1. TypeOK
    BY InitBooks DEF Bookkeeping
  <1>2. PICK c : c = Call(Dot)
    OBVIOUS
  <1>3. /\ c \in Calls /\ c.at = "lstat" /\ c.name = Dot
        /\ Root \in Dir /\ option.max_depth \in Int /\ 0 \in Nat
    BY <1>1, <1>2, TreeAssumption DEF Calls, Call, TypeOK
  <1>4. stack = <<c>> /\ Len(stack) = 1 /\ stack[1] = c /\ stack # <<>> /\ call = c
    BY <1>2, <1>3 DEF Init, call
  <1>5. From(1) = Root /\ \A i \in 1..Len(stack) : i = 1 /\ Len(stack) - i = 0
    BY <1>4 DEF From
  <1>6. PICK w \in Worlds : entry = w.entry
    BY DEF Init
  <1>7. Heights(entry) # {}
    BY <1>6, TreeAssumption
  <1>8. OnItsWay(c, Root, 0)
    <2>1. Height \in Heights(entry)
      BY <1>7 DEF Height
    <2>2. Height[Root] \in 0..Cardinality(Dir) - 1
      BY <1>3, <2>1 DEF Heights
    <2>3. Cardinality(Dir) \in Nat
      BY TreeAssumption, FS_CardinalityType
    <2>4. 0 + Height[Root] < Cardinality(Dir)
      BY <2>2, <2>3
    <2>5. Target(Root, c.name) = Root /\ IsDir(Root, c.name)
      BY <1>3 DEF Target, IsDir
    <2> QED
      BY <1>3, <2>4, <2>5 DEF OnItsWay
  <1>9. RestOf(1) = Rest(c, Root, 0) /\ FateOf(1) = WillFail(c, Root, 0)
    BY <1>4, <1>5 DEF RestOf, FateOf
  <1>10. Rest(c, Root, 0) = Listing /\ Listing \in Lines
    <2>1. Dot \in Names /\ {Dot} \in SUBSET Names /\ {Dot} # {} /\ First({Dot}) = Dot /\ {Dot} \ {Dot} = {}
      <3>1. {Dot} \in SUBSET Names /\ Dot \in Names
        BY DEF Names
      <3>2. First({Dot}) \in {Dot}
        BY <3>1, FirstIs
      <3> QED
        BY <3>1, <3>2
    <2> DEFINE text == <<Line(Root, Dot, 0)>> \o Below(Root, Dot, 0)
    <2>2. Contents[<<Root, {Dot}, 0>>] = text \o Contents[<<Root, {}, 0>>]
      <3>1. PICK kids : kids = {Dot}
        OBVIOUS
      <3>2. kids \in SUBSET Names /\ kids # {} /\ First(kids) = Dot /\ kids \ {Dot} = {}
        BY <2>1, <3>1
      <3>3. Contents[<<Root, kids, 0>>] =
               <<Line(Root, First(kids), 0)>> \o Below(Root, First(kids), 0)
                  \o Contents[<<Root, kids \ {First(kids)}, 0>>]
        BY <1>1, <1>3, <3>2, ContentsIs
      <3> QED
        BY <3>1, <3>2, <3>3
    <2>3. Contents[<<Root, {}, 0>>] = <<>>
      BY <1>1, <1>3, ContentsIs
    <2>4. text \in Lines
      <3>1. <<Line(Root, Dot, 0)>> \in Lines /\ Below(Root, Dot, 0) \in Lines
        BY <1>1, <1>3, <2>1, Kinds, ContentsIs
      <3> QED
        BY <3>1, ConcatProperties DEF Lines
    <2>5. Rest(c, Root, 0) = IF 0 <= option.max_depth THEN text ELSE <<>>
      BY <1>3 DEF Rest
    <2> HIDE DEF text
    <2>6. Contents[<<Root, {Dot}, 0>>] = text
      BY <2>2, <2>3, <2>4, ConcatEmptySeq DEF Lines
    <2>7. <<>> \in Lines
      BY DEF Lines
    <2>8. option.max_depth < 0 <=> ~(0 <= option.max_depth)
      BY <1>3
    <2> QED
      BY <2>4, <2>5, <2>6, <2>7, <2>8 DEF Listing
  <1>11. Owed = Listing
    <2>1. Owed = RestOf(1) \o FlattenSeq(Others)
      BY <1>1, <1>4, OwedIs
    <2>2. Others = <<>>
      BY <1>4 DEF Others
    <2>3. FlattenSeq(<<>>) = <<>>
      BY DEF FlattenSeq
    <2> QED
      BY <1>9, <1>10, <2>1, <2>2, <2>3, ConcatEmptySeq DEF Lines
  <1>12. out \o Owed = Listing
    BY <1>10, <1>11, ConcatEmptySeq DEF Init, Lines
  <1>13. (error \/ \E i \in 1..Len(stack) : FateOf(i)) <=> Failing
    <2>1. 1 \in 1..Len(stack) /\ ~error
      BY <1>4 DEF Init
    <2>2. FateOf(1) <=> Failing
      BY <1>3, <1>9 DEF WillFail, Failing
    <2> QED
      BY <1>5, <2>1, <2>2
  <1>14. \A i \in 1..Len(stack) : OnItsWay(stack[i], From(i), Len(stack) - i)
    <2>1. OnItsWay(stack[1], From(1), Len(stack) - 1)
      BY <1>4, <1>5, <1>8
    <2> QED
      BY <1>5, <2>1
  <1>15. ~crashed /\ ~At("list")
    BY <1>3, <1>4 DEF Init, At
  <1> QED
    BY <1>7, <1>12, <1>13, <1>14, <1>15 DEF OnCourse, FateOf

\* Every step keeps the listing complete; whoever else moves disturbs it.
LEMMA StepCourse == IInv /\ [Next]_vars => OnCourse'
  <1> SUFFICES ASSUME IInv, [Next]_vars, Undisturbed' PROVE OnCourse'
    BY DEF OnCourse
  <1>1. TypeOK /\ Bookkeeping /\ OnCourse
    BY DEF IInv, Bookkeeping
  <1>2. CASE Visit
    <2>1. UNCHANGED <<system, limit>>
      BY <1>2 DEF Visit, TooDeep, Lstat, Readlink, Opendir, Open, Chdir, List, VisitKid, Back
    <2>2. Undisturbed
      BY <2>1 DEF Undisturbed, MayList, system
    <2>3. Quiet
      BY <1>1, <2>2 DEF Quiet
    <2> QED
      BY <1>2, <2>3, TooDeepCourse, LstatCourse, ReadlinkCourse, OpendirCourse, OpenCourse,
         ChdirCourse, ListCourse, VisitKidCourse, BackCourse DEF Visit
  <1>3. CASE \E d \in Dir : Chmod(d) \/ \E x \in Name : Change(d, x)
    <2>1. changes' = changes + 1
      BY <1>3 DEF Chmod, Change
    <2>2. changes' # 0
      BY <1>1, <2>1 DEF TypeOK
    <2> QED
      BY <2>2 DEF Undisturbed
  <1>4. CASE UNCHANGED vars
    <2>1. UNCHANGED <<entry, perm, option, stack, cwd, error, crashed, out, changes, limit>>
      BY <1>4 DEF vars, system
    <2>2. Undisturbed
      BY <2>1 DEF Undisturbed, MayList
    <2>3. \A i \in 1..Len(stack) :
             RestOf(i)' = RestOf(i) /\ FateOf(i)' = FateOf(i) /\ GoodOf(i)' = GoodOf(i)
      <3>1. ASSUME NEW i \in 1..Len(stack)
            PROVE  RestOf(i)' = RestOf(i) /\ FateOf(i)' = FateOf(i) /\ GoodOf(i)' = GoodOf(i)
        <4>1. stack'[i] = stack[i] /\ From(i)' = From(i) /\ Len(stack') - i = Len(stack) - i
          BY <2>1 DEF From
        <4> QED
          BY <2>1, <4>1, Moved
      <3> QED
        BY <3>1
    <2>4. Owed' = Owed
      <3>1. Owed = FlattenSeq([i \in 1..Len(stack) |-> RestOf(i)])
        BY DEF Owed, RestOf
      <3>2. Owed' = FlattenSeq([i \in 1..Len(stack) |-> RestOf(i)'])
        BY <2>1 DEF Owed, RestOf
      <3>3. [i \in 1..Len(stack) |-> RestOf(i)'] = [i \in 1..Len(stack) |-> RestOf(i)]
        BY <2>3
      <3> QED
        BY <3>1, <3>2, <3>3
    <2>5. Listing' = Listing /\ Failing' = Failing /\ Heights(entry)' = Heights(entry)
      BY <2>1, Frozen
    <2>6. /\ ~crashed /\ Heights(entry) # {} /\ out \o Owed = Listing
          /\ \A i \in 1..Len(stack) : GoodOf(i)
          /\ At("list") => cwd = Target(From(1), call.name)
          /\ (error \/ \E i \in 1..Len(stack) : FateOf(i)) <=> Failing
      BY <1>1, <2>2 DEF OnCourse, GoodOf, FateOf
    <2>7. At("list")' => cwd' = (Target(From(1), call.name))'
      BY <2>1, <2>6 DEF At, call, Target, From
    <2> QED
      BY <2>1, <2>3, <2>4, <2>5, <2>6, <2>7 DEF OnCourse, GoodOf, FateOf
  <1> QED
    BY <1>2, <1>3, <1>4 DEF Next

\* In every state there is a descriptor for every directory tree is inside, what each
\* call saved is where it was made, and, while nobody interferes, what was printed and
\* what the calls have still to print is the listing (tree.c 319-403).
THEOREM Invariant == Spec => []IInv
  <1>1. Init => IInv
    BY InitBooks, InitCourse DEF IInv
  <1>2. IInv /\ [Next]_vars => IInv'
    BY StepBooks, StepCourse DEF IInv
  <1> QED
    BY <1>1, <1>2, PTL DEF Spec

\* Whatever others do, tree looks names up in the directory whose listing they come
\* from and ends where it began with every descriptor closed, unless an fchdir has
\* failed because somebody took a permission away (tree.c 371-403).
THEOREM ComesBack == Spec => []InPlace
  <1>1. IInv => InPlace
    <2> SUFFICES ASSUME IInv PROVE InPlace
      OBVIOUS
    <2>0. Bookkeeping
      BY DEF IInv
    <2>1. strayed => changes > 0
      BY <2>0 DEF Bookkeeping, Unhindered
    <2>2. Finished => fds = 0 /\ (strayed \/ cwd = Root)
      BY <2>0 DEF Bookkeeping, Counted, Placed, Finished
    <2>3. ASSUME ~strayed, NEW where \in {"lstat", "readlink", "opendir", "open", "chdir"},
                 At(where), Len(stack) > 1
          PROVE  cwd = stack[2].here
      <3>1. cwd = From(1)
        BY <2>0, <2>3, Here DEF At
      <3> QED
        BY <2>3, <3>1 DEF From
    <2> QED
      BY <2>1, <2>2, <2>3 DEF InPlace
  <1> QED
    BY <1>1, Invariant, PTL

\* With enough descriptors, nobody around and a first directory that may be listed,
\* the walk by chdir and fchdir prints what the recursion over the directories lists,
\* to the depth that was asked for, never gives readdir a NULL, and fails if and only
\* if something in the tree could not be listed or entered (tree.c 319-403), for every
\* file system.
THEOREM Lists == Spec => []AsListed
  <1>1. IInv => AsListed
    <2> SUFFICES ASSUME IInv, Undisturbed PROVE ~crashed /\ (stack = <<>> => out = Listing /\ error = Failing)
      BY DEF AsListed
    <2>1. /\ TypeOK /\ ~crashed /\ out \o Owed = Listing
          /\ (error \/ \E i \in 1..Len(stack) : FateOf(i)) <=> Failing
      BY DEF IInv, Bookkeeping, OnCourse, FateOf
    <2>2. ASSUME stack = <<>> PROVE out = Listing /\ error = Failing
      <3>1. Len(stack) = 0 /\ 1..Len(stack) = {}
        BY <2>2
      <3>2. Owed = <<>>
        BY <3>1 DEF Owed, FlattenSeq
      <3>3. out \in Lines /\ error \in BOOLEAN
        BY <2>1 DEF TypeOK, Lines, Names
      <3>4. out = Listing
        BY <2>1, <3>2, <3>3, ConcatEmptySeq DEF Lines
      <3>5. error = Failing
        <4>1. error <=> Failing
          BY <2>1, <3>1
        <4>2. Failing \in BOOLEAN
          BY Zenon DEF Failing
        <4> QED
          BY <3>3, <4>1, <4>2
      <3> QED
        BY <3>4, <3>5
    <2> QED
      BY <2>1, <2>2
  <1> QED
    BY <1>1, Invariant, PTL

=============================================================================
