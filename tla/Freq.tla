--------------------------------- MODULE Freq ----------------------------------
(******************************************************************************)
(* freq (Memory Management/freq.c): counts the words of a file in a           *)
(* dictionary and prints the most frequent ones.  Its counts are reached      *)
(* through the pointers that dctget returns.  The other client of the         *)
(* dictionary is any program, which makes any calls.                          *)
(******************************************************************************)
EXTENDS Dict

CONSTANTS
    Files,          \* what may be counted: the tokens between spaces
    TopSize         \* how many words are printed: 10

VARIABLES
    text, pos,      \* the tokens of the file, and how many were counted
    pc,             \* "calls" of any program; "count", "done", or "crash" of freq
    top             \* the words printed, each with its count

freqVars == <<vars, text, pos, pc, top>>

FreqInit ==
    /\ Init
    /\ text \in Files \cup {<<>>} /\ pos = 0
    /\ pc = "count" \/ (pc = "calls" /\ text = <<>>)
    /\ top = <<>>

-----------------------------------------------------------------------------

tolower(c) == IF c \in 65..90 THEN c + 32 ELSE c
isalpha(c) == c \in 65..90 \cup 97..122

\* A token without its capitals and without what is not a letter.
Clean(token) == SelectSeq([i \in 1..Len(token) |-> tolower(token[i])], isalpha)

\* Cleaned words may be keys and counts values, which for the code is any word and
\* any number.
ASSUME FreqAssumption ==
    /\ TopSize \in Nat
    /\ Files \subseteq Seq(Seq(1..127) \ {<<>>})
    /\ \A f \in Files : \A i \in 1..Len(f) : Clean(f[i]) \in Key \cup {<<>>} /\ i \in Val

\* The count of a word, NULL if it has none, as dctget finds it.
List(word) == arr[Index(word, cap)]
Known(word) == At(List(word), word) # {}

\* Mutant: the first count of the list is incremented.
IncrementFirst(word) ==
    LET h == Index(word, cap)
    IN  /\ arr' = [arr EXCEPT ![h][1].val = @ + 1]
        /\ last' = <<"insert", word, arr[h][1].val + 1>>
        /\ UNCHANGED <<cap, size>>

\* (*count)++: to the dictionary, another value.
Increment(word) ==
    LET h == Index(word, cap)
        i == FirstAt(arr[h], word)
    IN  /\ arr' = [arr EXCEPT ![h][i].val = @ + 1]
        /\ last' = <<"insert", word, arr[h][i].val + 1>>
        /\ UNCHANGED <<cap, size>>

\* Mutant: every token is counted as it stands in the file.
CountUncleaned ==
    LET word == text[pos + 1]
    IN  /\ pc = "count" /\ pos < Len(text)
        /\ pos' = pos + 1
        /\ \/ Known(word) /\ Increment(word)
           \/ ~Known(word) /\ dctinsert(word, 1)
        /\ UNCHANGED <<text, pc, top>>

Count ==
    LET word == Clean(text[pos + 1])
    IN  /\ pc = "count" /\ pos < Len(text)
        /\ pos' = pos + 1
        /\ \/ word = <<>> /\ UNCHANGED vars
           \/ word # <<>> /\ Known(word) /\ Increment(word)
           \/ word # <<>> /\ ~Known(word) /\ dctinsert(word, 1)
        /\ UNCHANGED <<text, pc, top>>

\* strcmp(a, b) < 0.
Before(a, b) ==
    \E i \in 1..Len(b) :
       /\ \A j \in 1..i - 1 : j <= Len(a) /\ a[j] = b[j]
       /\ i > Len(a) \/ a[i] < b[i]

\* compare_vals(p, q) < 0.
compare_vals(p, q) == p.val > q.val \/ (p.val = q.val /\ Before(p.key, q.key))

\* Those that come before a pair, and qsort: each pair is behind just those.
Lesser(pair) == {q \in {NodeAt(p) : p \in Nodes} : compare_vals(q, pair)}
Pairs ==
    [i \in 1..size |->
        CHOOSE pair \in {NodeAt(p) : p \in Nodes} : Cardinality(Lesser(pair)) = i - 1]

Report ==
    /\ pc = "count" /\ text # <<>> /\ pos = Len(text)
    /\ pc' = "done"
    /\ top' = SubSeq(Pairs, 1, Min({size, TopSize}))
    /\ UNCHANGED <<vars, text, pos>>

\* A file without a token: strtok is given NULL if it is empty, and finds nothing if
\* it is all space.
ReportNothing ==
    /\ pc = "count" /\ text = <<>>
    /\ pc' \in {"crash", "done"}
    /\ UNCHANGED <<vars, text, pos, top>>

FreqNext ==
    \/ pc = "calls" /\ Next /\ UNCHANGED <<text, pos, pc, top>>
    \/ Count
    \/ Report
    \/ ReportNothing

FreqSpec == FreqInit /\ [][FreqNext]_freqVars

-----------------------------------------------------------------------------

\* The words among the first k tokens, and where each is.
Words(k) == {Clean(text[i]) : i \in 1..k} \ {<<>>}
Seen(word, k) == {i \in 1..k : Clean(text[i]) = word}
Tally(k) == {[key |-> w, val |-> Cardinality(Seen(w, k))] : w \in Words(k)}

\* While freq counts, the dictionary has exactly the words read so far, each with
\* the number of times it was read, though counts are changed behind the
\* dictionary's back and nodes move when it grows.
Tallied == pc # "calls" => {NodeAt(p) : p \in Nodes} = Tally(pos)

Occurrences(word) == Cardinality(Seen(word, Len(text)))

\* What freq prints is right whatever the dictionary did meanwhile (lists that
\* collide, an array that grew between two increments): each word once with the
\* number of its occurrences in the file, the most frequent first and words of the
\* same count as strcmp orders them; and no word is missing that should come before
\* one that is printed.
TopWords ==
    LET words == Words(Len(text))
        printed == {top[i].key : i \in 1..Len(top)}
        Precedes(v, w) == \/ Occurrences(v) > Occurrences(w)
                          \/ Occurrences(v) = Occurrences(w) /\ Before(v, w)
    IN  pc = "done" =>
            /\ Len(top) = Min({Cardinality(words), TopSize})
            /\ \A i \in 1..Len(top) : top[i].key \in words /\ top[i].val = Occurrences(top[i].key)
            /\ \A i, j \in 1..Len(top) : i < j => Precedes(top[i].key, top[j].key)
            /\ \A v \in words \ printed, w \in printed : Precedes(w, v)

=============================================================================
