---------------------------------- MODULE Lzw ----------------------------------
(******************************************************************************)
(* LZW (Files/lzw.c): "lzw -c" reads a file and writes its codes, packed two  *)
(* to three bytes; "lzw -x" unpacks them and writes the text again.  Each     *)
(* builds its own dictionary, the decoder one step behind the encoder.        *)
(*                                                                            *)
(* D is 16 in the code: a code has three digits to the base D, a byte two.    *)
(* Strings are C strings: sequences of bytes other than 0, and appending a    *)
(* 0 changes nothing.  A dictionary is the map that Dict implements.          *)
(******************************************************************************)
EXTENDS Integers, Sequences, FiniteSets, SequencesExt

CONSTANTS
    D,          \* the base of a digit (16)
    FirstCode,  \* the first code that is not a character's (0x80)
    Inputs      \* files: sequences of bytes

Byte == 0..D * D - 1

ASSUME LzwAssumption ==
    /\ D \in Nat /\ D > 1
    /\ FirstCode \in Byte \ {0}
    /\ Inputs \subseteq Seq(Byte)

VARIABLES
    pc,             \* "open", "encode", "pack", "unpack", "decode", "done", or
                    \* "crash": NULL was dereferenced
    input,          \* the source file of -c
    pos,            \* the next byte of input, or the next of codes when decoding
    prev, dict, next_code, codes,       \* of the encoder
    file,           \* the packed file
    unpacked, prev_str, strings, next,  \* codes, prev, dct and next of the decoder
    output          \* the destination file of -x

encoder == <<prev, dict, next_code, codes>>
decoder == <<unpacked, prev_str, strings, next, output>>
vars == <<pc, input, pos, encoder, file, decoder>>

\* A string of one char, and a string with one more; '\0' ends a string.
Str(b) == IF b = 0 THEN <<>> ELSE <<b>>
Concat(s, b) == s \o Str(b)
FirstOf(s) == IF s = <<>> THEN 0 ELSE s[1]

\* dctinsert: the dictionary d with v at the key k.
Insert(d, k, v) == [x \in DOMAIN d \cup {k} |-> IF x = k THEN v ELSE d[x]]

\* code & 0x0FFF.
MAX_CODE == D * D * D - 1
Masked(code) == code % (MAX_CODE + 1)

\* The characters that have a code of their own.
Singles == 0..FirstCode - 1

TypeOK ==
    /\ pc \in {"open", "encode", "pack", "unpack", "decode", "done", "crash"}
    /\ input \in Inputs
    /\ pos \in 1..Len(input) + 1
    /\ prev \in Seq(Byte \ {0})
    /\ \A s \in DOMAIN dict : s \in Seq(Byte \ {0}) /\ dict[s] \in 0..next_code - 1
    /\ next_code \in Nat
    /\ codes \in Seq(0..next_code - 1)
    /\ file \in Seq(Byte)
    /\ unpacked \in Seq(0..MAX_CODE)
    /\ prev_str \in Seq(Byte \ {0})
    /\ \A c \in DOMAIN strings : c \in 0..MAX_CODE /\ strings[c] \in Seq(Byte \ {0})
    /\ next \in Nat
    /\ output \in Seq(Byte \ {0})

\* initialize_dict and initialize_decode_dict.
Init ==
    /\ pc = "open"
    /\ input \in Inputs
    /\ pos = 1
    /\ prev = <<>>
    /\ dict = [s \in {Str(b) : b \in Singles} |-> FirstOf(s)]
    /\ next_code = FirstCode
    /\ codes = <<>>
    /\ file = <<>>
    /\ unpacked = <<>>
    /\ prev_str = <<>>
    /\ strings = [c \in Singles |-> Str(c)]
    /\ next = FirstCode
    /\ output = <<>>

-----------------------------------------------------------------------------
(* Packing.                                                                *)

PackedPair(first, second) ==
    <<first \div D, (first % D) * D + second \div (D * D), second % (D * D)>>
PackedLast(first) == <<first \div D, (first % D) * D>>

\* The bytes that the i-th call of fwrite writes.
Written(cs, i) ==
    IF 2 * i <= Len(cs) THEN PackedPair(Masked(cs[2 * i - 1]), Masked(cs[2 * i]))
                        ELSE PackedLast(Masked(cs[2 * i - 1]))

\* Mutant: an odd code is forgotten.
PackEven(cs) ==
    [k \in 1..3 * (Len(cs) \div 2) |-> Written(cs, (k + 2) \div 3)[((k + 2) % 3) + 1]]

\* Three bytes for two codes, and two for the last of an odd number.
Pack(cs) ==
    [k \in 1..(3 * Len(cs) + 1) \div 2 |-> Written(cs, (k + 2) \div 3)[((k + 2) % 3) + 1]]

FirstCodeOf(b, i) == b[i] * D + b[i + 1] \div D

\* Mutant: the mask of the middle byte is missing.
SecondCodeWide(b, i) == b[i + 1] * D * D + b[i + 2]

SecondCodeOf(b, i) == (b[i + 1] % D) * D * D + b[i + 2]

Unpack(b) ==
    LET three == Len(b) \div 3
        pairs == [i \in 1..2 * three |->
                    IF i % 2 = 1 THEN FirstCodeOf(b, 3 * (i \div 2) + 1)
                                 ELSE SecondCodeOf(b, 3 * (i \div 2) - 2)]
    IN IF Len(b) % 3 = 2 THEN Append(pairs, FirstCodeOf(b, 3 * three + 1)) ELSE pairs

-----------------------------------------------------------------------------
(* lzw -c.                                                                 *)

ReadFirst ==
    /\ pc = "open"
    /\ IF input = <<>>
       THEN pc' = "pack" /\ UNCHANGED <<pos, prev>>
       ELSE /\ pc' = "encode"
            /\ prev' = Str(input[1])
            /\ pos' = 2
    /\ UNCHANGED <<input, dict, next_code, codes, file, decoder>>

\* prev and the next byte are a known string.
Extend ==
    /\ pc = "encode" /\ pos <= Len(input)
    /\ Concat(prev, input[pos]) \in DOMAIN dict
    /\ prev' = Concat(prev, input[pos])
    /\ pos' = pos + 1
    /\ UNCHANGED <<pc, input, dict, next_code, codes, file, decoder>>

\* Mutant: the byte that ended the string is not the first of the next.
EmitLosesByte ==
    /\ pc = "encode" /\ pos <= Len(input)
    /\ Concat(prev, input[pos]) \notin DOMAIN dict
    /\ prev \in DOMAIN dict
    /\ codes' = Append(codes, dict[prev])
    /\ dict' = Insert(dict, Concat(prev, input[pos]), next_code)
    /\ next_code' = next_code + 1
    /\ prev' = <<>>
    /\ pos' = pos + 1
    /\ UNCHANGED <<pc, input, file, decoder>>

\* They are not: the code of prev is kept, the longer string gets a code.
Emit ==
    /\ pc = "encode" /\ pos <= Len(input)
    /\ Concat(prev, input[pos]) \notin DOMAIN dict
    /\ prev \in DOMAIN dict
    /\ codes' = Append(codes, dict[prev])
    /\ dict' = Insert(dict, Concat(prev, input[pos]), next_code)
    /\ next_code' = next_code + 1
    /\ prev' = Str(input[pos])
    /\ pos' = pos + 1
    /\ UNCHANGED <<pc, input, file, decoder>>

EmitLast ==
    /\ pc = "encode" /\ pos > Len(input)
    /\ prev \in DOMAIN dict
    /\ codes' = Append(codes, dict[prev])
    /\ pc' = "pack"
    /\ UNCHANGED <<input, pos, prev, dict, next_code, file, decoder>>

\* *curr_code or *prev_code, where dctget returned NULL.
Crash ==
    /\ pc = "encode"
    /\ prev \notin DOMAIN dict
    /\ pos <= Len(input) => Concat(prev, input[pos]) \notin DOMAIN dict
    /\ pc' = "crash"
    /\ UNCHANGED <<input, pos, encoder, file, decoder>>

WriteFile ==
    /\ pc = "pack"
    /\ file' = Pack(codes)
    /\ pc' = "unpack"
    /\ UNCHANGED <<input, pos, encoder, decoder>>

-----------------------------------------------------------------------------
(* lzw -x, on the file that was written.                                   *)

\* The first code is a character's.
DecodeFirst ==
    LET cs == Unpack(file) IN
    /\ pc = "unpack"
    /\ unpacked' = cs
    /\ pos' = 1
    /\ IF cs = <<>>
       THEN pc' = "done" /\ UNCHANGED <<prev_str, output>>
       ELSE /\ pc' = "decode"
            /\ prev_str' = strings[cs[1]]
            /\ output' = strings[cs[1]]
    /\ UNCHANGED <<input, encoder, file, strings, next>>

\* Mutant: a code that is not known yet stands for the previous string.
ValueShort(code) == IF code \in DOMAIN strings THEN strings[code] ELSE prev_str

\* The string of a code; the one code that may be unknown is the next one, whose
\* string begins with prev and ends with prev's first character.
Value(code) ==
    IF code \in DOMAIN strings THEN strings[code] ELSE Concat(prev_str, FirstOf(prev_str))

\* Mutant: the new string ends with the character that ends the value.
DecodeLate ==
    /\ pc = "decode" /\ pos < Len(unpacked)
    /\ LET val == Value(unpacked[pos + 1]) IN
          /\ output' = output \o val
          /\ strings' = Insert(strings, Masked(next), Concat(prev_str, FirstOf(Reverse(val))))
          /\ prev_str' = val
    /\ next' = next + 1
    /\ pos' = pos + 1
    /\ UNCHANGED <<pc, input, encoder, file, unpacked>>

Decode ==
    /\ pc = "decode" /\ pos < Len(unpacked)
    /\ LET val == Value(unpacked[pos + 1]) IN
          /\ output' = output \o val
          /\ strings' = Insert(strings, Masked(next), Concat(prev_str, FirstOf(val)))
          /\ prev_str' = val
    /\ next' = next + 1
    /\ pos' = pos + 1
    /\ UNCHANGED <<pc, input, encoder, file, unpacked>>

DecodeDone ==
    /\ pc = "decode" /\ pos = Len(unpacked)
    /\ pc' = "done"
    /\ UNCHANGED <<input, pos, encoder, file, decoder>>

Next == \/ ReadFirst \/ Extend \/ Emit \/ EmitLast \/ Crash \/ WriteFile
        \/ DecodeFirst \/ Decode \/ DecodeDone

Spec == Init /\ [][Next]_vars

-----------------------------------------------------------------------------
(* Properties.                                                             *)

\* The first k bytes of the file without the bytes 0, which no string holds.
Heard ==
    LET heard[k \in 0..Len(input)] ==
            IF k = 0 THEN <<>>
            ELSE IF input[k] = 0 THEN heard[k - 1] ELSE Append(heard[k - 1], input[k])
    IN heard

Text == Heard[Len(input)]

\* Every character has a code.  (Another one may be given a code, if only bytes 0
\* are before it, but the decoder does not know its string.)
Ascii == \A i \in DOMAIN input : input[i] < FirstCode

\* No code is longer than three digits.
Fits == next_code <= MAX_CODE + 1

\* On an ASCII file -c does not fail; and as long as there are codes enough, what
\* -x writes is what -c read, without its bytes 0.
RoundTrip == Ascii => pc # "crash" /\ (pc = "done" /\ Fits => output = Text)

\* While it decodes, the decoder has written the beginning of the text, and its
\* dictionary is the encoder's, up to the entry it adds next: every code has the
\* string that the encoder gave it.
InStep ==
    Ascii /\ Fits /\ pc = "decode" =>
        /\ IsPrefix(output, Text)
        /\ DOMAIN strings = 0..next - 1
        /\ \A c \in DOMAIN strings : strings[c] \in DOMAIN dict /\ dict[strings[c]] = c

\* Of each code that -c packed, -x unpacks the low three digits: none is lost and
\* none comes to be, whether their number is odd or even.
LowDigitsKept ==
    pc \in {"decode", "done"} => unpacked = [k \in 1..Len(codes) |-> Masked(codes[k])]

\* The codes that -x unpacks are the codes that -c packed (lzw.h: "packs codes
\* into bytes", "unpacked bytes into int codes").
CodesKept == pc \in {"decode", "done"} => unpacked = codes

-----------------------------------------------------------------------------
(* Why these hold.                                                         *)

\* The string of a code in a dictionary, and the text of the first codes of cs.
StringIn(d, c) == CHOOSE s \in DOMAIN d : d[s] = c
SaidIn(d, cs) ==
    LET said[k \in 0..Len(cs)] == IF k = 0 THEN <<>> ELSE said[k - 1] \o StringIn(d, cs[k])
    IN said

Coded(c) == StringIn(dict, c)
Said == SaidIn(dict, codes)

Encoded == pc \in {"pack", "unpack", "decode", "done"}
Decoding == pc \in {"decode", "done"} /\ codes # <<>>

\* Every code below next_code has one string, and a character its own.
Numbered ==
    /\ \A s, t \in DOMAIN dict : dict[s] = dict[t] => s = t
    /\ \A c \in 0..next_code - 1 : \E s \in DOMAIN dict : dict[s] = c
    /\ \A b \in Singles : Str(b) \in DOMAIN dict /\ dict[Str(b)] = b

\* Every code but the last comes with a new string; none is used before its string
\* is in the dictionary.
Counted ==
    /\ Len(codes) = (next_code - FirstCode) + (IF Encoded /\ input # <<>> THEN 1 ELSE 0)
    /\ \A k \in 1..Len(codes) : codes[k] <= FirstCode + k - 2
    /\ Len(codes) <= Len(input)
    /\ pc = "open" => pos = 1 /\ codes = <<>>
    /\ pc = "encode" => Len(codes) <= pos - 2

\* The decoder begins with the characters and with what was packed.
Handed ==
    /\ ~Decoding => strings = [c \in Singles |-> Str(c)] /\ next = FirstCode /\ output = <<>>
    /\ pc = "unpack" => file = Pack(codes)
    /\ LowDigitsKept
    /\ pc = "decode" => codes # <<>>
    /\ Decoding => pos <= Len(codes) /\ (pc = "done" => pos = Len(codes))

\* What has been encoded is what has been read, and each new string is that of the
\* code it came with and the first character of the next code's.
Grown ==
    Ascii =>
        /\ pc # "crash"
        /\ pc = "encode" => /\ prev \in DOMAIN dict
                            /\ codes # <<>> => prev # <<>>
                            /\ Said[Len(codes)] \o prev = Heard[pos - 1]
        /\ Encoded => Said[Len(codes)] = Text
        /\ \A k \in 1..next_code - FirstCode :
              /\ Coded(codes[k]) # <<>>
              /\ Coded(FirstCode + k - 1) =
                    Concat(Coded(codes[k]), FirstOf(IF k < Len(codes) THEN Coded(codes[k + 1]) ELSE prev))

\* The decoder knows the strings that came with the codes before the last one.
Followed ==
    Ascii /\ Fits /\ Decoding =>
        /\ next = FirstCode + pos - 1
        /\ DOMAIN strings = 0..next - 1
        /\ \A c \in DOMAIN strings : strings[c] = Coded(c)
        /\ prev_str = Coded(codes[pos])
        /\ output = Said[pos]

IInv == TypeOK /\ Numbered /\ Counted /\ Handed /\ Grown /\ Followed

=============================================================================
