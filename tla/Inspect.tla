------------------------------- MODULE Inspect -------------------------------
(***************************************************************************)
(* The algorithms of the WAF that scan a text once and decide: JSON depth,  *)
(* parameter pollution and payload density (src/waf/structure.rs) and the   *)
(* percent-decoding of URLs (src/waf/path.rs).  The state is a text that    *)
(* grows character by character, so that every text over the alphabets is   *)
(* reached; each algorithm is compared with a definition that does not scan.*)
(* Characters are code points.                                              *)
(***************************************************************************)
EXTENDS Integers, Sequences, FiniteSets, SequencesExt

CONSTANTS
  Alphabets,   \* sets of characters a text may be made of
  Ordinary,    \* characters beyond Latin-1 that are alphanumeric or whitespace
  MaxLen,      \* the longest text (a bound of the model)
  MaxDepth     \* max_depth, 10 in waf::body

ASSUME InspectAssumption ==
  /\ \A a \in Alphabets : a \subseteq Nat
  /\ {MaxLen, MaxDepth} \subseteq Nat

VARIABLES alphabet, input
vars == <<alphabet, input>>

Percent == 37
Plus == 43
And == 38
Equals == 61
Opening == {123, 91}
Closing == {125, 93}

(* is_alphanumeric and is_whitespace, up to the end of Latin-1 (external). *)
Alphanumeric ==
  (48..57) \cup (65..90) \cup (97..122) \cup {170, 178, 179, 181, 185, 186, 188, 189, 190}
    \cup (192..255 \ {215, 247})
Whitespace == (9..13) \cup {32, 133, 160}

Init == alphabet \in Alphabets /\ input = <<>>
Next ==
  /\ Len(input) < MaxLen
  /\ \E ch \in alphabet : input' = Append(input, ch)
  /\ UNCHANGED alphabet
Spec == Init /\ [][Next]_vars

-----------------------------------------------------------------------------
(* Mutant: a closing bracket too many makes up for a later opening one. *)
Deeper_signed(depth, ch) ==
  CASE ch \in Opening -> depth + 1
    [] ch \in Closing -> depth - 1
    [] OTHER -> depth

(* The depth after a character; a closing bracket too many is ignored. *)
Deeper(depth, ch) ==
  CASE ch \in Opening -> depth + 1
    [] ch \in Closing /\ depth > 0 -> depth - 1
    [] OTHER -> depth

(* current_depth after each character; once it is too great the scan is over. *)
scan(depth, ch) == IF depth > MaxDepth THEN depth ELSE Deeper(depth, ch)
depths(text) ==
  LET depth[n \in 0..Len(text)] == IF n = 0 THEN 0 ELSE scan(depth[n - 1], text[n])
  IN  depth

check_json_depth(text) == depths(text)[Len(text)] <= MaxDepth

(* str::split: the pieces between the separators, after each character. *)
cut(pieces, ch, sep) ==
  IF ch = sep THEN Append(pieces, <<>>)
  ELSE [pieces EXCEPT ![Len(pieces)] = Append(pieces[Len(pieces)], ch)]
cuts(text, sep) ==
  LET pieces[k \in 0..Len(text)] ==
        IF k = 0 THEN << <<>> >> ELSE cut(pieces[k - 1], text[k], sep)
  IN  pieces
split(text, sep) == cuts(text, sep)[Len(text)]

(* Mutant: whole pairs are compared, not their keys. *)
key_whole(pair) == pair

key(pair) == split(pair, Equals)[1]

(* The keys in seen_keys after each pair; an empty key is passed over. *)
seen_keys(pairs) ==
  LET set[k \in 0..Len(pairs)] ==
        IF k = 0 THEN {} ELSE set[k - 1] \cup ({key(pairs[k])} \ {<<>>})
  IN  set

(* The loop returns at the first pair whose key insert finds in the set. *)
has_parameter_pollution(text) ==
  LET pairs == split(text, And)
      keys == seen_keys(pairs)
  IN  \E k \in DOMAIN pairs : key(pairs[k]) \in keys[k - 1]

(* char::len_utf8 *)
width(ch) ==
  IF ch < 128 THEN 1 ELSE IF ch < 2048 THEN 2 ELSE IF ch < 65536 THEN 3 ELSE 4

(* String::len: the bytes of UTF-8 up to each character. *)
lengths(text) ==
  LET sum[n \in 0..Len(text)] == IF n = 0 THEN 0 ELSE sum[n - 1] + width(text[n])
  IN  sum

special(ch) == ch \notin Alphanumeric \cup Whitespace \cup Ordinary

(* Mutant: characters are counted against characters. *)
is_high_density_chars(text) ==
  5 * Cardinality({i \in DOMAIN text : special(text[i])}) > 2 * Len(text)

(* is_high_density with the threshold 0.4 = 2/5; false for an empty text. *)
is_high_density(text) ==
  5 * Cardinality({i \in DOMAIN text : special(text[i])}) > 2 * lengths(text)[Len(text)]

-----------------------------------------------------------------------------
(* The value of a hexadecimal digit, 16 if it is none. *)
Digit(ch) ==
  CASE ch \in 48..57 -> ch - 48
    [] ch \in 65..70 -> ch - 55
    [] ch \in 97..102 -> ch - 87
    [] OTHER -> 16

(* u8::from_str_radix(hex, 16) for at most two characters: a sign is allowed. *)
Unsigned(hex) == IF hex # <<>> /\ hex[1] = Plus THEN Tail(hex) ELSE hex
Parses(hex) == Unsigned(hex) # <<>> /\ \A ch \in ToSet(Unsigned(hex)) : Digit(ch) < 16
from_str_radix(hex) ==
  LET u == Unsigned(hex)
  IN  IF Len(u) = 1 THEN Digit(u[1]) ELSE 16 * Digit(u[1]) + Digit(u[2])

(* Mutant: the percent sign of an invalid escape is dropped. *)
decode_dropping(hex) == IF Parses(hex) THEN <<from_str_radix(hex)>> ELSE hex

(* Mutant: the digits are read in the wrong order. *)
decode_swapped(hex) ==
  IF Parses(hex) THEN <<from_str_radix(Reverse(hex))>> ELSE <<Percent>> \o hex

(* What an escape becomes, given the characters after its percent sign. *)
decode(hex) == IF Parses(hex) THEN <<from_str_radix(hex)>> ELSE <<Percent>> \o hex

(* An escape takes the next two characters, or what is left. *)
taken(text, i) == SubSeq(text, i + 1, IF i + 2 <= Len(text) THEN i + 2 ELSE Len(text))

(* What the text from each position on becomes. *)
decoded(text) ==
  LET from[i \in 1..Len(text) + 1] ==
        IF i > Len(text) THEN <<>>
        ELSE IF text[i] # Percent THEN <<text[i]>> \o from[i + 1]
        ELSE decode(taken(text, i)) \o from[i + 1 + Len(taken(text, i))]
  IN  from

normalize_url(text) == decoded(text)[1]

-----------------------------------------------------------------------------
Here == DOMAIN input
Count(S, i, j) == Cardinality({k \in i..j : input[k] \in S})

(***************************************************************************)
(* A text is refused for its depth exactly if somewhere in it more than     *)
(* max_depth brackets are opened than closed, wherever that stretch begins: *)
(* neither closing brackets in front of it nor the early end of the scan    *)
(* change the verdict (structure.rs: check_json_depth).                     *)
(***************************************************************************)
JsonDepthExact ==
  check_json_depth(input) <=>
    \A i, j \in Here : Count(Opening, i, j) <= Count(Closing, i, j) + MaxDepth

(* The key that begins at position i: up to the first separator after it. *)
KeyAt(i) ==
  SubSeq(input, i, Cardinality({j \in Here : \A k \in 1..j : k < i \/ input[k] \notin {And, Equals}}))
PairStarts == {i \in Here : i = 1 \/ input[i - 1] = And}

(***************************************************************************)
(* Parameter pollution is exactly a key that two pairs share: keys without  *)
(* a value count, empty keys do not, and values that look like keys do not  *)
(* either (structure.rs: has_parameter_pollution).                          *)
(***************************************************************************)
PollutionExact ==
  has_parameter_pollution(input) <=>
    \E i, j \in PairStarts : i < j /\ KeyAt(i) # <<>> /\ KeyAt(i) = KeyAt(j)

Hex(i) == i \in Here /\ Digit(input[i]) < 16
Escape(i) == input[i] = Percent /\ Hex(i + 1) /\ Hex(i + 2)
(* The positions that yield a character of their own. *)
Heads == {i \in Here : \A k \in {i - 1, i - 2} \cap Here : input[k] # Percent}

(***************************************************************************)
(* A text in which every percent sign begins a proper escape is decoded as  *)
(* RFC 3986 says, one character for each escape, the others as they are     *)
(* (path.rs: normalize_url).                                                *)
(***************************************************************************)
DecodeExact ==
  (\A i \in Here : input[i] = Percent => Escape(i)) =>
    LET out == normalize_url(input) IN
    /\ Len(out) = Cardinality(Heads)
    /\ \A i \in Heads :
         out[Cardinality(Heads \cap 1..i)] =
           IF input[i] = Percent THEN 16 * Digit(input[i + 1]) + Digit(input[i + 2])
           ELSE input[i]

(* A percent sign followed by one or two digits, or by a sign and a digit. *)
Decodable(i) ==
  \/ Hex(i + 1) /\ (i + 2 \in Here => Hex(i + 2))
  \/ i + 1 \in Here /\ input[i + 1] = Plus /\ Hex(i + 2)

(***************************************************************************)
(* A text in which no percent sign begins anything that parses is left as   *)
(* it is, to the last character, also where the text ends inside an escape  *)
(* or an escape swallows the next percent sign (path.rs: normalize_url).    *)
(***************************************************************************)
GarbageKept ==
  (\A i \in Here : input[i] = Percent => ~Decodable(i)) => normalize_url(input) = input

(***************************************************************************)
(* The density of a payload is one of characters, "the ratio of special     *)
(* characters", although characters are counted against bytes: no text is   *)
(* refused whose special characters are two fifths of it or fewer, and in   *)
(* ASCII every text with more is.  Elsewhere bytes tell: special characters *)
(* beyond U+07FF weigh three bytes each and are never too many, however     *)
(* dense they stand (structure.rs: is_high_density).                        *)
(***************************************************************************)
DensityOfCharacters ==
  LET Specials == {i \in Here : special(input[i])}
      dense == 5 * Cardinality(Specials) > 2 * Len(input)
  IN  /\ is_high_density(input) => dense
      /\ (\A i \in Here : input[i] < 128) => (dense => is_high_density(input))
      /\ (\A i \in Specials : input[i] > 2047) => ~is_high_density(input)
=============================================================================
