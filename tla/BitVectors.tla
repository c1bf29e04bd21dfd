----------------------------- MODULE BitVectors -----------------------------
(***************************************************************************)
(* The bit vectors of the replay windows (libsrtp/crypto/math/             *)
(* datatypes.c): v128_t and bitvector_t are arrays of words, shifted in    *)
(* place word by word.  A word is the set of its bits that are set.        *)
(* ReplayDb uses the shift as one shift of a set of bits; this module      *)
(* checks that the loops over words amount to that.                        *)
(***************************************************************************)
EXTENDS Integers, SequencesExt

CONSTANTS BITS,         \* bits of a word (32)
          V128_WORDS,   \* words of a v128_t (4)
          Lengths       \* lengths given to bitvector_alloc

VARIABLES vec,          \* the vector: [kind, length, word]
          asked,        \* the length bitvector_alloc was given
          bits          \* the set of bits that should be set

vars == <<vec, asked, bits>>

Bit == 0..(BITS - 1)

RightBy(w, k) == {b - k : b \in {c \in w : c >= k}}

LeftBy(w, k) == {b + k : b \in {c \in w : c + k < BITS}}

(* A for loop from lo up to (hi - 1), or from hi down to (lo + 1), whose   *)
(* body reads and writes the same array.                                   *)
Ascending(word, lo, hi, Body(_, _)) ==
    FoldLeft(Body, word, [k \in 1..(IF hi > lo THEN hi - lo ELSE 0) |-> lo + k - 1])

Descending(word, hi, lo, Body(_, _)) ==
    FoldLeft(Body, word, [k \in 1..(IF hi > lo THEN hi - lo ELSE 0) |-> hi - k + 1])

Zero(n) == [i \in 0..(n - 1) |-> {}]

(* The part that v128_left_shift and bitvector_left_shift share: n words   *)
(* moved down by base words and bit bits.                                  *)
LeftWords(word, n, shift) ==
    LET base == shift \div BITS
        bit == shift % BITS
        Whole(w, i) == [w EXCEPT ![i] = w[i + base]]
        Split(w, i) == [w EXCEPT ![i] = SymDiff(RightBy(w[i + base], bit),
                                                LeftBy(w[i + base + 1], BITS - bit))]
        Clear(w, i) == [w EXCEPT ![i] = {}]
        moved == IF bit = 0
                 THEN Ascending(word, 0, n - base, Whole)
                 ELSE LET w == Ascending(word, 0, n - base - 1, Split)
                      IN [w EXCEPT ![n - base - 1] = RightBy(w[n - 1], bit)]
    IN Ascending(moved, n - base, n, Clear)

v128_left_shift(word, shift) ==
    IF shift > BITS * V128_WORDS - 1
    THEN Zero(V128_WORDS)
    ELSE LeftWords(word, V128_WORDS, shift)

v128_right_shift(word, shift) ==
    LET n == V128_WORDS
        base == shift \div BITS
        bit == shift % BITS
        Whole(w, i) == [w EXCEPT ![i - 1] = w[i - 1 - base]]
        Split(w, i) ==
            LET from == i - 1 - base
            IN [w EXCEPT ![i - 1] = LeftBy(w[from], bit)
                            \cup IF from > 0 THEN RightBy(w[from - 1], BITS - bit) ELSE {}]
        Clear(w, i) == [w EXCEPT ![i] = {}]
        moved == IF bit = 0
                 THEN Descending([word EXCEPT ![n - 1] = word[n - 1 - base]], n - 1, base, Whole)
                 ELSE Descending(word, n, base, Split)
    IN IF shift > BITS * n - 1 THEN Zero(n) ELSE Ascending(moved, 0, base, Clear)

bitvector_left_shift(v, shift) ==
    IF shift >= v.length
    THEN [v EXCEPT !.word = Zero(v.length \div BITS)]
    ELSE [v EXCEPT !.word = LeftWords(v.word, v.length \div BITS, shift)]

(* bitvector_alloc with enough memory: the length is rounded up to whole   *)
(* words; a length of 0 is refused.                                        *)
bitvector_alloc(length) ==
    LET rounded == ((length + BITS - 1) \div BITS) * BITS
    IN [ok |-> rounded # 0,
        vec |-> [kind |-> "bitvector", length |-> rounded, word |-> Zero(rounded \div BITS)]]

Init ==
    /\ bits = {}
    /\ \/ /\ asked = BITS * V128_WORDS
          /\ vec = [kind |-> "v128", length |-> asked, word |-> Zero(V128_WORDS)]
       \/ /\ asked \in Lengths
          /\ bitvector_alloc(asked).ok
          /\ vec = bitvector_alloc(asked).vec

(* bitvector_set_bit and v128_set_bit.                                     *)
SetBit(i) ==
    /\ i < vec.length
    /\ vec' = [vec EXCEPT !.word[i \div BITS] = @ \cup {i % BITS}]
    /\ bits' = bits \cup {i}
    /\ UNCHANGED asked

(* The rotation towards bit 0, as srtp_rdb_add_index and                   *)
(* srtp_rdbx_add_index use it.                                             *)
LeftShift(shift) ==
    /\ vec' = IF vec.kind = "v128"
              THEN [vec EXCEPT !.word = v128_left_shift(vec.word, shift)]
              ELSE bitvector_left_shift(vec, shift)
    /\ bits' = {b - shift : b \in {c \in bits : c >= shift}}
    /\ UNCHANGED asked

RightShift(shift) ==
    /\ vec.kind = "v128"
    /\ vec' = [vec EXCEPT !.word = v128_right_shift(vec.word, shift)]
    /\ bits' = {b + shift : b \in {c \in bits : c + shift < vec.length}}
    /\ UNCHANGED asked

Next ==
    \/ \E i \in 0..(vec.length - 1) : SetBit(i)
    \/ \E shift \in 0..(vec.length + 1) : LeftShift(shift)
    \/ \E shift \in 0..(vec.length + 1) : RightShift(shift)

Spec == Init /\ [][Next]_vars

----------------------------------------------------------------------------
TypeOK ==
    /\ vec.kind \in {"v128", "bitvector"}
    /\ vec.word \in [0..((vec.length \div BITS) - 1) -> SUBSET Bit]
    /\ asked \in Nat
    /\ bits \subseteq 0..(vec.length - 1)

(* The loops of the shifts move every bit by the whole distance, across    *)
(* words, bring in zeros, lose only what leaves the vector, and read no    *)
(* word after overwriting it; the vector covers the length asked for.      *)
ShiftsMoveEveryBit ==
    /\ bits = {b \in 0..(vec.length - 1) : (b % BITS) \in vec.word[b \div BITS]}
    /\ vec.length >= asked /\ vec.length < asked + BITS
=============================================================================
