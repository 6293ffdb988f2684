---------------------------- MODULE RandomVars ----------------------------
(* Random numbers of filebench (fb_random.c): fb_random64(), which places   *)
(* an I/O in a region, and random variables, from the attributes a script   *)
(* gives (parser_var_assign_random()) to the numbers drawn. Integers have   *)
(* W values; a double is a fraction, <<numerator, denominator>>. The gamma  *)
(* distribution itself is left out.                                         *)
EXTENDS Integers, Sequences, FiniteSets, SequencesExt

CONSTANTS W,         \* 2^64
          TabSize,   \* PF_TAB_SIZE
          Steps,     \* the source's numbers are k / Steps
          Regions,   \* pairs max, round passed to fb_random64()
          Scripts    \* attributes of a random variable

VARIABLES rnd,     \* the random variable, Undefined before
          last     \* the last number: a placement, or a draw from rnd once defined

vars == <<rnd, last>>

Undefined == [state |-> "undefined"]

Init == rnd = Undefined /\ last = Undefined

---------------------------------------------------------------------------
(* fb_random64(): unsigned arithmetic, then rounding down.                  *)
Random64(raw, max, round) ==
  LET room == (max - round) % W
      r == (raw * room) \div (W - 1)
  IN IF round = 0 THEN r ELSE (r \div round) * round

(* A placement does not depend on the random variable, and is followed      *)
(* before one is defined.                                                   *)
Place(raw, g) ==
  /\ rnd = Undefined
  /\ last' = [state |-> "placed", max |-> g.max, round |-> g.round,
              at |-> Random64(raw, g.max, g.round)]
  /\ UNCHANGED rnd

---------------------------------------------------------------------------
(* Random variables: the types are bits, RAND_TYPE_TABLE is both others.    *)
Or(a, b) == CASE a = b -> a [] a = 0 -> b [] b = 0 -> a [] OTHER -> 3

TableBits(s) == IF s.table # <<>> THEN 3 ELSE 0

TypeBits(s) == CASE s.type = "uniform" -> 1 [] s.type = "tabular" -> 0 [] OTHER -> 2

RndType(s) == Or(TableBits(s), TypeBits(s))

(* The mean: given, or 0; for gamma, gamma itself (left out: 0).            *)
Mean(s) == s.mean

(* Entries of the table: percent times each, without a bound.               *)
Fill(table) == FlattenSeq([i \in DOMAIN table |->
                 [k \in 1 .. table[i].percent |->
                    [base |-> table[i].min, range |-> table[i].max - table[i].min]]])

(* Twice the table's mean times TabSize, kept whole.                        *)
TableMean2(table) ==
  FoldLeft(LAMBDA acc, e : acc + ((e.min + e.max) * e.percent), 0, table)

TableMin(table) == CHOOSE m \in {table[i].min : i \in DOMAIN table} :
                     \A i \in DOMAIN table : m =< table[i].min

(* The normalised entry is (x - shift) * TabSize * 2 / scale; a constant    *)
(* table is all zeros.                                                      *)
Scale(table) == TableMean2(table) - (2 * TabSize * TableMin(table))

(* parser_var_assign_random() and randdist_init().                          *)
Define(s) ==
  /\ rnd = Undefined
  /\ IF RndType(s) = 0
     THEN rnd' = [state |-> "shutdown"]
     ELSE rnd' = [state |-> "defined", get |-> RndType(s), s |-> s,
                  table |-> Fill(s.table),
                  mean |-> IF s.table # <<>> /\ Mean(s) = 0
                           THEN <<TableMean2(s.table), 2 * TabSize>> ELSE <<Mean(s), 1>>]
  /\ last' = Undefined

(* round(x / n) * n, for a fraction that is not negative.                   *)
RoundNear(x, n) ==
  IF n = 0 THEN x ELSE <<(((2 * x[1]) + (x[2] * n)) \div (2 * x[2] * n)) * n, 1>>

(* rand_uniform_get().                                                      *)
UniformGet(k) ==
  LET m == rnd.mean IN
  <<(k * 2 * (m[1] - (rnd.s.min * m[2]))) + (rnd.s.min * Steps * m[2]), Steps * m[2]>>

(* rand_table_get(): entry number k * TabSize / Steps, and a part of it.    *)
TableIndex(k) == ((k * TabSize) \div Steps) + 1
TablePart(k) == (k * TabSize) % Steps

TableGet(k) ==
  LET e == rnd.table[TableIndex(k)]
      m == rnd.mean
      num == (((e.base - TableMin(rnd.s.table)) * Steps) + (e.range * TablePart(k)))
               * 2 * TabSize * (m[1] - (rnd.s.min * m[2]))
      den == Steps * Scale(rnd.s.table) * m[2]
  IN IF Scale(rnd.s.table) = 0 THEN <<rnd.s.min, 1>>
     ELSE <<num + (rnd.s.min * den), den>>

Defined(x) == x.state \notin {"undefined", "shutdown"}

(* A table that does not total 100 percent is reported and used: entries    *)
(* beyond the table, or never filled, are read and written. Draws from such *)
(* a table, and from a distribution whose mean is below its min, are not    *)
(* followed.                                                                *)
CanDraw ==
  /\ Defined(rnd)
  /\ rnd.get = 3 => rnd.s.table # <<>> /\ Len(rnd.table) = TabSize
  /\ rnd.get # 2
  /\ rnd.mean[1] >= rnd.s.min * rnd.mean[2]

(* The source, rnd_src: erand48() stays below one; fb_random_probability()  *)
(* may reach it, where a double of 2^64 is converted to an integer.         *)
Probability(src) == 0 .. (IF src = "rand48" THEN Steps - 1 ELSE Steps)

Draw(k) ==
  /\ CanDraw /\ k \in Probability(rnd.s.src)
  /\ rnd.get = 3 => TableIndex(k) \in DOMAIN rnd.table
  /\ last' = [state |-> "drawn", k |-> k, exact |-> IF rnd.get = 3 THEN TableGet(k) ELSE UniformGet(k),
              value |-> RoundNear(IF rnd.get = 3 THEN TableGet(k) ELSE UniformGet(k), rnd.s.round)]
  /\ UNCHANGED rnd

(* rand_table_get() with a probability of one: the entry behind the table,  *)
(* where rnd_xi and rnd_type lie, and the number is anything.               *)
DrawBehind(k) ==
  /\ CanDraw /\ k \in Probability(rnd.s.src)
  /\ rnd.get = 3 /\ TableIndex(k) \notin DOMAIN rnd.table
  /\ last' = [state |-> "behind", k |-> k]
  /\ UNCHANGED rnd

Next ==
  \/ \E raw \in 0 .. W - 1, g \in Regions : Place(raw, g)
  \/ \E s \in Scripts : Define(s)
  \/ \E k \in 0 .. Steps : Draw(k) \/ DrawBehind(k)

Spec == Init /\ [][Next]_vars

---------------------------------------------------------------------------
TypeOK ==
  /\ rnd.state \in {"undefined", "shutdown", "defined"}
  /\ last.state = "placed" => last.at \in 0 .. W - 1

(* An I/O of "round" bytes placed in a region of "max" bytes lies in the    *)
(* region and is aligned to its own size, when it is not larger than the    *)
(* region: "read/write round bytes safely" (fb_random.c:66-71).             *)
FitsRegion ==
  (last.state = "placed" /\ last.round =< last.max) =>
    /\ last.at + last.round =< last.max
    /\ last.round # 0 => last.at % last.round = 0

(* A script that gives a table draws from it, whatever type it names.       *)
TableIsUsed == Defined(rnd) => (rnd.get = 3 <=> rnd.s.table # <<>>)

(* When the script's min is the table's and it names no mean, the numbers   *)
(* drawn are those of the table: entry k lies in its segment and reaches    *)
(* the segment's share of the range; unless the source's number was one.    *)
TableFaithful ==
  /\ last.state = "behind" => last.k = Steps /\ rnd.s.src = "urandom"
  /\ (last.state = "drawn" /\ rnd.get = 3 /\ rnd.s.mean = 0 /\ rnd.s.min = TableMin(rnd.s.table)) =>
       LET e == rnd.table[TableIndex(last.k)]
       IN last.exact[1] * Steps
            = ((e.base * Steps) + (e.range * TablePart(last.k))) * last.exact[2]

(* A uniform number lies between min and twice the mean less min, and       *)
(* rounding moves it by no more than half of "round".                       *)
UniformInRange ==
  (last.state = "drawn" /\ rnd.get = 1) =>
    LET x == last.exact
        v == last.value
    IN /\ rnd.s.min * x[2] =< x[1]
       /\ x[1] =< ((2 * rnd.s.mean) - rnd.s.min) * x[2]
       /\ rnd.s.round # 0 =>
            /\ 2 * ((v[1] * x[2]) - x[1]) =< rnd.s.round * x[2]
            /\ 2 * (x[1] - (v[1] * x[2])) =< rnd.s.round * x[2]
===========================================================================
