------------------------------- MODULE Twister -------------------------------
(***************************************************************************)
(* cvars/mtwist/: the Mersenne Twister the custom variables draw from, and *)
(* the integer and empirical distributions on top of it.  The generator's  *)
(* state lies in shared memory; the factors that turn its words into       *)
(* doubles are globals of each process.  Words have Width bits (32 in the  *)
(* code) and the state StateSize of them (624); a double has Precision     *)
(* bits (53).                                                              *)
(***************************************************************************)
EXTENDS Integers, FiniteSets, SequencesExt, Bitwise

CONSTANTS
  StateSize,    \* MT_STATE_SIZE, even
  Offset,       \* RECURRENCE_OFFSET, odd and smaller
  Width,        \* BIT_WIDTH
  Precision,    \* bits of a double
  MatrixA, MultOld, MultNew, KnuthShift, DefaultSeed,
  Temper,       \* shifts u, s, t, l and masks b, c of the tempering
  Threshold,    \* RD_UNIFORM_THRESHOLD
  Main, Worker, \* the process that seeds, saves and loads; others
  Seeds,        \* 32-bit seeds
  Fulls,        \* vectors given to mts_seedfull() or read from /dev/random
  Uniforms,     \* requests [kind, lower, upper] for integers
  Weights,      \* weights of empirical distributions
  MaxNext,      \* values drawn from one seed
  SavePoints    \* when the state is saved, in values drawn

Process == {Main} \union Worker

Word == 0 .. 2^Width - 1
Index == 0 .. StateSize - 1
Wrap(x) == x % 2^Width

VARIABLES
  gen,      \* mt_state
  scale,    \* per process: mt_32_to_double and mt_64_to_double are set
  users,    \* processes that seeded, loaded or revalidated the generator
  file,     \* what mts_savestate() wrote
  ask,      \* the request for a uniform integer being served
  last,     \* what was drawn last
  src       \* the seed vector the values come from, and the next one's number

vars == <<gen, scale, users, file, ask, last, src>>

-----------------------------------------------------------------------------
(* The recurrence, in place, from the last word of the vector to the first. *)
(* "val" carries the old value of the word at "at" from step to step.       *)

Half == 2^(Width - 1)
CombineBits(x, y) == Half * (x \div Half) + (y % Half)

MatrixMultiply(original, new) ==
  (original ^^ (new \div 2)) ^^ (IF new % 2 = 1 THEN MatrixA ELSE 0)

TwistWord(r, far) ==
  [vec |-> [r.vec EXCEPT ![r.at] = MatrixMultiply(r.vec[r.at + far], CombineBits(r.val, r.vec[r.at - 1]))],
   at |-> r.at - 1, val |-> r.vec[r.at - 1]]

Twisted(vec) ==
  LET half1 == 2 * ((StateSize - Offset) \div 2) + 1
      half2 == 2 * ((Offset - 1) \div 2)
      far == [k \in 1 .. half1 + half2 |-> IF k =< half1 THEN -Offset ELSE StateSize - Offset]
      r == FoldLeft(TwistWord, [vec |-> vec, at |-> StateSize - 1, val |-> vec[StateSize - 1]], far)
  IN [r.vec EXCEPT ![0] = MatrixMultiply(r.vec[StateSize - Offset], CombineBits(r.val, r.vec[StateSize - 1]))]

Refreshed(s) == [s EXCEPT !.vec = Twisted(s.vec), !.ptr = StateSize]

-----------------------------------------------------------------------------
(* Seeding.                                                                 *)

(* Knuth's generators, the older and the newer, fill the vector downwards.  *)
KnuthOld(seed) ==
  LET f[i \in Index] == IF i = StateSize - 1 THEN seed ELSE Wrap(MultOld * f[i + 1])
  IN f

KnuthNew(seed) ==
  LET f[i \in Index] ==
        IF i = StateSize - 1 THEN seed
        ELSE LET v == f[i + 1]
             IN Wrap(((v \div 2^KnuthShift) ^^ v) * MultNew + (StateSize - 1 - i))
  IN f

Marked(vec) == [vec |-> vec, ptr |-> StateSize, init |-> TRUE]

Seed32Vec(seed) == KnuthOld(IF seed = 0 THEN DefaultSeed ELSE seed)
Seed32(seed) == Refreshed(Marked(Seed32Vec(seed)))
Seed32New(seed) == Refreshed(Marked(KnuthNew(seed)))
SeedFull(seeds) == Marked([i \in Index |-> seeds[StateSize - 1 - i]])

(* mts_refresh(): a generator that was never seeded gets the default seed.  *)
Refresh(s) == IF s.init THEN Refreshed(s) ELSE Seed32(DefaultSeed)

(* The word mts_devseed() seeds with: the device's, if it can be opened and *)
(* read to the last byte, or else the time.                                 *)
DevWord(dev, time) == IF dev.opens /\ dev.whole THEN dev.word ELSE time

-----------------------------------------------------------------------------
(* Drawing.                                                                 *)

Shl(x, n) == Wrap(x * 2^n)

PreTemper(v) ==
  LET a == v ^^ (v \div 2^Temper.u)
      b == a ^^ (Shl(a, Temper.s) & Temper.b)
  IN b ^^ (Shl(b, Temper.t) & Temper.c)

FinalTemper(v) == v ^^ (v \div 2^Temper.l)

Tempered(v) == FinalTemper(PreTemper(v))

Took(s, words) == [s |-> s, words |-> words]

MtsLrand(s) ==
  LET r == IF s.ptr =< 0 THEN Refresh(s) ELSE s
  IN Took([r EXCEPT !.ptr = @ - 1], <<Tempered(r.vec[r.ptr - 1])>>)

(* Two words: the vector may run out before the first, or between the two.  *)
MtsLlrand(s) ==
  LET p == s.ptr - 1
      r == IF p =< 0 THEN Refresh([s EXCEPT !.ptr = p]) ELSE [s EXCEPT !.ptr = p]
      t == IF p < 0 THEN [r EXCEPT !.ptr = @ - 1] ELSE r
      first == IF p < 0 THEN r.vec[t.ptr] ELSE s.vec[p]
  IN Took([t EXCEPT !.ptr = @ - 1], <<Tempered(first), Tempered(t.vec[t.ptr - 1])>>)

(* The doubles are made of the same words.                                  *)
MtsDrand(s) == MtsLrand(s)
MtsLdrand(s) == MtsLlrand(s)

MtsDraws(s) == {MtsLrand(s), MtsLlrand(s), MtsDrand(s), MtsLdrand(s)}

(* The same four, written out once more for mt_default_state.               *)
MtDraws(s) == {MtsLrand(s), MtsLlrand(s), MtsDrand(s), MtsLdrand(s)}

-----------------------------------------------------------------------------
(* Distributions.                                                           *)

(* An integer as a double: Precision bits, to nearest, ties to even.        *)
Ulp(x) == CHOOSE q \in {2^k : k \in 0 .. 2 * Width} :
            x < q * 2^Precision /\ (q = 1 \/ 2 * x >= q * 2^Precision)
AsDouble(x) ==
  LET q == Ulp(x)
      n == x \div q
      up == 2 * (x % q) > q \/ (2 * (x % q) = q /\ n % 2 = 1)
  IN IF up THEN (n + 1) * q ELSE n * q

(* mts_ldrand() in units of 2^-64: the 64 bits may round up to 1.0.         *)
One == 2^(2 * Width)
Fraction(words) == AsDouble(words[1] * 2^Width + words[2])

(* The mask of rds_iuniform() and rds_liuniform(): both are 32 bits wide.   *)
RangeMask(range) ==
  LET over == {m \in {2^k : k \in 0 .. Width - 1} : m >= range}
  IN IF over = {} THEN 2^Width - 1 ELSE (CHOOSE m \in over : \A n \in over : m =< n) - 1

(* rd_empirical_setup(): Walker's cutoffs, in units of the total weight,    *)
(* from how far each element is above or below uniform (n times as much).   *)
(* The elements below it take from the top one of those above.              *)
RECURSIVE Adjusted(_, _)
Adjusted(a, total) ==
  IF a.low = <<>> THEN a
  ELSE LET i == Last(a.low)
           j == Last(a.high)
           left == a.cut[j] + a.cut[i]
       IN Adjusted([cut |-> [a.cut EXCEPT ![j] = left, ![i] = (i + 1) * total + @],
                    remap |-> [a.remap EXCEPT ![i] = j],
                    low |-> IF left < 0 THEN Append(Front(a.low), j) ELSE Front(a.low),
                    high |-> IF left < 0 THEN Front(a.high) ELSE a.high], total)

Sum(w) == FoldLeft(+, 0, w)

EmpiricalSetup(w) ==
  LET n == Len(w)
      slots == [k \in 1 .. n |-> k - 1]
      excess == [i \in 0 .. n - 1 |-> n * w[i + 1] - Sum(w)]
      a == Adjusted([cut |-> excess, remap |-> [i \in 0 .. n - 1 |-> i],
                     high |-> SelectSeq(slots, LAMBDA i : excess[i] >= 0),
                     low |-> SelectSeq(slots, LAMBDA i : excess[i] < 0)], Sum(w))
  IN [n |-> n, remap |-> a.remap,
      cut |-> [i \in 0 .. n - 1 |-> IF i \in ToSet(a.high) THEN (i + 1) * Sum(w) ELSE a.cut[i]]]

(* rds_int_empirical() where the scaled value is x, in the units of "cut".  *)
IntEmpirical(table, total, x) ==
  IF x < table.cut[x \div total] THEN x \div total ELSE table.remap[x \div total]

-----------------------------------------------------------------------------
NoFile == [words |-> <<>>, src |-> <<>>]
NoAsk == [kind |-> "none", lower |-> 0, upper |-> 0]
Drawn(words, at, scaled) ==
  [words |-> words, at |-> at, scaled |-> scaled, ask |-> NoAsk, val |-> 0]
Nothing == Drawn(<<>>, 0, TRUE)

(* The values of a generator that was never seeded are the default seed's.  *)
FromDefault == [base |-> Seed32Vec(DefaultSeed), next |-> StateSize]
Unseeded == [vec |-> [i \in Index |-> 0], ptr |-> 0, init |-> FALSE]

Init ==
  /\ gen = Unseeded /\ scale = [p \in Process |-> FALSE] /\ users = {}
  /\ file = NoFile /\ ask = NoAsk /\ last = Nothing /\ src = FromDefault

(* mts_mark_initialized() sets the factors of the calling process.          *)
MarksFor(p) == scale' = [scale EXCEPT ![p] = TRUE] /\ users' = users \union {p}

Idle == ask = NoAsk

Seeds32(p, g, base, next) ==
  /\ Idle
  /\ gen' = g /\ src' = [base |-> base, next |-> next] /\ last' = Nothing
  /\ MarksFor(p)
  /\ UNCHANGED <<file, ask>>

MtsSeed32(p, seed) == Seeds32(p, Seed32(seed), Seed32Vec(seed), StateSize)
MtsSeed32New(p, seed) == Seeds32(p, Seed32New(seed), KnuthNew(seed), StateSize)
MtsSeedFull(p, v) ==
  /\ \E i \in Index : v[i] # 0
  /\ Seeds32(p, SeedFull(v), SeedFull(v).vec, 0)

(* mts_seed() and mts_goodseed().                                           *)
DevWords == {DevWord(dev, time) : dev \in [opens : BOOLEAN, whole : BOOLEAN, word : Seeds], time \in Seeds}
MtsDevSeed(p) == \E word \in DevWords : MtsSeed32New(p, word)

(* mts_bestseed(): the vector is read from the device and not marked; where *)
(* that fails, as in mts_goodseed().                                        *)
MtsBestSeed(p, v) ==
  /\ Idle
  /\ gen' = [gen EXCEPT !.vec = v]
  /\ src' = IF gen.init THEN [base |-> v, next |-> StateSize - gen.ptr] ELSE FromDefault
  /\ last' = Nothing
  /\ UNCHANGED <<scale, users, file, ask>>

(* cvar_revalidate_handle() of a process that did not seed.                 *)
Revalidate(p) ==
  /\ gen.init /\ p \notin users
  /\ MarksFor(p)
  /\ UNCHANGED <<gen, file, ask, last, src>>

(* Some words are taken from the generator by p.                            *)
Takes(p, t) ==
  /\ src.next + Len(t.words) =< MaxNext
  /\ gen' = t.s
  /\ src' = [src EXCEPT !.next = @ + Len(t.words)]
  /\ IF gen.init THEN UNCHANGED <<scale, users>> ELSE MarksFor(p)
  /\ UNCHANGED file

Mine(p) == gen.init => p \in users

Draw(p) ==
  /\ Idle /\ Mine(p)
  /\ \E t \in MtsDraws(gen) \union MtDraws(gen) :
       Takes(p, t) /\ last' = Drawn(t.words, src.next, scale'[p])
  /\ UNCHANGED ask

(* rds_iuniform() and rds_liuniform(): a small range of 32 bits is scaled;  *)
(* the others draw until the masked word is in the range.                   *)
Ask(u) ==
  /\ Idle
  /\ ask' = u /\ last' = Nothing
  /\ UNCHANGED <<gen, scale, users, file, src>>

Bits == IF ask.kind = "iuniform" THEN Width ELSE 2 * Width
Span == (ask.upper - ask.lower) % 2^Bits
Signed(x) == IF x % 2^Bits >= 2^(Bits - 1) THEN (x % 2^Bits) - 2^Bits ELSE x % 2^Bits

Answer(p, t, x) ==
  /\ last' = [Drawn(t.words, src.next, scale'[p]) EXCEPT !.ask = ask, !.val = Signed(ask.lower + x)]
  /\ ask' = NoAsk

IUniformScaled(p) ==
  /\ ask.kind = "iuniform" /\ Span =< Threshold /\ Mine(p)
  /\ \E t \in {MtsLdrand(gen)} :
       Takes(p, t) /\ Answer(p, t, AsDouble(Fraction(t.words) * Span) \div One)

MaskedDraw(p, t) ==
  /\ Mine(p)
  /\ Takes(p, t)
  /\ \E x \in {t.words[Len(t.words)] & RangeMask(Span)} :
       IF x >= Span THEN UNCHANGED <<ask, last>> ELSE Answer(p, t, x)

IUniformMasked(p) == ask.kind = "iuniform" /\ Span > Threshold /\ MaskedDraw(p, MtsLrand(gen))
LIUniform(p) == ask.kind = "liuniform" /\ MaskedDraw(p, MtsLlrand(gen))

-----------------------------------------------------------------------------
(* mts_savestate() and mts_loadstate(): the words from the last to the      *)
(* first, then the pointer; a write may fail, which leaves a file that      *)
(* cannot be loaded.                                                        *)
ValidPtr(n) == n \in 0 .. StateSize

ToSave ==
  LET s == IF gen.init THEN gen ELSE Seed32(DefaultSeed)
  IN IF ValidPtr(s.ptr) THEN s ELSE Refresh(s)

SaveState(p, n) ==
  /\ Idle /\ Mine(p) /\ file = NoFile /\ src.next \in SavePoints
  /\ gen' = ToSave
  /\ file' = [words |-> SubSeq([k \in 1 .. StateSize |-> ToSave.vec[StateSize - k]] \o <<ToSave.ptr>>, 1, n),
              src |-> src]
  /\ IF gen.init THEN UNCHANGED <<scale, users>> ELSE MarksFor(p)
  /\ last' = Nothing
  /\ UNCHANGED <<ask, src>>

LoadedVec == [i \in Index |-> IF StateSize - i =< Len(file.words) THEN file.words[StateSize - i] ELSE gen.vec[i]]

LoadState(p) ==
  /\ Idle /\ file # NoFile
  /\ IF Len(file.words) = StateSize + 1 /\ ValidPtr(file.words[StateSize + 1])
     THEN /\ gen' = [vec |-> LoadedVec, ptr |-> file.words[StateSize + 1], init |-> TRUE]
          /\ src' = file.src
          /\ MarksFor(p)
     ELSE /\ gen' = [vec |-> LoadedVec, ptr |-> 0, init |-> FALSE]
          /\ src' = FromDefault
          /\ UNCHANGED <<scale, users>>
  /\ last' = Nothing
  /\ UNCHANGED <<file, ask>>

(* On a state of the caller's, or, by mt_seed32() to mt_loadstate(), on     *)
(* mt_default_state.                                                        *)
Manage ==
  \/ \E seed \in Seeds : MtsSeed32(Main, seed) \/ MtsSeed32New(Main, seed)
  \/ \E v \in Fulls : MtsSeedFull(Main, v) \/ MtsBestSeed(Main, v)
  \/ MtsDevSeed(Main)
  \/ \E n \in {StateSize, StateSize + 1} : SaveState(Main, n)
  \/ LoadState(Main)

Next ==
  \/ Manage
  \/ \E u \in Uniforms : Ask(u)
  \/ \E p \in Process :
       Revalidate(p) \/ Draw(p) \/ IUniformScaled(p) \/ IUniformMasked(p) \/ LIUniform(p)

-----------------------------------------------------------------------------
TypeOK ==
  /\ gen \in [vec : [Index -> Word], ptr : 0 .. StateSize, init : BOOLEAN]
  /\ scale \in [Process -> BOOLEAN] /\ users \subseteq Process
  /\ src.base \in [Index -> Word] /\ src.next \in 0 .. MaxNext

(* The sequence the generator is defined by: each value from the ones       *)
(* StateSize, StateSize - 1 and StateSize - Offset before it.               *)
Reference(base) ==
  LET x[k \in 0 .. MaxNext] ==
        IF k < StateSize THEN base[StateSize - 1 - k]
        ELSE MatrixMultiply(x[k - StateSize + Offset], CombineBits(x[k - StateSize], x[k - StateSize + 1]))
  IN x

(* Whatever mix of 32- and 64-bit draws is made, across refreshes in place, *)
(* saving and loading (mts_refresh, mts_llrand, mts_loadstate), the words   *)
(* returned are the successive ones of the sequence its seed defines; and a *)
(* generator whose seeding, loading or reading failed yields the default    *)
(* seed's.                                                                  *)
DrawsAreTheSequence ==
  \A k \in DOMAIN last.words : last.words[k] = Tempered(Reference(src.base)[last.at + k - 1])

(* A process turns words into doubles only with factors it has computed     *)
(* (mts_mark_initialized), though another process may have seeded.          *)
FactorsAreSet == last.scaled

(* rds_iuniform() and rds_liuniform() stay in the half-open interval, but   *)
(* for a 64-bit draw that rounds to 1.0.                                    *)
UniformInInterval ==
  last.ask # NoAsk =>
    \/ last.ask.lower =< last.val /\ last.val < last.ask.upper
    \/ last.val = last.ask.upper /\ Fraction(last.words) = One

(* Every integer is as likely as any other where words are masked: the      *)
(* words that give it are equally many, and there are some.                 *)
MaskIsFair ==
  \A range \in 1 .. 2^Width - 1 : \A v \in 0 .. range - 1 :
    Cardinality({w \in Word : w & RangeMask(range) = v}) = 2^Width \div (RangeMask(range) + 1)

(* rd_empirical_setup(): each element is drawn in proportion to its weight. *)
EmpiricalIsExact ==
  \A w \in Weights : LET t == EmpiricalSetup(w) IN
    \A i \in 0 .. Len(w) - 1 :
      Cardinality({x \in 0 .. Len(w) * Sum(w) - 1 : IntEmpirical(t, Sum(w), x) = i}) = Len(w) * w[i + 1]
=============================================================================
