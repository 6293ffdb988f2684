---------------------------- MODULE CustomVars ----------------------------
(* Custom variables of filebench: the list of libraries in shared memory    *)
(* and the array of loaded libraries of every process (fb_cvar.c), the      *)
(* parameters of the distribution types (cvars/cvar_tokens.c, cvars/        *)
(* cvar-*.c), and the value handed to the workload. A parameter string is   *)
(* a sequence of words and of the delimiters ";" and ":"; "k1", "k2" and    *)
(* "k3" stand for the names of a type's parameters, in their order. The     *)
(* numbers the distributions draw are chosen freely.                        *)
EXTENDS Integers, Sequences, FiniteSets

CONSTANTS Libs,      \* types of the libraries in FBLIBDIR, in readdir() order
          Worker,    \* worker processes
          Params,    \* parameter strings a script may give
          Bounds,    \* min, max and round a script may give
          Raw,       \* numbers a distribution may draw
          Broken     \* the sets of libraries that cannot be loaded

Proc == {"master"} \cup Worker

VARIABLES info,    \* shm_cvar_lib_info_list
          broken,  \* libraries whose dlopen() or dlsym() fails
          libs,    \* cvar_libraries of each process, by index
          proc,    \* what each process is doing
          cvar,    \* the script's custom variable, once defined
          drawn    \* the last value drawn: where, by which library, from what

vars == <<info, broken, libs, proc, cvar, drawn>>

Nothing == [state |-> "none"]

Init ==
  /\ info = <<>>
  /\ broken \in Broken
  /\ libs = [p \in Proc |-> <<>>]
  /\ proc = [p \in Proc |-> "new"]
  /\ cvar = Nothing
  /\ drawn = Nothing

---------------------------------------------------------------------------
(* Parameters.                                                              *)

NoValue == <<"no value">>

(* The first position of a delimiter, or one past the end (strchr()).       *)
Strchr(s, c) ==
  IF \E i \in DOMAIN s : s[i] = c
  THEN CHOOSE i \in DOMAIN s : s[i] = c /\ \A j \in 1 .. i - 1 : s[j] # c
  ELSE Len(s) + 1

(* One "key:value", "key" or, wrongly, ":value".                            *)
Token(p) ==
  LET k == Strchr(p, ":")
  IN [key |-> SubSeq(p, 1, k - 1),
      value |-> IF k > Len(p) THEN NoValue ELSE SubSeq(p, k + 1, Len(p))]

RECURSIVE Tokenize(_)
Tokenize(s) ==
  LET e == Strchr(s, ";")
      first == SubSeq(s, 1, e - 1)
      tokens == IF first = <<>> THEN <<>> ELSE <<Token(first)>>
  IN IF e > Len(s) THEN tokens ELSE tokens \o Tokenize(SubSeq(s, e + 1, Len(s)))

EmptyKey(tokens) == \E i \in DOMAIN tokens : tokens[i].key = <<>>

(* find_token(): the first token with the key.                              *)
FindToken(tokens, key) ==
  IF \E i \in DOMAIN tokens : tokens[i].key = <<key>>
  THEN CHOOSE i \in DOMAIN tokens :
         tokens[i].key = <<key>> /\ \A j \in 1 .. i - 1 : tokens[j].key # <<key>>
  ELSE 0

(* atof() and atoi().                                                       *)
Atof(value) ==
  CASE value = <<>> -> 0
    [] value[1] = "1" -> 1
    [] value[1] = "3" -> 3
    [] value[1] = "-1" -> -1
    [] OTHER -> 0

Given(tokens, key) == FindToken(tokens, key) # 0 /\ tokens[FindToken(tokens, key)].value # NoValue

(* A parameter's value: the token's, or the default.                        *)
Param(tokens, key, default) ==
  IF Given(tokens, key) THEN Atof(tokens[FindToken(tokens, key)].value) ELSE default

(* unused_tokens(): a token that no parameter of the type has taken.        *)
Unused(tokens, keys) ==
  \E i \in DOMAIN tokens : \A k \in keys : ~ (Given(tokens, k) /\ FindToken(tokens, k) = i)

(* cvar_alloc_handle() of each library: its parameters, or a refusal.       *)
Refused == [ok |-> FALSE]
Handle(h) == [ok |-> TRUE, h |-> h]

Erlang(t) ==
  LET h == [shape |-> Param(t, "k1", 1), rate |-> Param(t, "k2", 1)]
  IN IF h.shape < 0 \/ h.rate < 0 THEN Refused ELSE Handle(h)

Exponential(t) ==
  LET mean == Param(t, "k1", 1) IN Handle([mean |-> IF mean < 0 THEN 0 ELSE mean])

Lognormal(t) ==
  LET h == [shape |-> Param(t, "k1", 1), scale |-> Param(t, "k2", 1)]
  IN IF h.shape < 0 \/ h.scale < 0 THEN Refused ELSE Handle(h)

Normal(t) == Handle([mean |-> Param(t, "k1", 0), sigma |-> Param(t, "k2", 1)])

(* The default mode, 0.5, lies between the default bounds; 0 does too.      *)
Triangular(t) ==
  LET h == [lower |-> Param(t, "k1", 0), upper |-> Param(t, "k2", 1), mode |-> Param(t, "k3", 0)]
  IN IF h.upper < h.lower \/ h.mode > h.upper \/ h.mode < h.lower THEN Refused ELSE Handle(h)

(* lower > upper is reported and kept.                                      *)
Uniform(t) == Handle([lower |-> Param(t, "k1", 0), upper |-> Param(t, "k2", 1)])

Weibull(t) ==
  LET h == [shape |-> Param(t, "k1", 1), scale |-> Param(t, "k2", 1)]
  IN IF h.shape < 0 \/ h.scale < 0 THEN Refused ELSE Handle(h)

(* The defaults of gamma, 4096.0 and 1.5, are far from the values given.    *)
Gamma(t) ==
  LET h == [mean |-> Param(t, "k1", 4096), gamma |-> Param(t, "k2", 2)]
  IN IF h.gamma = 0 THEN Refused ELSE Handle(h)

ByType(type, t) ==
  CASE type = "erlang" -> Erlang(t)
    [] type = "exponential" -> Exponential(t)
    [] type = "lognormal" -> Lognormal(t)
    [] type = "normal" -> Normal(t)
    [] type = "triangular" -> Triangular(t)
    [] type = "uniform" -> Uniform(t)
    [] type = "weibull" -> Weibull(t)
    [] type = "gamma" -> Gamma(t)

Keys(type) ==
  CASE type = "exponential" -> {"k1"}
    [] type = "triangular" -> {"k1", "k2", "k3"}
    [] OTHER -> {"k1", "k2"}

AllocHandle(type, tokens) ==
  IF EmptyKey(tokens) \/ Unused(tokens, Keys(type)) THEN Refused ELSE ByType(type, tokens)

---------------------------------------------------------------------------
(* Libraries.                                                               *)

(* alloc_cvar_lib_info(): a new entry goes to the end, with the next index. *)
AddInfo(list, type) == Append(list, [type |-> type, index |-> Len(list)])

RECURSIVE ScanDir(_, _)
ScanDir(list, k) == IF k > Len(Libs) THEN list ELSE ScanDir(AddInfo(list, Libs[k]), k + 1)

(* init_cvar_libraries(): the list's order gives the array's.               *)
LoadAll(p) == libs' = [libs EXCEPT ![p] = [k \in 1 .. Len(info') |-> info'[k].type]]

Loadable == \A k \in DOMAIN Libs : Libs[k] \notin broken

(* master_mode(): scan, load, or give up.                                   *)
StartMaster ==
  /\ proc["master"] = "new"
  /\ info' = ScanDir(<<>>, 1)
  /\ IF Loadable
     THEN LoadAll("master") /\ proc' = [proc EXCEPT !["master"] = "parsing"]
     ELSE UNCHANGED libs /\ proc' = [proc EXCEPT !["master"] = "exited"]
  /\ UNCHANGED <<broken, cvar, drawn>>

(* init_cvar_handle(): the first entry of the type gives the index.         *)
LibIndex(type) ==
  IF \E k \in DOMAIN info : info[k].type = type
  THEN info[CHOOSE k \in DOMAIN info :
              info[k].type = type /\ \A j \in 1 .. k - 1 : info[j].type # type].index
  ELSE -1

(* parser_var_assign_custom().                                              *)
DefineCvar(type, params, b) ==
  /\ proc["master"] = "parsing" /\ \A p \in Worker : proc[p] = "new"
  /\ cvar = Nothing
  /\ \E r \in {IF LibIndex(type) < 0 THEN Refused ELSE AllocHandle(type, Tokenize(params))} :
       IF r.ok
       THEN /\ cvar' = [state |-> "defined", type |-> type, params |-> params, handle |-> r.h,
                        index |-> LibIndex(type), bounds |-> b, valid |-> {"master"}]
            /\ UNCHANGED proc
       ELSE proc' = [proc EXCEPT !["master"] = "exited"] /\ UNCHANGED cvar
  /\ UNCHANGED <<info, broken, libs, drawn>>

(* worker_mode(): load the libraries, then revalidate_cvar_handles().       *)
StartWorker(p) ==
  /\ proc["master"] = "parsing" /\ proc[p] = "new"
  /\ UNCHANGED info
  /\ LoadAll(p)
  /\ cvar' = IF cvar = Nothing THEN cvar ELSE [cvar EXCEPT !.valid = @ \cup {p}]
  /\ proc' = [proc EXCEPT ![p] = "running"]
  /\ UNCHANGED <<broken, drawn>>

---------------------------------------------------------------------------
(* get_cvar_value(): a negative number converted to fbint_t wraps round.    *)
Huge == 1000

RoundTo(v, round) ==
  LET num == IF v < 0 THEN Huge + v ELSE v
      lower == num - (num % round)
      upper == lower + round
  IN IF num - lower > upper - num THEN upper ELSE lower

Clamp(v, b) == IF v < b.min THEN b.min ELSE IF v > b.max THEN b.max ELSE v

MutCvarValue(v, b) == IF b.round = 0 THEN Clamp(v, b) ELSE RoundTo(Clamp(v, b), b.round)

CvarValue(v, b) == Clamp(IF b.round = 0 THEN v ELSE RoundTo(v, b.round), b)

Draw(p, v) ==
  /\ proc[p] \in {"parsing", "running"}
  /\ cvar # Nothing
  /\ p \in cvar.valid
  /\ drawn' = [state |-> "drawn", by |-> libs[p][cvar.index + 1], raw |-> v,
               value |-> CvarValue(v, cvar.bounds)]
  /\ UNCHANGED <<info, broken, libs, proc, cvar>>

Next ==
  \/ StartMaster
  \/ \E t \in {Libs[k] : k \in DOMAIN Libs} \cup {"unknown"}, s \in Params, b \in Bounds : DefineCvar(t, s, b)
  \/ \E p \in Worker : StartWorker(p)
  \/ \E p \in Proc, v \in Raw : Draw(p, v)

Spec == Init /\ [][Next]_vars

---------------------------------------------------------------------------
TypeOK ==
  /\ proc \in [Proc -> {"new", "parsing", "running", "exited"}]
  /\ \A p \in Proc : Len(libs[p]) \in {0, Len(Libs)}
  /\ cvar # Nothing => cvar.index \in 0 .. Len(Libs) - 1

(* Every process draws a custom variable's values with the library of the   *)
(* variable's type: the index kept in shared memory means the same library  *)
(* in every process's own array.                                            *)
RightLibrary == drawn # Nothing => drawn.by = cvar.type

(* A value lies between the variable's min and max, after rounding.         *)
WithinBounds ==
  drawn # Nothing =>
    \/ cvar.bounds.max < cvar.bounds.min
    \/ drawn.value \in cvar.bounds.min .. cvar.bounds.max

(* A variable that was accepted took every parameter its script gives: none *)
(* is misspelt, repeated or without a value.                                *)
ParamsTaken ==
  cvar # Nothing =>
    LET tokens == Tokenize(cvar.params)
    IN \A i \in DOMAIN tokens :
         /\ \E k \in Keys(cvar.type) : tokens[i].key = <<k>>
         /\ tokens[i].value # NoValue
         /\ \A j \in DOMAIN tokens : tokens[j].key = tokens[i].key => i = j

(* The mode of an accepted triangular variable lies between its bounds.     *)
ModeBetween ==
  (cvar # Nothing /\ cvar.type = "triangular") =>
    cvar.handle.lower =< cvar.handle.mode /\ cvar.handle.mode =< cvar.handle.upper

(* "shape is a non-zero positive integer" and the like of "rate" and        *)
(* "scale" (cvar-erlang.c:54-62, cvar-lognormal.c, cvar-weibull.c): zero is *)
(* accepted; "gamma must be greater than 0" (cvar-gamma.c:183-185): less is *)
(* accepted.                                                                *)
InDomain ==
  cvar # Nothing =>
    \A k \in DOMAIN cvar.handle : k \in {"shape", "rate", "scale", "gamma"} => cvar.handle[k] > 0

(* "upper must be greater than lower" (cvar-uniform.c:56).                  *)
UniformOrdered ==
  (cvar # Nothing /\ cvar.type = "uniform") => cvar.handle.lower =< cvar.handle.upper
===========================================================================
