----------------------------- MODULE Variables -----------------------------
(* filebench's variables (vars.c) and what the parser does with the local   *)
(* variables of composite flowops (parser_gram.y). A variable has a name, a *)
(* type and a value in a union; an attribute value descriptor (avd) either  *)
(* holds a constant or points into a variable, by the variable's type at    *)
(* the time the descriptor was made. Variables are nodes of linked lists.   *)
EXTENDS Integers, Sequences, FiniteSets, SequencesExt

CONSTANTS Name,        \* names used in a script
          Value,       \* values assigned, with locals or without: records of a type and a val
          MaxVars,     \* variables allocated, at most
          MaxAvds,     \* descriptors made, at most
          WithLocals   \* whether a script may define composite flowops with locals

VARIABLES var,      \* the variables allocated: name, type, val, next, retyped
          list,     \* shm_var_list
          lvars,    \* fo_lvar_list of a composite flowop, a use of it, a use inside another
          pending,  \* local variables parsed, not yet given to their flowop
          avd,      \* descriptors: the variable, and how they point to it
          assigned, \* the last value the script gave a name, or None
          stopped,  \* filebench_shutdown() was called
          locals    \* the script defines local variables

vars == <<var, list, lvars, pending, avd, assigned, stopped, locals>>

NIL == 0
None == [type |-> "none", val |-> 0]
Unknown == [type |-> "unknown", val |-> 0]
Flow == {"composite", "use", "inner"}

Init ==
  /\ var = <<>>
  /\ list = NIL
  /\ lvars = [f \in Flow |-> NIL]
  /\ pending = <<>>
  /\ avd = <<>>
  /\ assigned = [n \in Name |-> None]
  /\ stopped = FALSE
  /\ locals \in WithLocals

Running == ~ stopped

---------------------------------------------------------------------------
(* Lists of variables.                                                      *)

RECURSIVE FindIn(_, _, _, _)
FindIn(vs, at, n, fuel) ==
  IF at = NIL \/ fuel = 0 THEN NIL
  ELSE IF vs[at].name = n THEN at ELSE FindIn(vs, vs[at].next, n, fuel - 1)

(* var_find() and var_find_list_only().                                     *)
VarFind(vs, head, n) == FindIn(vs, head, n, Len(vs))

(* var_alloc(): a variable of unknown type, at the head of shm_var_list.    *)
VarAlloc(vs, head, n) ==
  Append(vs, [name |-> n, type |-> "unknown", val |-> 0, next |-> head, retyped |-> FALSE])

CanAlloc == Len(var) < MaxVars

(* VAR_SET_BOOL ... VAR_SET_CUSTOM.                                         *)
VarSet(vs, i, v) ==
  [vs EXCEPT ![i].type = v.type, ![i].val = v.val,
             ![i].retyped = @ \/ (vs[i].type \notin {"unknown", v.type})]

(* var_find_alloc(): the variable's index, and the variables and list then. *)
FindAlloc(n) ==
  IF VarFind(var, list, n) # NIL THEN [at |-> VarFind(var, list, n), vs |-> var, head |-> list]
  ELSE [at |-> Len(var) + 1, vs |-> VarAlloc(var, list, n), head |-> Len(var) + 1]

(* "set $n = v": var_assign_boolean() and its siblings.                     *)
Assign(n, v) ==
  /\ Running /\ pending = <<>>
  /\ CanAlloc \/ VarFind(var, list, n) # NIL
  /\ \E f \in {FindAlloc(n)} :
       /\ var' = VarSet(f.vs, f.at, v)
       /\ list' = f.head
  /\ assigned' = [assigned EXCEPT ![n] = v]
  /\ UNCHANGED <<lvars, pending, avd, stopped, locals>>

---------------------------------------------------------------------------
(* Descriptors.                                                             *)

(* set_avd_type_by_var(): points to the value, or to the variable while its *)
(* type is unknown; a random or custom variable's object is copied. gave is *)
(* what the script had last assigned.                                       *)
Bind(vs, i) ==
  [var |-> i, as |-> vs[i].type, obj |-> IF vs[i].type = "rand" THEN vs[i].val ELSE 0,
   gave |-> assigned[vs[i].name]]

(* "$n" as an attribute: avd_var_alloc().                                   *)
Reference(n) ==
  /\ Running
  /\ Len(avd) < MaxAvds
  /\ CanAlloc \/ VarFind(var, list, n) # NIL
  /\ \E f \in {FindAlloc(n)} :
       /\ var' = f.vs
       /\ list' = f.head
       /\ avd' = Append(avd, Bind(f.vs, f.at))
  /\ UNCHANGED <<lvars, pending, assigned, stopped, locals>>

(* What reading a descriptor's target yields: a pointer to a member of the  *)
(* union reads whatever was stored last.                                    *)
Target(a) ==
  IF a.as = "rand" THEN [type |-> "rand", val |-> a.obj]
  ELSE IF var[a.var].type = a.as THEN [type |-> a.as, val |-> var[a.var].val]
  ELSE [type |-> a.as, val |-> "garbage"]

(* avd_get_bool(), avd_get_int(), avd_get_dbl() and avd_get_str(). A random *)
(* or custom variable's value is named by the object it is drawn from.      *)
Convert(v, want) ==
  CASE want = v.type -> <<v.val>>
    [] want = "bool" /\ v.type = "int" -> <<IF v.val = 0 THEN 0 ELSE 1>>
    [] want = "dbl" /\ v.type = "int" -> <<v.val>>
    [] want \in {"int", "dbl"} /\ v.type = "rand" -> <<v.val>>
    [] OTHER -> <<"error">>

(* The first read of a descriptor of unknown type binds it for good.        *)
Get(k) ==
  /\ Running
  /\ k \in DOMAIN avd
  /\ avd[k].as = "unknown"
  /\ IF var[avd[k].var].type = "unknown"
     THEN stopped' = TRUE /\ UNCHANGED avd
     ELSE avd' = [avd EXCEPT ![k] = Bind(var, avd[k].var)] /\ UNCHANGED stopped
  /\ UNCHANGED <<var, list, lvars, pending, assigned, locals>>

---------------------------------------------------------------------------
(* Local variables of composite flowops.                                    *)

(* "$n" or "$n = v" among a command's attributes: var_lvar_alloc_local() and *)
(* var_lvar_assign_boolean() and its siblings allocate with var_alloc().     *)
LocalDef(n, v) ==
  /\ Running /\ locals /\ CanAlloc
  /\ v.type # "rand"
  /\ var' = IF v = Unknown THEN VarAlloc(var, list, n)
            ELSE VarSet(VarAlloc(var, list, n), Len(var) + 1, v)
  /\ list' = Len(var) + 1
  /\ pending' = Append(pending, Len(var) + 1)
  /\ UNCHANGED <<lvars, avd, assigned, stopped, locals>>

(* var_copy().                                                              *)
VarCopy(vs, to, from) ==
  IF vs[from].type \in {"bool", "int", "str"}
  THEN VarSet(vs, to, [type |-> vs[from].type, val |-> vs[from].val]) ELSE vs

(* var_update_comp_lvars(): a local without a value takes the prototype's.  *)
UpdateLocal(vs, i, proto) ==
  LET p == VarFind(vs, proto, vs[i].name)
  IN IF p # NIL /\ vs[i].type = "unknown" THEN VarCopy(vs, i, p) ELSE vs

(* add_lvar_to_list() followed by it: the variable is taken off             *)
(* shm_var_loc_list, where it never is, and put at the head of the          *)
(* flowop's list through the very link that holds it in shm_var_list.       *)
AddLocal(s, i) ==
  [vs |-> UpdateLocal([s.vs EXCEPT ![i].next = s.head], i, s.proto),
   head |-> i, proto |-> s.proto]

(* get_attr_lvars() of a command, over a flowop's present list.             *)
GiveLocals(f, present) ==
  \E r \in {FoldLeft(AddLocal, [vs |-> var, head |-> present, proto |-> present], pending)} :
    /\ var' = r.vs
    /\ lvars' = [lvars EXCEPT ![f] = r.head]

(* parser_composite_flowop_define(): the new flowop starts with no locals.  *)
DefineComposite ==
  /\ Running /\ locals
  /\ lvars["composite"] = NIL /\ pending # <<>>
  /\ GiveLocals("composite", NIL)
  /\ pending' = <<>>
  /\ UNCHANGED <<list, avd, assigned, stopped, locals>>

(* parser_flowop_define() of a use: the new flowop is a copy of its type,   *)
(* the list of locals included, and takes the ones given with it.           *)
UseComposite ==
  /\ Running /\ locals
  /\ lvars["composite"] # NIL /\ lvars["use"] = NIL
  /\ GiveLocals("use", lvars["composite"])
  /\ pending' = <<>>
  /\ UNCHANGED <<list, avd, assigned, stopped, locals>>

(* The names on a list of locals, in order.                                 *)
RECURSIVE ListFrom(_, _, _)
ListFrom(vs, at, fuel) ==
  IF at = NIL \/ fuel = 0 THEN <<>> ELSE <<vs[at].name>> \o ListFrom(vs, vs[at].next, fuel - 1)

(* parser_inner_flowop_define(): a composite inside a composite gets fresh  *)
(* locals, named after the inner type's and with its values.                *)
FreshLocal(s, n) ==
  LET vs == VarAlloc(s.vs, s.list, n)
  IN [vs |-> UpdateLocal([vs EXCEPT ![Len(vs)].next = s.head], Len(vs), s.proto),
      head |-> Len(vs), list |-> Len(vs), proto |-> s.proto]

InnerComposite ==
  /\ Running /\ locals
  /\ lvars["composite"] # NIL /\ lvars["inner"] = NIL
  /\ pending = <<>>
  /\ \E ns \in {ListFrom(var, lvars["composite"], Len(var))} :
       /\ Len(var) + Len(ns) =< MaxVars
       /\ \E r \in {FoldLeft(FreshLocal, [vs |-> var, head |-> NIL, list |-> list,
                                           proto |-> lvars["composite"]], ns)} :
            /\ var' = r.vs
            /\ list' = r.list
            /\ lvars' = [lvars EXCEPT !["inner"] = r.head]
  /\ UNCHANGED <<pending, avd, assigned, stopped, locals>>

---------------------------------------------------------------------------
Next ==
  \/ \E n \in Name, v \in Value[locals] : Assign(n, v)
  \/ \E n \in Name : Reference(n)
  \/ \E k \in 1 .. MaxAvds : Get(k)
  \/ \E n \in Name, v \in Value[locals] \cup {Unknown} : LocalDef(n, v)
  \/ DefineComposite
  \/ UseComposite
  \/ InnerComposite

Spec == Init /\ [][Next]_vars

---------------------------------------------------------------------------
TypeOK ==
  /\ list \in 0 .. Len(var)
  /\ \A i \in DOMAIN var : var[i].name \in Name /\ var[i].next \in 0 .. Len(var)
  /\ \A k \in DOMAIN avd : avd[k].var \in DOMAIN var
  /\ \A f \in Flow : lvars[f] \in 0 .. Len(var)

(* A variable the script has set keeps its last value under its name, for   *)
(* every later "$name", as long as no composite flowop has local variables. *)
GlobalsFound(n) ==
  assigned[n] # None =>
    /\ VarFind(var, list, n) # NIL
    /\ var[VarFind(var, list, n)].type = assigned[n].type
    /\ var[VarFind(var, list, n)].val = assigned[n].val

GlobalsKept == ~ locals => \A n \in Name : GlobalsFound(n)

(* A descriptor made before, between or after the assignments to its        *)
(* variable yields the value the script gave last, converted, as long as    *)
(* the assignments keep the variable's type; but one bound to a random      *)
(* variable keeps the distribution of that time, whatever is assigned       *)
(* later (vars.c:124-127).                                                  *)
Current(a) == [type |-> var[a.var].type, val |-> var[a.var].val]

LateBinding ==
  ~ locals =>
    \A k \in DOMAIN avd :
      LET a == avd[k] IN
        /\ a.as = "rand" => Target(a) = a.gave
        /\ (a.as \notin {"unknown", "rand"} /\ ~ var[a.var].retyped) =>
             \A want \in {"bool", "int", "dbl", "str"} :
               Convert(Target(a), want) = Convert(assigned[var[a.var].name], want)

(* "removes the newly allocated local var from the shared local var list,   *)
(* then puts it at the head of the private local var list"                  *)
(* (parser_gram.y:3107-3111): the script's other variables stay.            *)
LocalsArePrivate == pending = <<>> => \A n \in Name : GlobalsFound(n)

(* "the values of variables may be changed between the time the workload    *)
(* model is loaded and the time it actually runs by further set commands"   *)
(* (vars.c:53-56): also their types (parser_gram.y:2366-2368).              *)
DelayedBinding ==
  \A k \in DOMAIN avd :
    avd[k].as # "unknown" =>
      Convert(Target(avd[k]), avd[k].as) = Convert(Current(avd[k]), avd[k].as)
===========================================================================
