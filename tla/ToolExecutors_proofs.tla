------------------------ MODULE ToolExecutors_proofs ------------------------
(***************************************************************************)
(* Proofs about the three tables of ToolExecutors: the executor of each of *)
(* the 30 tools turns down every argument list against the tool's schema,  *)
(* and none as the schema says.                                            *)
(*                                                                         *)
(* Part says which argument lists a run of checks takes; what the lists of *)
(* two runs are follows by Join.  A tool whose checks before the look-up   *)
(* of the patch take the lists of a set Good agrees with its schema when   *)
(* the good lists are in the set and the faulty ones are not (AgreesBy).   *)
(***************************************************************************)
EXTENDS ToolExecutors, Sequence_proofs

TurnedDown == {"refused", "throws"}

(* The parameters; special ones are those that the schemas describe by     *)
(* more than a type.                                                       *)
Plain == {"patch_id", "group", "obj_type", "varname", "attributes", "arguments", "attribute",
          "new_text", "src_varname", "dst_varname", "outlet", "inlet", "lines", "clear", "width",
          "height", "near_x", "near_y", "epsilon", "scope_varnames", "checks"}
Special == {"value", "hidden", "locked", "midpoints", "side", "adjust", "mode", "position",
            "assignments", "varnames", "anchor", "target"}
Parameters == Plain \cup Special

Steps == [of : SUBSET Parameters, takes : SUBSET Classes, otherwise : SUBSET TurnedDown]

(* ExecuteTool() with the checks as a parameter.                           *)
Verdict(steps, then, args) ==
  LET k == SelectInSeq(steps, LAMBDA step : ~Passes(step, args))
  IN IF k = 0 THEN {then} ELSE steps[k].otherwise

(* Some checks of a tool: they turn down what they do not take, and take   *)
(* the arguments if ok.                                                    *)
Part(s, args, ok) ==
  /\ s \in Seq(Steps)
  /\ ok <=> \A i \in 1..Len(s) : Passes(s[i], args)

(* Checks of one parameter.                                                *)
Checks(s, p, T) == \A args : Part(s, args, args[p] \in T)

LEMMA Names == /\ Plain \subseteq Parameters /\ Special \subseteq Parameters
               /\ \A p \in Plain : p \notin Special
               /\ "patch_id" \notin Special
               /\ \A p \in Plain : Faults(p) = {"absent", "empty", "ill"}
BY DEF Plain, Special, Parameters, Faults

(* Two runs of checks, one after the other.                                *)
LEMMA Join ==
  ASSUME NEW args, NEW s, NEW ok, Part(s, args, ok), NEW t, NEW too, Part(t, args, too)
  PROVE  Part(s \o t, args, ok /\ too)
<1> s \in Seq(Steps) /\ t \in Seq(Steps)
  BY DEF Part
<1>1. /\ s \o t \in Seq(Steps) /\ Len(s \o t) = Len(s) + Len(t)
      /\ \A i \in 1..Len(s) + Len(t) : (s \o t)[i] = IF i <= Len(s) THEN s[i] ELSE t[i - Len(s)]
  BY ConcatProperties
<1>2. Len(s) \in Nat /\ Len(t) \in Nat
  BY LenProperties
<1> DEFINE c == s \o t
<1> HIDE DEF c
<1>3. /\ Len(c) = Len(s) + Len(t)
      /\ \A i \in 1..Len(s) : c[i] = s[i]
      /\ \A i \in 1..Len(t) : Len(s) + i \in 1..Len(c) /\ c[Len(s) + i] = t[i]
      /\ \A i \in 1..Len(c) : i \in 1..Len(s) \/ (i - Len(s) \in 1..Len(t) /\ c[i] = t[i - Len(s)])
  BY <1>1, <1>2 DEF c
<1>4. (\A i \in 1..Len(c) : Passes(c[i], args))
        <=> (\A i \in 1..Len(s) : Passes(s[i], args)) /\ (\A i \in 1..Len(t) : Passes(t[i], args))
  <2>1. ASSUME \A i \in 1..Len(c) : Passes(c[i], args)
        PROVE  (\A i \in 1..Len(s) : Passes(s[i], args)) /\ (\A i \in 1..Len(t) : Passes(t[i], args))
    BY <1>2, <1>3, <2>1
  <2>2. ASSUME \A i \in 1..Len(s) : Passes(s[i], args), \A i \in 1..Len(t) : Passes(t[i], args)
        PROVE  \A i \in 1..Len(c) : Passes(c[i], args)
    BY <1>2, <1>3, <2>2
  <2> QED BY <2>1, <2>2
<1> QED BY <1>1, <1>4 DEF Part, c

LEMMA StepPart ==
  ASSUME NEW args, NEW ps \in SUBSET Parameters, NEW takes \in SUBSET Classes,
         NEW otherwise \in SUBSET TurnedDown
  PROVE  Part(Step(ps, takes, otherwise), args, \A p \in ps : args[p] \in takes)
<1> DEFINE e == [of |-> ps, takes |-> takes, otherwise |-> otherwise]
<1>1. e \in Steps /\ (Passes(e, args) <=> \A p \in ps : args[p] \in takes)
  BY DEF Steps, Passes
<1> HIDE DEF e
<1>2. <<e>> \in Seq(Steps) /\ Len(<<e>>) = 1 /\ <<e>>[1] = e
  BY <1>1
<1> QED BY <1>1, <1>2 DEF Part, Step, e

LEMMA ValuePart ==
  ASSUME NEW args, NEW ps \in SUBSET Parameters
  PROVE  Part(Value(ps), args, \A p \in ps : args[p] \in Classes \ {"ill"})
BY StepPart DEF Value, TurnedDown, Classes
LEMMA NeedPart ==
  ASSUME NEW args, NEW ps \in SUBSET Parameters
  PROVE  Part(Need(ps), args, \A p \in ps : args[p] \in Classes \ {"absent", "empty"})
BY StepPart DEF Need, TurnedDown
LEMMA StringsPart ==
  ASSUME NEW args, NEW ps \in SUBSET Parameters
  PROVE  Part(Strings(ps), args, \A p \in ps : args[p] \in {"good", "unknown", "odd"})
<1>1. Part(Strings(ps), args, /\ \A p \in ps : args[p] \in Classes \ {"ill"}
                             /\ \A p \in ps : args[p] \in Classes \ {"absent", "empty"})
  BY ValuePart, NeedPart, Join DEF Strings
<1> QED BY <1>1 DEF Part, Classes
LEMMA StepChecks ==
  ASSUME NEW p \in Parameters, NEW T \in SUBSET Classes, NEW otherwise \in SUBSET TurnedDown
  PROVE  Checks(Step({p}, T, otherwise), p, T)
<1> SUFFICES ASSUME NEW args PROVE Part(Step({p}, T, otherwise), args, args[p] \in T)
  BY DEF Checks
<1>1. Part(Step({p}, T, otherwise), args, \A q \in {p} : args[q] \in T)
  BY StepPart
<1> QED BY <1>1 DEF Part
LEMMA WordPart ==
  ASSUME NEW p \in Parameters
  PROVE  Checks(Word(p), p, Classes \ {"unknown"})
BY StepChecks DEF Word, TurnedDown
LEMMA CheckPart ==
  ASSUME NEW p \in Parameters
  PROVE  Checks(Check(p), p, {"good"})
BY StepChecks DEF Check, TurnedDown, Classes
LEMMA Renamed ==
  ASSUME NEW args, NEW s, NEW ok, Part(s, args, ok), NEW too, ok <=> too
  PROVE  Part(s, args, too)
BY DEF Part
LEMMA EmptyPart ==
  ASSUME NEW args
  PROVE  Part(<<>>, args, TRUE)
BY DEF Part

-----------------------------------------------------------------------------
(* The verdict: that of the first check that does not take the arguments.  *)
LEMMA FirstFails ==
  ASSUME NEW S, NEW c \in Seq(S), NEW args, NEW then
  PROVE  \/ /\ \A i \in 1..Len(c) : Passes(c[i], args)
            /\ Verdict(c, then, args) = {then}
         \/ \E k \in 1..Len(c) : /\ ~Passes(c[k], args)
                                 /\ \A i \in 1..Len(c) : ~Passes(c[i], args) => k <= i
                                 /\ Verdict(c, then, args) = c[k].otherwise
<1> DEFINE I == {i \in 1..Len(c) : ~Passes(c[i], args)}
           k == SelectInSeq(c, LAMBDA step : ~Passes(step, args))
<1>1. k = IF I # {} THEN Min(I) ELSE 0
  BY DEF SelectInSeq
<1>2. Len(c) \in Nat /\ I \in SUBSET Nat
  BY LenProperties
<1>3. CASE I = {}
  BY <1>1, <1>3 DEF Verdict
<1>4. CASE I # {}
  <2>1. Min(I) \in I /\ \A n \in I : Min(I) <= n
    BY <1>2, <1>4, Least
  <2>2. k = Min(I) /\ k # 0
    BY <1>1, <1>2, <1>4, <2>1
  <2>3. Verdict(c, then, args) = c[k].otherwise
    BY <2>2 DEF Verdict
  <2> HIDE DEF k
  <2> QED BY <2>1, <2>2, <2>3
<1> QED BY <1>3, <1>4

(* Before, at and after the look-up of the patch.                          *)
LEMMA Decided ==
  ASSUME NEW args, NEW then, NEW s, NEW ok, Part(s, args, ok), NEW t, NEW too, Part(t, args, too)
  PROVE  /\ ok /\ too => Verdict(s \o Find \o t, then, args) \subseteq {"unknown", then}
         /\ ~ok => Verdict(s \o Find \o t, then, args) \subseteq TurnedDown
<1> DEFINE f == [of |-> {"patch_id"}, takes |-> Classes \ {"unknown"}, otherwise |-> {"unknown"}]
           S == Steps \cup {f}
           c == s \o Find \o t
<1>1. s \in Seq(S) /\ t \in Seq(S) /\ \A i \in 1..Len(s) : s[i] \in Steps
  <2>1. \A i \in 1..Len(s) : s[i] \in Steps
    BY ElementOfSeq DEF Part
  <2>2. Seq(Steps) \subseteq Seq(S)
    OBVIOUS
  <2> QED BY <2>1, <2>2 DEF Part
<1>2. Find = <<f>>
  BY DEF Find, Step
<1> HIDE DEF f
<1>3. Find \in Seq(S) /\ Len(Find) = 1 /\ Find[1] = f
  BY <1>2
<1> HIDE DEF S
<1>4. /\ s \o Find \in Seq(S) /\ Len(s \o Find) = Len(s) + 1
      /\ \A i \in 1..Len(s) + 1 : (s \o Find)[i] = IF i <= Len(s) THEN s[i] ELSE Find[i - Len(s)]
  <2>1. /\ s \o Find \in Seq(S) /\ Len(s \o Find) = Len(s) + Len(Find)
        /\ \A i \in 1..Len(s) + Len(Find) :
             (s \o Find)[i] = IF i <= Len(s) THEN s[i] ELSE Find[i - Len(s)]
    BY <1>1, <1>3, ConcatProperties
  <2> QED BY <1>3, <2>1
<1>5. Len(s) \in Nat /\ Len(t) \in Nat
  BY <1>1, LenProperties
<1>6. /\ c \in Seq(S) /\ Len(c) = Len(s) + 1 + Len(t)
      /\ \A i \in 1..Len(s) + 1 + Len(t) :
           c[i] = IF i <= Len(s) + 1 THEN (s \o Find)[i] ELSE t[i - (Len(s) + 1)]
  <2> DEFINE u == s \o Find
  <2>1. u \in Seq(S) /\ Len(u) = Len(s) + 1
    BY <1>4
  <2> HIDE DEF u
  <2>2. /\ u \o t \in Seq(S) /\ Len(u \o t) = Len(u) + Len(t)
        /\ \A i \in 1..Len(u) + Len(t) : (u \o t)[i] = IF i <= Len(u) THEN u[i] ELSE t[i - Len(u)]
    BY <1>1, <2>1, ConcatProperties
  <2> QED BY <2>1, <2>2 DEF u
<1> HIDE DEF c
<1>7. /\ \A i \in 1..Len(s) : i \in 1..Len(c) /\ c[i] = s[i]
      /\ c[Len(s) + 1] = f
      /\ \A i \in 1..Len(c) :
           i \in 1..Len(s) \/ i = Len(s) + 1 \/ (i - (Len(s) + 1) \in 1..Len(t) /\ c[i] = t[i - (Len(s) + 1)])
  BY <1>3, <1>4, <1>5, <1>6
<1>8. ASSUME ok, too PROVE Verdict(c, then, args) \subseteq {"unknown", then}
  <2>1. \A i \in 1..Len(c) : ~Passes(c[i], args) => c[i] = f
    BY <1>5, <1>7, <1>8 DEF Part
  <2>2. f.otherwise = {"unknown"}
    BY DEF f
  <2> QED BY <1>6, <2>1, <2>2, FirstFails
<1>9. ASSUME ~ok PROVE Verdict(c, then, args) \subseteq TurnedDown
  <2>1. PICK i \in 1..Len(s) : ~Passes(s[i], args)
    BY <1>9 DEF Part
  <2>2. PICK k \in 1..Len(c) : k <= i /\ Verdict(c, then, args) = c[k].otherwise
    BY <1>6, <1>7, <2>1, FirstFails
  <2>3. k \in 1..Len(s)
    BY <1>5, <2>1, <2>2
  <2>4. c[k] \in Steps
    BY <1>1, <1>7, <2>3
  <2> QED BY <2>2, <2>4 DEF Steps
<1> QED BY <1>8, <1>9 DEF c

LEMMA DecidedLast ==
  ASSUME NEW args, NEW then, NEW s, NEW ok, Part(s, args, ok)
  PROVE  /\ ok => Verdict(s \o Find, then, args) \subseteq {"unknown", then}
         /\ ~ok => Verdict(s \o Find, then, args) \subseteq TurnedDown
<1> DEFINE f == [of |-> {"patch_id"}, takes |-> Classes \ {"unknown"}, otherwise |-> {"unknown"}]
           S == Steps \cup {f}
<1>1. Seq(Steps) \subseteq Seq(S) /\ Find \in Seq(S)
  <2> HIDE DEF f
  <2> QED BY DEF Find, Step, f
<1> HIDE DEF S
<1>2. s \o Find \in Seq(S)
  BY <1>1, ConcatProperties DEF Part
<1>3. s \o Find \o <<>> = s \o Find
  BY <1>2, ConcatEmptySeq
<1>4. Part(<<>>, args, TRUE)
  BY EmptyPart
<1>5. /\ ok /\ TRUE => Verdict(s \o Find \o <<>>, then, args) \subseteq {"unknown", then}
      /\ ~ok => Verdict(s \o Find \o <<>>, then, args) \subseteq TurnedDown
  BY <1>4, Decided
<1> QED BY <1>3, <1>5

LEMMA DecidedDirect ==
  ASSUME NEW args, NEW then, NEW s, NEW ok, Part(s, args, ok), ok
  PROVE  Verdict(s, then, args) = {then}
BY FirstFails DEF Part

-----------------------------------------------------------------------------
(* A tool and its schema agree.                                            *)
Agree(tool) ==
  /\ \A args \in GoodLists(tool) : ExecuteTool(tool, args) \subseteq AllVerdicts \ TurnedDown
  /\ \A args \in FaultyLists(tool) : ExecuteTool(tool, args) \subseteq TurnedDown

AsItSays(R, args) == \A p \in R : args[p] = "good" \/ (p = "patch_id" /\ args[p] = "unknown")
Against(R, args) == \E p \in R : args[p] \in Faults(p)
Optional(O, args) == \A p \in O : args[p] \in {"good", "absent"}

LEMMA ListsAre ==
  ASSUME NEW tool, NEW R, NEW O, R \cap O = {}, SchemaOf(tool) = Schema(R, O)
  PROVE  /\ \A args \in GoodLists(tool) :
              args \in [R \cup O -> Classes] /\ AsItSays(R, args) /\ Optional(O, args)
         /\ \A args \in FaultyLists(tool) :
              args \in [R \cup O -> Classes] /\ Against(R, args) /\ Optional(O, args)
<1>1. SchemaOf(tool).required = R /\ SchemaOf(tool).optional = O
  BY DEF Schema
<1>2. /\ \A p \in R : Right(tool)[p] = IF p = "patch_id" THEN {"good", "unknown"} ELSE {"good"}
      /\ \A p \in R : AnyWay(tool)[p] = Right(tool)[p] \cup Faults(p)
  BY <1>1 DEF Right, AnyWay
<1> DEFINE taken(required, p) == IF p \in R THEN required[p] ELSE {"good", "absent"}
<1>3. \A required : Lists(tool, required) =
        {a \in [R \cup O -> Classes] : \A p \in R \cup O : a[p] \in taken(required, p)}
  BY <1>1 DEF Lists
<1>4. \A args \in GoodLists(tool) :
         args \in [R \cup O -> Classes] /\ AsItSays(R, args) /\ Optional(O, args)
  BY <1>2, <1>3 DEF GoodLists, AsItSays, Optional
<1>5. ASSUME NEW args \in FaultyLists(tool)
      PROVE  args \in [R \cup O -> Classes] /\ Against(R, args) /\ Optional(O, args)
  <2>1. args \in [R \cup O -> Classes] /\ \A p \in R \cup O : args[p] \in taken(AnyWay(tool), p)
    BY <1>3 DEF FaultyLists
  <2>2. \E p \in R \cup O : args[p] \notin taken(Right(tool), p)
    BY <1>3, <2>1 DEF FaultyLists, GoodLists
  <2>3. PICK p \in R : args[p] \notin Right(tool)[p]
    BY <2>1, <2>2
  <2>4. args[p] \in Faults(p)
    BY <1>2, <2>1, <2>3
  <2> QED BY <2>1, <2>4 DEF Against, Optional
<1> QED BY <1>4, <1>5

(* A tool whose checks take the arguments in Good and turn the others down.*)
LEMMA AgreesBy ==
  ASSUME NEW tool, NEW R, NEW O, R \cap O = {}, SchemaOf(tool) = Schema(R, O),
         NEW s, NEW then \in Wraps \cup {"direct"}, Executor(tool) = Tool(s \o Find, then),
         NEW Good, \A args \in [R \cup O -> Classes] : Part(s, args, args \in Good),
         \A args \in [R \cup O -> Classes] :
           Optional(O, args) => /\ AsItSays(R, args) => args \in Good
                                /\ Against(R, args) => args \notin Good
  PROVE  Agree(tool)
<1>1. \A args : ExecuteTool(tool, args) = Verdict(s \o Find, then, args)
  <2>1. Executor(tool).steps = s \o Find /\ Executor(tool).then = then
    BY DEF Tool
  <2> QED BY <2>1 DEF ExecuteTool, Verdict
<1>2. \A args \in [R \cup O -> Classes] :
         /\ args \in Good => Verdict(s \o Find, then, args) \subseteq {"unknown", then}
         /\ args \notin Good => Verdict(s \o Find, then, args) \subseteq TurnedDown
  <2>1. TAKE args \in [R \cup O -> Classes]
  <2> DEFINE ok == args \in Good
  <2>2. Part(s, args, ok)
    OBVIOUS
  <2> HIDE DEF ok
  <2>3. /\ ok => Verdict(s \o Find, then, args) \subseteq {"unknown", then}
        /\ ~ok => Verdict(s \o Find, then, args) \subseteq TurnedDown
    BY <2>2, DecidedLast
  <2> QED BY <2>3 DEF ok
<1>3. {"unknown", then} \subseteq AllVerdicts \ TurnedDown
  BY DEF AllVerdicts, TurnedDown, Wraps
<1>4. ASSUME NEW args \in GoodLists(tool)
      PROVE  ExecuteTool(tool, args) \subseteq AllVerdicts \ TurnedDown
  <2>1. args \in [R \cup O -> Classes] /\ AsItSays(R, args) /\ Optional(O, args)
    BY ListsAre
  <2> QED BY <1>1, <1>2, <1>3, <2>1
<1>5. ASSUME NEW args \in FaultyLists(tool)
      PROVE  ExecuteTool(tool, args) \subseteq TurnedDown
  <2>1. args \in [R \cup O -> Classes] /\ Against(R, args) /\ Optional(O, args)
    BY ListsAre
  <2> QED BY <1>1, <1>2, <2>1
<1> QED BY <1>4, <1>5 DEF Agree

(* The same when optional arguments are read after the patch was found.    *)
LEMMA AgreesThen ==
  ASSUME NEW tool, NEW R, NEW O, R \cap O = {}, SchemaOf(tool) = Schema(R, O),
         NEW s, NEW P \in SUBSET Parameters, P \subseteq O, NEW then \in Wraps \cup {"direct"},
         Executor(tool) = Tool(s \o Find \o Value(P), then),
         NEW Good, \A args \in [R \cup O -> Classes] : Part(s, args, args \in Good),
         \A args \in [R \cup O -> Classes] :
           Optional(O, args) => /\ AsItSays(R, args) => args \in Good
                                /\ Against(R, args) => args \notin Good
  PROVE  Agree(tool)
<1>1. \A args : ExecuteTool(tool, args) = Verdict(s \o Find \o Value(P), then, args)
  <2>1. Executor(tool).steps = s \o Find \o Value(P) /\ Executor(tool).then = then
    BY DEF Tool
  <2> QED BY <2>1 DEF ExecuteTool, Verdict
<1>2. ASSUME NEW args \in [R \cup O -> Classes], Optional(O, args)
      PROVE  /\ args \in Good => Verdict(s \o Find \o Value(P), then, args) \subseteq {"unknown", then}
             /\ args \notin Good => Verdict(s \o Find \o Value(P), then, args) \subseteq TurnedDown
  <2> DEFINE ok == args \in Good
             read == \A p \in P : args[p] \in Classes \ {"ill"}
  <2>1. Part(s, args, ok) /\ Part(Value(P), args, read)
    BY ValuePart
  <2>2. read
    BY <1>2 DEF Optional, Classes
  <2> HIDE DEF ok, read
  <2>3. /\ ok /\ read => Verdict(s \o Find \o Value(P), then, args) \subseteq {"unknown", then}
        /\ ~ok => Verdict(s \o Find \o Value(P), then, args) \subseteq TurnedDown
    BY <2>1, Decided
  <2> QED BY <2>2, <2>3 DEF ok
<1>3. {"unknown", then} \subseteq AllVerdicts \ TurnedDown
  BY DEF AllVerdicts, TurnedDown, Wraps
<1>4. ASSUME NEW args \in GoodLists(tool)
      PROVE  ExecuteTool(tool, args) \subseteq AllVerdicts \ TurnedDown
  <2>1. args \in [R \cup O -> Classes] /\ AsItSays(R, args) /\ Optional(O, args)
    BY ListsAre
  <2> QED BY <1>1, <1>2, <1>3, <2>1
<1>5. ASSUME NEW args \in FaultyLists(tool)
      PROVE  ExecuteTool(tool, args) \subseteq TurnedDown
  <2>1. args \in [R \cup O -> Classes] /\ Against(R, args) /\ Optional(O, args)
    BY ListsAre
  <2> QED BY <1>1, <1>2, <2>1
<1> QED BY <1>4, <1>5 DEF Agree

-----------------------------------------------------------------------------
(* The tables, module by module.                                           *)

LEMMA Modules ==
  /\ DOMAIN PatchSchemas = {"list_active_patches", "get_patch_info", "get_frontmost_patch"}
  /\ DOMAIN ObjectSchemas =
       {"add_max_object", "remove_max_object", "get_objects_in_patch", "set_object_attribute",
        "get_object_attribute", "get_object_io_info", "get_object_hidden", "set_object_hidden",
        "redraw_object", "replace_object_text", "assign_varnames", "get_object_value"}
  /\ DOMAIN ConnectionSchemas =
       {"connect_max_objects", "disconnect_max_objects", "get_patchlines", "set_patchline_midpoints"}
  /\ DOMAIN StateSchemas = {"get_patch_lock_state", "get_patch_dirty", "set_patch_lock_state"}
  /\ DOMAIN HierarchySchemas = {"get_parent_patcher", "get_subpatchers"}
  /\ DOMAIN UtilitySchemas = {"get_console_log", "get_avoid_rect_position"}
  /\ DOMAIN LayoutSchemas =
       {"validate_layout", "get_io_position", "suggest_alignment", "align_objects"}
BY DEF PatchSchemas, ObjectSchemas, ConnectionSchemas, StateSchemas, HierarchySchemas,
       UtilitySchemas, LayoutSchemas

LEMMA SameModules ==
  /\ DOMAIN PatchExecutors = DOMAIN PatchSchemas
  /\ DOMAIN ObjectExecutors = DOMAIN ObjectSchemas
  /\ DOMAIN ConnectionExecutors = DOMAIN ConnectionSchemas
  /\ DOMAIN StateExecutors = DOMAIN StateSchemas
  /\ DOMAIN HierarchyExecutors = DOMAIN HierarchySchemas
  /\ DOMAIN UtilityExecutors = DOMAIN UtilitySchemas
  /\ DOMAIN LayoutExecutors = DOMAIN LayoutSchemas
BY Modules DEF PatchExecutors, ObjectExecutors, ConnectionExecutors, StateExecutors,
       HierarchyExecutors, UtilityExecutors, LayoutExecutors

LEMMA Dispatch ==
  /\ \A t \in DOMAIN PatchSchemas :
       Executor(t) = PatchExecutors[t] /\ SchemaOf(t) = PatchSchemas[t]
  /\ \A t \in DOMAIN ObjectSchemas :
       Executor(t) = ObjectExecutors[t] /\ SchemaOf(t) = ObjectSchemas[t]
  /\ \A t \in DOMAIN ConnectionSchemas :
       Executor(t) = ConnectionExecutors[t] /\ SchemaOf(t) = ConnectionSchemas[t]
  /\ \A t \in DOMAIN StateSchemas :
       Executor(t) = StateExecutors[t] /\ SchemaOf(t) = StateSchemas[t]
  /\ \A t \in DOMAIN HierarchySchemas :
       Executor(t) = HierarchyExecutors[t] /\ SchemaOf(t) = HierarchySchemas[t]
  /\ \A t \in DOMAIN UtilitySchemas :
       Executor(t) = UtilityExecutors[t] /\ SchemaOf(t) = UtilitySchemas[t]
  /\ \A t \in DOMAIN LayoutSchemas :
       Executor(t) = LayoutExecutors[t] /\ SchemaOf(t) = LayoutSchemas[t]
BY Modules, SameModules DEF Executor, SchemaOf

-----------------------------------------------------------------------------
(* Tools by the kind of their checks.                                      *)
Read == {"good", "unknown", "odd"}

LEMMA PlainArguments ==
  ASSUME NEW R \in SUBSET Plain, NEW args
  PROVE  /\ AsItSays(R, args) => \A p \in R : args[p] \in Read
         /\ Against(R, args) => ~\A p \in R : args[p] \in Read
<1>1. \A p \in R : Faults(p) = {"absent", "empty", "ill"}
  BY Names
<1> QED BY <1>1 DEF AsItSays, Against, Read

(* Required strings and numbers only.                                      *)
LEMMA PlainAgrees ==
  ASSUME NEW tool, NEW R \in SUBSET Plain,
         SchemaOf(tool) = Schema(R, {}),
         NEW then \in Wraps \cup {"direct"}, Executor(tool) = Tool(Strings(R) \o Find, then)
  PROVE  Agree(tool)
<1> DEFINE Good == {args \in [R \cup {} -> Classes] : \A p \in R : args[p] \in Read}
<1>1. \A args \in [R \cup {} -> Classes] : Part(Strings(R), args, args \in Good)
  BY StringsPart, Names DEF Part, Read
<1>2. \A args \in [R \cup {} -> Classes] :
         Optional({}, args) => /\ AsItSays(R, args) => args \in Good
                               /\ Against(R, args) => args \notin Good
  BY PlainArguments
<1> HIDE DEF Good
<1>3. R \cap {} = {}
  OBVIOUS
<1> QED BY <1>1, <1>2, <1>3, AgreesBy

(* Optional ones besides, which are read when the patch was found.         *)
LEMMA PlainAgreesThen ==
  ASSUME NEW tool, NEW R \in SUBSET Plain,
         NEW O, R \cap O = {}, SchemaOf(tool) = Schema(R, O),
         NEW P \in SUBSET Parameters, P \subseteq O, NEW then \in Wraps \cup {"direct"},
         Executor(tool) = Tool(Strings(R) \o Find \o Value(P), then)
  PROVE  Agree(tool)
<1> DEFINE Good == {args \in [R \cup O -> Classes] : \A p \in R : args[p] \in Read}
<1>1. \A args \in [R \cup O -> Classes] : Part(Strings(R), args, args \in Good)
  BY StringsPart, Names DEF Part, Read
<1>2. \A args \in [R \cup O -> Classes] :
         Optional(O, args) => /\ AsItSays(R, args) => args \in Good
                              /\ Against(R, args) => args \notin Good
  BY PlainArguments
<1> HIDE DEF Good
<1> QED BY <1>1, <1>2, AgreesThen

(* One required parameter with checks of its own.                          *)
LEMMA CheckedAgrees ==
  ASSUME NEW tool, NEW R \in SUBSET Plain,
         NEW x \in Special, SchemaOf(tool) = Schema(R \cup {x}, {}),
         NEW T, "good" \in T, T \cap Faults(x) = {},
         NEW s, Checks(s, x, T),
         NEW then \in Wraps \cup {"direct"},
         Executor(tool) = Tool(Strings(R) \o s \o Find, then)
  PROVE  Agree(tool)
<1> DEFINE A == [(R \cup {x}) \cup {} -> Classes]
           Good == {args \in A : (\A p \in R : args[p] \in Read) /\ args[x] \in T}
<1>1. ASSUME NEW args \in A PROVE Part(Strings(R) \o s, args, args \in Good)
  <2> DEFINE plain == \A p \in R : args[p] \in Read
             own == args[x] \in T
  <2>1. Part(Strings(R), args, plain) /\ Part(s, args, own)
    BY StringsPart, Names DEF Read, Checks
  <2>2. args \in Good <=> plain /\ own
    OBVIOUS
  <2> HIDE DEF plain, own, Good
  <2>3. Part(Strings(R) \o s, args, plain /\ own)
    BY <2>1, Join
  <2> DEFINE c == Strings(R) \o s
  <2> HIDE DEF c
  <2>4. /\ c \in Seq(Steps)
        /\ plain /\ own <=> \A i \in 1..Len(c) : Passes(c[i], args)
    BY <2>3 DEF Part, c
  <2>5. args \in Good <=> \A i \in 1..Len(c) : Passes(c[i], args)
    BY <2>2, <2>4
  <2> QED BY <2>4, <2>5 DEF Part, c
<1>2. ASSUME NEW args \in A
      PROVE  /\ AsItSays(R \cup {x}, args) => args \in Good
             /\ Against(R \cup {x}, args) => args \notin Good
  <2>1. /\ AsItSays(R, args) => \A p \in R : args[p] \in Read
        /\ Against(R, args) => ~\A p \in R : args[p] \in Read
    BY PlainArguments
  <2>2. AsItSays(R \cup {x}, args) => AsItSays(R, args) /\ args[x] = "good"
    BY Names DEF AsItSays
  <2>3. Against(R \cup {x}, args) => Against(R, args) \/ args[x] \notin T
    BY DEF Against
  <2> QED BY <2>1, <2>2, <2>3
<1> HIDE DEF Good
<1>3. (R \cup {x}) \cap {} = {}
  OBVIOUS
<1> QED BY <1>1, <1>2, <1>3, AgreesBy

(* Checks that take every list of some optional arguments.                 *)
Lenient(s, O) == \A args : Optional(O, args) => Part(s, args, TRUE)

LEMMA ValueIsLenient == ASSUME NEW O \in SUBSET Parameters PROVE Lenient(Value(O), O)
<1> SUFFICES ASSUME NEW args, Optional(O, args) PROVE Part(Value(O), args, TRUE)
  BY DEF Lenient
<1> DEFINE read == \A p \in O : args[p] \in Classes \ {"ill"}
<1>1. read
  BY DEF Optional, Classes
<1>2. Part(Value(O), args, read)
  BY ValuePart
<1> HIDE DEF read
<1> QED BY <1>1, <1>2 DEF Part

(* No required parameter, and the answer on the service thread.            *)
LEMMA DirectAgrees ==
  ASSUME NEW tool, NEW O, SchemaOf(tool) = Schema({}, O),
         NEW s, Executor(tool) = Tool(s, "direct"),
         Lenient(s, O)
  PROVE  Agree(tool)
<1>1. \A args : ExecuteTool(tool, args) = Verdict(s, "direct", args)
  <2>1. Executor(tool).steps = s /\ Executor(tool).then = "direct"
    BY DEF Tool
  <2> QED BY <2>1 DEF ExecuteTool, Verdict
<1>2. {} \cap O = {}
  OBVIOUS
<1>3. ASSUME NEW args \in GoodLists(tool)
      PROVE  ExecuteTool(tool, args) \subseteq AllVerdicts \ TurnedDown
  <2>1. Optional(O, args)
    BY <1>2, ListsAre
  <2>2. Verdict(s, "direct", args) = {"direct"}
    <3> DEFINE always == TRUE
    <3>1. always /\ Part(s, args, always)
      BY <2>1 DEF Lenient
    <3> HIDE DEF always
    <3> QED BY <3>1, DecidedDirect
  <2> QED BY <1>1, <2>2 DEF AllVerdicts, TurnedDown
<1>4. ASSUME NEW args \in FaultyLists(tool)
      PROVE  ExecuteTool(tool, args) \subseteq TurnedDown
  <2>1. Against({}, args)
    BY <1>2, ListsAre
  <2> QED BY <2>1 DEF Against
<1> QED BY <1>3, <1>4 DEF Agree

-----------------------------------------------------------------------------
(* The seven modules.                                                      *)

LEMMA PatchToolsAgree == \A tool \in DOMAIN PatchSchemas : Agree(tool)
<1>1. Agree("list_active_patches")
  <2>1. /\ PatchSchemas["list_active_patches"] = Schema({}, {"group"})
        /\ PatchExecutors["list_active_patches"] = Tool(Value({"group"}), "direct")
    BY DEF PatchSchemas, PatchExecutors
  <2>2. Lenient(Value({"group"}), {"group"})
    BY ValueIsLenient DEF Parameters, Plain
  <2> QED BY <2>1, <2>2, Modules, Dispatch, DirectAgrees
<1>2. Agree("get_patch_info")
  <2>1. /\ PatchSchemas["get_patch_info"] = Schema({"patch_id"}, {})
        /\ PatchExecutors["get_patch_info"] = Tool(Strings({"patch_id"}) \o Find, "direct")
    BY DEF PatchSchemas, PatchExecutors
  <2>2. {"patch_id"} \in SUBSET Plain
    BY DEF Plain
  <2> QED BY <2>1, <2>2, Modules, Dispatch, PlainAgrees
<1>3. Agree("get_frontmost_patch")
  <2>1. /\ PatchSchemas["get_frontmost_patch"] = Schema({}, {})
        /\ PatchExecutors["get_frontmost_patch"] = Tool(<<>>, "direct")
    BY DEF PatchSchemas, PatchExecutors
  <2> QED BY <2>1, Modules, Dispatch, DirectAgrees, EmptyPart DEF Lenient
<1> QED BY <1>1, <1>2, <1>3, Modules

LEMMA StateToolsAgree == \A tool \in DOMAIN StateSchemas : Agree(tool)
<1> DEFINE R == {"patch_id"}
<1>0. R \in SUBSET Plain
  BY DEF Plain
<1>1. /\ StateSchemas["get_patch_lock_state"] = Schema(R, {})
      /\ StateExecutors["get_patch_lock_state"] = Tool(Strings(R) \o Find, "Always")
      /\ StateSchemas["get_patch_dirty"] = Schema(R, {})
      /\ StateExecutors["get_patch_dirty"] = Tool(Strings(R) \o Find, "Always")
  BY DEF StateSchemas, StateExecutors
<1>2. /\ StateSchemas["set_patch_lock_state"] = Schema(R \cup {"locked"}, {})
      /\ StateExecutors["set_patch_lock_state"]
           = Tool(Strings(R) \o Check("locked") \o Find, "Always")
  <2>1. {"patch_id", "locked"} = R \cup {"locked"}
    OBVIOUS
  <2> QED BY <2>1 DEF StateSchemas, StateExecutors
<1>3. "Always" \in Wraps \cup {"direct"}
  BY DEF Wraps
<1> HIDE DEF R
<1>4. Agree("get_patch_lock_state") /\ Agree("get_patch_dirty")
  BY <1>0, <1>1, <1>3, Modules, Dispatch, PlainAgrees
<1>5. Agree("set_patch_lock_state")
  <2>1. /\ "locked" \in Special /\ {"good"} \cap Faults("locked") = {}
        /\ Checks(Check("locked"), "locked", {"good"})
    BY CheckPart DEF Special, Parameters, Faults
  <2> QED BY <1>0, <1>2, <1>3, <2>1, Modules, Dispatch, CheckedAgrees
<1> QED BY <1>4, <1>5, Modules

LEMMA HierarchyToolsAgree == \A tool \in DOMAIN HierarchySchemas : Agree(tool)
<1> DEFINE R == {"patch_id"}
<1>0. R \in SUBSET Plain
  BY DEF Plain
<1>1. /\ HierarchySchemas["get_parent_patcher"] = Schema(R, {})
      /\ HierarchyExecutors["get_parent_patcher"] = Tool(Strings(R) \o Find, "OnSuccess")
      /\ HierarchySchemas["get_subpatchers"] = Schema(R, {})
      /\ HierarchyExecutors["get_subpatchers"] = Tool(Strings(R) \o Find, "Always")
  BY DEF HierarchySchemas, HierarchyExecutors
<1>2. {"Always", "OnSuccess"} \subseteq Wraps \cup {"direct"}
  BY DEF Wraps
<1> HIDE DEF R
<1>3. Agree("get_parent_patcher") /\ Agree("get_subpatchers")
  BY <1>0, <1>1, <1>2, Modules, Dispatch, PlainAgrees
<1> QED BY <1>3, Modules

LEMMA ConnectionToolsAgree == \A tool \in DOMAIN ConnectionSchemas : Agree(tool)
<1>0. Cord \in SUBSET Plain /\ {"patch_id"} \in SUBSET Plain /\ OfCord = Strings(Cord)
  <2>1. {"patch_id", "src_varname", "dst_varname", "outlet", "inlet"} = Cord
    BY DEF Cord
  <2> QED BY <2>1 DEF Cord, Plain, OfCord
<1>1. /\ ConnectionSchemas["connect_max_objects"] = Schema(Cord, {})
      /\ ConnectionExecutors["connect_max_objects"] = Tool(OfCord \o Find, "Raw")
      /\ ConnectionSchemas["disconnect_max_objects"] = Schema(Cord, {})
      /\ ConnectionExecutors["disconnect_max_objects"] = Tool(OfCord \o Find, "Raw")
      /\ ConnectionSchemas["get_patchlines"] = Schema({"patch_id"}, {"mode"})
      /\ ConnectionExecutors["get_patchlines"]
           = Tool(Strings({"patch_id"}) \o Find \o Value({"mode"}), "Always")
      /\ ConnectionSchemas["set_patchline_midpoints"] = Schema(Cord \cup {"midpoints"}, {})
      /\ ConnectionExecutors["set_patchline_midpoints"] = SetPatchlineMidpoints
  BY DEF ConnectionSchemas, ConnectionExecutors, ConnectMaxObjects, DisconnectMaxObjects,
         GetPatchlines
<1>2. {"Raw", "Always"} \subseteq Wraps \cup {"direct"}
  BY DEF Wraps
<1>3. Agree("connect_max_objects") /\ Agree("disconnect_max_objects")
  BY <1>0, <1>1, <1>2, Modules, Dispatch, PlainAgrees
<1>4. Agree("get_patchlines")
  <2>1. {"mode"} \in SUBSET Parameters /\ {"patch_id"} \cap {"mode"} = {}
    BY DEF Parameters, Special
  <2> QED BY <1>0, <1>1, <1>2, <2>1, Modules, Dispatch, PlainAgreesThen
<1>5. Agree("set_patchline_midpoints")
  <2> DEFINE T == {"good", "empty"}
             s == Step({"midpoints"}, T, {"refused"})
  <2>1. "midpoints" \in Special /\ "good" \in T /\ T \cap Faults("midpoints") = {}
    BY DEF Special, Faults
  <2>2. Checks(s, "midpoints", T)
    BY StepChecks DEF Special, Parameters, Classes, TurnedDown
  <2>3. SetPatchlineMidpoints = Tool(Strings(Cord) \o s \o Find, "Raw")
    BY <1>0 DEF SetPatchlineMidpoints
  <2> HIDE DEF T, s
  <2> QED BY <1>0, <1>1, <1>2, <2>1, <2>2, <2>3, Modules, Dispatch, CheckedAgrees
<1> QED BY <1>3, <1>4, <1>5, Modules

(* The checks of two parameters, one after the other.                      *)
LEMMA ChecksThen ==
  ASSUME NEW args, NEW s, NEW ok, Part(s, args, ok), NEW t, NEW p, NEW T, Checks(t, p, T)
  PROVE  Part(s \o t, args, ok /\ args[p] \in T)
<1> DEFINE own == args[p] \in T
<1>1. Part(t, args, own)
  BY DEF Checks
<1> HIDE DEF own
<1>2. Part(s \o t, args, ok /\ own)
  BY <1>1, Join
<1> QED BY <1>2 DEF own

LEMMA UtilityToolsAgree == \A tool \in DOMAIN UtilitySchemas : Agree(tool)
<1>1. Agree("get_console_log")
  <2> DEFINE O == {"lines", "clear"}
  <2>1. /\ UtilitySchemas["get_console_log"] = Schema({}, O)
        /\ UtilityExecutors["get_console_log"] = Tool(Value(O), "direct")
    BY DEF UtilitySchemas, UtilityExecutors
  <2>2. O \in SUBSET Parameters
    BY DEF Parameters, Plain
  <2> HIDE DEF O
  <2> QED BY <2>1, <2>2, ValueIsLenient, Modules, Dispatch, DirectAgrees
<1>2. Agree("get_avoid_rect_position")
  <2> DEFINE R == {"patch_id"}
             O == {"width", "height", "near_x", "near_y"}
             A == {"patch_id", "width", "height"}
             B == {"near_x", "near_y"}
             s == Value(A) \o Need(R) \o Value(B)
             one(args) == \A p \in A : args[p] \in Classes \ {"ill"}
             two(args) == \A p \in R : args[p] \in Classes \ {"absent", "empty"}
             three(args) == \A p \in B : args[p] \in Classes \ {"ill"}
             Good == {args \in [R \cup O -> Classes] : one(args) /\ two(args) /\ three(args)}
  <2>1. /\ UtilitySchemas["get_avoid_rect_position"] = Schema(R, O)
        /\ UtilityExecutors["get_avoid_rect_position"] = Tool(s \o Find, "Always")
    BY DEF UtilitySchemas, UtilityExecutors
  <2>2. "Always" \in Wraps \cup {"direct"} /\ R \cap O = {}
    BY DEF Wraps
  <2>3. ASSUME NEW args \in [R \cup O -> Classes] PROVE Part(s, args, args \in Good)
    <3>1. args \in Good <=> one(args) /\ two(args) /\ three(args)
      OBVIOUS
    <3>2. /\ A \in SUBSET Parameters /\ B \in SUBSET Parameters /\ R \in SUBSET Parameters
      BY DEF Parameters, Plain
    <3>3. /\ Part(Value(A), args, one(args)) /\ Part(Need(R), args, two(args))
          /\ Part(Value(B), args, three(args))
      BY <3>2, ValuePart, NeedPart
    <3> HIDE DEF A, B, R, one, two, three, Good
    <3>4. Part(Value(A) \o Need(R), args, one(args) /\ two(args))
      BY <3>3, Join
    <3> DEFINE both == one(args) /\ two(args)
               t == Value(A) \o Need(R)
    <3>5. Part(t, args, both)
      BY <3>4
    <3> HIDE DEF both, t
    <3>6. Part(t \o Value(B), args, both /\ three(args))
      BY <3>3, <3>5, Join
    <3>7. args \in Good <=> both /\ three(args)
      BY <3>1 DEF both
    <3>8. Part(t \o Value(B), args, args \in Good)
      BY <3>6, <3>7, Renamed
    <3> QED BY <3>8 DEF t
  <2>4. ASSUME NEW args \in [R \cup O -> Classes], Optional(O, args)
        PROVE  /\ AsItSays(R, args) => args \in Good
               /\ Against(R, args) => args \notin Good
    <3>1. Faults("patch_id") = {"absent", "empty", "ill"}
      BY DEF Faults
    <3> QED BY <2>4, <3>1 DEF AsItSays, Against, Optional, Classes
  <2> HIDE DEF R, O, s, Good
  <2>5. /\ SchemaOf("get_avoid_rect_position") = Schema(R, O)
        /\ Executor("get_avoid_rect_position") = Tool(s \o Find, "Always")
    BY <2>1, Modules, Dispatch
  <2> QED BY <2>2, <2>3, <2>4, <2>5, AgreesBy
<1> QED BY <1>1, <1>2, Modules

(* The checks of a tool without optional parameters, parameter by          *)
(* parameter.                                                              *)
LEMMA TestsAgree ==
  ASSUME NEW tool, NEW R, SchemaOf(tool) = Schema(R, {}),
         NEW s, NEW then \in Wraps \cup {"direct"}, Executor(tool) = Tool(s \o Find, then),
         NEW T, \A args : Part(s, args, \A p \in R : args[p] \in T[p]),
         \A p \in R : "good" \in T[p] /\ T[p] \cap Faults(p) = {},
         "unknown" \in T["patch_id"]
  PROVE  Agree(tool)
<1> DEFINE Good == {args \in [R \cup {} -> Classes] : \A p \in R : args[p] \in T[p]}
<1>1. \A args \in [R \cup {} -> Classes] : Part(s, args, args \in Good)
  BY DEF Part
<1>2. \A args \in [R \cup {} -> Classes] :
         Optional({}, args) => /\ AsItSays(R, args) => args \in Good
                               /\ Against(R, args) => args \notin Good
  BY DEF AsItSays, Against
<1> HIDE DEF Good
<1>3. R \cap {} = {}
  OBVIOUS
<1> QED BY <1>1, <1>2, <1>3, AgreesBy

LEMMA EndpointChecks ==
  ASSUME NEW p \in Parameters PROVE Checks(ParseEndpoint(p), p, {"good"})
<1> SUFFICES ASSUME NEW args PROVE Part(ParseEndpoint(p), args, args[p] \in {"good"})
  BY DEF Checks
<1> DEFINE s == Step({p}, Classes \ {"odd"}, {"throws", "refused"})
           even == args[p] \in Classes \ {"odd"}
<1>1. Part(s, args, even)
  BY StepChecks DEF Checks, TurnedDown
<1>2. Checks(Check(p), p, {"good"})
  BY CheckPart
<1>3. even /\ args[p] \in {"good"} <=> args[p] \in {"good"}
  BY DEF Classes
<1>4. ParseEndpoint(p) = s \o Check(p)
  BY DEF ParseEndpoint
<1> HIDE DEF s, even
<1>5. Part(s \o Check(p), args, even /\ args[p] \in {"good"})
  BY <1>1, <1>2, ChecksThen
<1> QED BY <1>3, <1>4, <1>5, Renamed

LEMMA LayoutToolsAgree == \A tool \in DOMAIN LayoutSchemas : Agree(tool)
<1>0. {"Always", "OnSuccess"} \subseteq Wraps \cup {"direct"}
  BY DEF Wraps
<1>1. Agree("validate_layout")
  <2> DEFINE R == {"patch_id"}
             O == {"scope_varnames", "mode", "checks", "epsilon"}
             P == {"epsilon", "mode"}
  <2>1. /\ LayoutSchemas["validate_layout"] = Schema(R, O)
        /\ LayoutExecutors["validate_layout"] = Tool(Strings(R) \o Find \o Value(P), "Always")
    BY DEF LayoutSchemas, LayoutExecutors, ValidateLayout
  <2>2. R \in SUBSET Plain /\ P \in SUBSET Parameters /\ R \cap O = {} /\ P \subseteq O
    BY DEF Parameters, Plain, Special
  <2> HIDE DEF R, O, P
  <2>3. /\ SchemaOf("validate_layout") = Schema(R, O)
        /\ Executor("validate_layout") = Tool(Strings(R) \o Find \o Value(P), "Always")
    BY <2>1, Modules, Dispatch
  <2> QED BY <1>0, <2>2, <2>3, PlainAgreesThen
<1>2. Agree("get_io_position")
  <2> DEFINE R == {"patch_id", "varname", "side"}
             s == Strings(R) \o Word("side")
             T == [p \in R |-> IF p = "side" THEN Read \ {"unknown"} ELSE Read]
             read(args) == \A p \in R : args[p] \in Read
  <2>1. /\ LayoutSchemas["get_io_position"] = Schema(R, {})
        /\ LayoutExecutors["get_io_position"] = Tool(s \o Find, "OnSuccess")
    BY DEF LayoutSchemas, LayoutExecutors, GetIoPosition
  <2>2. R \in SUBSET Parameters /\ "side" \in Parameters
    BY DEF Parameters, Plain, Special
  <2>3. \A args : Part(s, args, \A p \in R : args[p] \in T[p])
    <3> SUFFICES ASSUME NEW args PROVE Part(s, args, \A p \in R : args[p] \in T[p])
      OBVIOUS
    <3>1. /\ Part(Strings(R), args, read(args))
          /\ Checks(Word("side"), "side", Classes \ {"unknown"})
      BY <2>2, StringsPart, WordPart DEF Read
    <3>2. read(args) /\ args["side"] \in Classes \ {"unknown"}
            <=> \A p \in R : args[p] \in T[p]
      BY DEF Read, Classes
    <3> HIDE DEF read, T, R
    <3>3. Part(s, args, read(args) /\ args["side"] \in Classes \ {"unknown"})
      BY <3>1, ChecksThen
    <3> HIDE DEF s
    <3> QED BY <3>2, <3>3, Renamed
  <2>4. \A p \in R : "good" \in T[p] /\ T[p] \cap Faults(p) = {}
    BY DEF Faults, Read
  <2>5. "unknown" \in T["patch_id"]
    BY DEF Read
  <2> HIDE DEF R, s, T
  <2>6. /\ SchemaOf("get_io_position") = Schema(R, {})
        /\ Executor("get_io_position") = Tool(s \o Find, "OnSuccess")
    BY <2>1, Modules, Dispatch
  <2> QED BY <1>0, <2>3, <2>4, <2>5, <2>6, TestsAgree
<1>3. Agree("suggest_alignment")
  <2> DEFINE R == {"patch_id", "anchor", "target", "adjust"}
             Q == {"patch_id", "adjust"}
             s == Strings(Q) \o Word("adjust") \o ParseEndpoint("anchor") \o ParseEndpoint("target")
             T == [p \in R |-> IF p = "patch_id" THEN Read
                               ELSE IF p = "adjust" THEN Read \ {"unknown"} ELSE {"good"}]
             read(args) == \A p \in Q : args[p] \in Read
  <2>1. /\ LayoutSchemas["suggest_alignment"] = Schema(R, {})
        /\ LayoutExecutors["suggest_alignment"] = Tool(s \o Find, "OnSuccess")
    BY DEF LayoutSchemas, LayoutExecutors, SuggestAlignment
  <2>2. Q \in SUBSET Parameters /\ {"adjust", "anchor", "target"} \subseteq Parameters
    BY DEF Parameters, Plain, Special
  <2>3. \A args : Part(s, args, \A p \in R : args[p] \in T[p])
    <3> SUFFICES ASSUME NEW args PROVE Part(s, args, \A p \in R : args[p] \in T[p])
      OBVIOUS
    <3>1. /\ Part(Strings(Q), args, read(args))
          /\ Checks(Word("adjust"), "adjust", Classes \ {"unknown"})
          /\ Checks(ParseEndpoint("anchor"), "anchor", {"good"})
          /\ Checks(ParseEndpoint("target"), "target", {"good"})
      BY <2>2, StringsPart, WordPart, EndpointChecks DEF Read
    <3>2. (( read(args) /\ args["adjust"] \in Classes \ {"unknown"})
             /\ args["anchor"] \in {"good"}) /\ args["target"] \in {"good"}
            <=> \A p \in R : args[p] \in T[p]
      BY DEF Read, Classes
    <3> HIDE DEF read, T, R, Q
    <3>3. Part(Strings(Q) \o Word("adjust"), args,
               read(args) /\ args["adjust"] \in Classes \ {"unknown"})
      BY <3>1, ChecksThen
    <3> DEFINE two == read(args) /\ args["adjust"] \in Classes \ {"unknown"}
               t == Strings(Q) \o Word("adjust")
               three == two /\ args["anchor"] \in {"good"}
               u == t \o ParseEndpoint("anchor")
    <3>4. Part(t, args, two)
      BY <3>3
    <3> HIDE DEF two, t
    <3>5. Part(u, args, three)
      BY <3>1, <3>4, ChecksThen
    <3> HIDE DEF three, u
    <3>6. Part(u \o ParseEndpoint("target"), args, three /\ args["target"] \in {"good"})
      BY <3>1, <3>5, ChecksThen
    <3>7. s = u \o ParseEndpoint("target")
      BY DEF t, u
    <3>8. three /\ args["target"] \in {"good"} <=> \A p \in R : args[p] \in T[p]
      BY <3>2 DEF two, three
    <3> HIDE DEF s
    <3> QED BY <3>6, <3>7, <3>8, Renamed
  <2>4. \A p \in R : "good" \in T[p] /\ T[p] \cap Faults(p) = {}
    BY DEF Faults, Read
  <2>5. "unknown" \in T["patch_id"]
    BY DEF Read
  <2> HIDE DEF R, s, T
  <2>6. /\ SchemaOf("suggest_alignment") = Schema(R, {})
        /\ Executor("suggest_alignment") = Tool(s \o Find, "OnSuccess")
    BY <2>1, Modules, Dispatch
  <2> QED BY <1>0, <2>3, <2>4, <2>5, <2>6, TestsAgree
<1>4. Agree("align_objects")
  <2> DEFINE R == {"patch_id", "varnames", "mode"}
             Q == {"patch_id", "mode"}
             s == Strings(Q) \o Word("mode") \o Check("varnames")
             T == [p \in R |-> IF p = "patch_id" THEN Read
                               ELSE IF p = "mode" THEN Read \ {"unknown"} ELSE {"good"}]
             read(args) == \A p \in Q : args[p] \in Read
  <2>1. /\ LayoutSchemas["align_objects"] = Schema(R, {})
        /\ LayoutExecutors["align_objects"] = Tool(s \o Find, "OnSuccess")
    BY DEF LayoutSchemas, LayoutExecutors, AlignObjects
  <2>2. Q \in SUBSET Parameters /\ {"mode", "varnames"} \subseteq Parameters
    BY DEF Parameters, Plain, Special
  <2>3. \A args : Part(s, args, \A p \in R : args[p] \in T[p])
    <3> SUFFICES ASSUME NEW args PROVE Part(s, args, \A p \in R : args[p] \in T[p])
      OBVIOUS
    <3>1. /\ Part(Strings(Q), args, read(args))
          /\ Checks(Word("mode"), "mode", Classes \ {"unknown"})
          /\ Checks(Check("varnames"), "varnames", {"good"})
      BY <2>2, StringsPart, WordPart, CheckPart DEF Read
    <3>2. (read(args) /\ args["mode"] \in Classes \ {"unknown"}) /\ args["varnames"] \in {"good"}
            <=> \A p \in R : args[p] \in T[p]
      BY DEF Read, Classes
    <3> HIDE DEF read, T, R, Q
    <3> DEFINE two == read(args) /\ args["mode"] \in Classes \ {"unknown"}
               t == Strings(Q) \o Word("mode")
    <3>3. Part(t, args, two)
      BY <3>1, ChecksThen
    <3> HIDE DEF two, t
    <3>4. Part(t \o Check("varnames"), args, two /\ args["varnames"] \in {"good"})
      BY <3>1, <3>3, ChecksThen
    <3>5. s = t \o Check("varnames")
      BY DEF t
    <3>6. two /\ args["varnames"] \in {"good"} <=> \A p \in R : args[p] \in T[p]
      BY <3>2 DEF two
    <3> HIDE DEF s
    <3> QED BY <3>4, <3>5, <3>6, Renamed
  <2>4. \A p \in R : "good" \in T[p] /\ T[p] \cap Faults(p) = {}
    BY DEF Faults, Read
  <2>5. "unknown" \in T["patch_id"]
    BY DEF Read
  <2> HIDE DEF R, s, T
  <2>6. /\ SchemaOf("align_objects") = Schema(R, {})
        /\ Executor("align_objects") = Tool(s \o Find, "OnSuccess")
    BY <2>1, Modules, Dispatch
  <2> QED BY <1>0, <2>3, <2>4, <2>5, <2>6, TestsAgree
<1> QED BY <1>1, <1>2, <1>3, <1>4, Modules

LEMMA ObjectToolsAgree == \A tool \in DOMAIN ObjectSchemas : Agree(tool)
<1> DEFINE R == {"patch_id", "varname"}
           Q == {"patch_id"}
<1>0. /\ {"Raw", "Always", "OnSuccess", "Replace"} \subseteq Wraps \cup {"direct"}
      /\ R \in SUBSET Plain /\ Q \in SUBSET Plain
  BY DEF Wraps, Plain
<1>1. Agree("add_max_object")
  <2> DEFINE N == {"patch_id", "obj_type", "position"}
             O == {"varname", "arguments", "attributes"}
             A == {"patch_id", "obj_type", "varname"}
             B == {"patch_id", "obj_type"}
             sa == Step({"attributes"}, Classes \ {"odd"}, {"refused"})
             sp == Step({"position"}, {"good", "odd"}, {"refused"})
             sq == Step({"position"}, {"good"}, {"throws"})
             s == Value(A) \o sa \o Need(B) \o sp \o sq
             one(args) == \A p \in A : args[p] \in Classes \ {"ill"}
             two(args) == one(args) /\ args["attributes"] \in Classes \ {"odd"}
             need(args) == \A p \in B : args[p] \in Classes \ {"absent", "empty"}
             three(args) == two(args) /\ need(args)
             four(args) == three(args) /\ args["position"] \in {"good", "odd"}
             five(args) == four(args) /\ args["position"] \in {"good"}
             Good == {args \in [N \cup O -> Classes] : five(args)}
  <2>1. /\ ObjectSchemas["add_max_object"] = Schema(N, O)
        /\ ObjectExecutors["add_max_object"] = Tool(s \o Find, "Raw")
    BY DEF ObjectSchemas, ObjectExecutors, AddMaxObject
  <2>2. N \cap O = {}
    OBVIOUS
  <2>3. /\ A \in SUBSET Parameters /\ B \in SUBSET Parameters
        /\ Checks(sa, "attributes", Classes \ {"odd"})
        /\ Checks(sp, "position", {"good", "odd"})
        /\ Checks(sq, "position", {"good"})
    BY StepChecks DEF Parameters, Plain, Special, Classes, TurnedDown
  <2>4. ASSUME NEW args \in [N \cup O -> Classes] PROVE Part(s, args, args \in Good)
    <3> DEFINE t == Value(A) \o sa
               u == t \o Need(B)
               v == u \o sp
    <3>0. /\ s = v \o sq /\ (args \in Good <=> five(args))
          /\ Part(Value(A), args, one(args)) /\ Part(Need(B), args, need(args))
      BY <2>3, ValuePart, NeedPart
    <3> HIDE DEF s, v, A, B, sa, sp, sq, one, need, Good
    <3>1. Part(t, args, two(args))
      BY <2>3, <3>0, ChecksThen
    <3> HIDE DEF t, two
    <3>2. Part(u, args, three(args))
      BY <3>0, <3>1, Join
    <3> HIDE DEF u, three
    <3>3. Part(u \o sp, args, four(args))
      BY <2>3, <3>2, ChecksThen
    <3>4. Part(v, args, four(args))
      BY <3>3 DEF v
    <3> HIDE DEF four
    <3>5. Part(v \o sq, args, five(args))
      BY <2>3, <3>4, ChecksThen
    <3>6. Part(v \o sq, args, args \in Good)
      BY <3>0, <3>5, Renamed
    <3> QED BY <3>0, <3>6
  <2>5. ASSUME NEW args \in [N \cup O -> Classes], Optional(O, args)
        PROVE  /\ AsItSays(N, args) => args \in Good
               /\ Against(N, args) => args \notin Good
    <3>1. /\ \A p \in B : Faults(p) = {"absent", "empty", "ill"}
          /\ Faults("position") = {"absent", "empty", "ill", "odd"}
      BY DEF Faults
    <3>2. Against(N, args) => args \notin Good
      <4> HIDE DEF O, Good
      <4>1. args \in Good => five(args)
        BY DEF Good
      <4> QED BY <3>1, <4>1 DEF Against
    <3>3. AsItSays(N, args) => args \in Good
      BY <2>5 DEF AsItSays, Optional, Classes
    <3> QED BY <3>2, <3>3
  <2> HIDE DEF N, O, s, Good
  <2>6. /\ SchemaOf("add_max_object") = Schema(N, O)
        /\ Executor("add_max_object") = Tool(s \o Find, "Raw")
    BY <2>1, Modules, Dispatch
  <2> QED BY <1>0, <2>2, <2>4, <2>5, <2>6, AgreesBy
<1>2. Agree("get_objects_in_patch")
  <2>1. /\ ObjectSchemas["get_objects_in_patch"] = Schema(Q, {"mode"})
        /\ ObjectExecutors["get_objects_in_patch"]
             = Tool(Strings(Q) \o Find \o Value({"mode"}), "Always")
    BY DEF ObjectSchemas, ObjectExecutors, GetObjectsInPatch
  <2>2. {"mode"} \in SUBSET Parameters /\ Q \cap {"mode"} = {}
    BY DEF Parameters, Special
  <2> HIDE DEF Q
  <2> QED BY <1>0, <2>1, <2>2, Modules, Dispatch, PlainAgreesThen
<1>3. Agree("get_object_attribute") /\ Agree("replace_object_text")
  <2> DEFINE N == {"patch_id", "varname", "attribute"}
             M == {"patch_id", "varname", "new_text"}
  <2>1. /\ ObjectSchemas["get_object_attribute"] = Schema(N, {})
        /\ ObjectExecutors["get_object_attribute"] = Tool(Strings(N) \o Find, "Raw")
        /\ ObjectSchemas["replace_object_text"] = Schema(M, {})
        /\ ObjectExecutors["replace_object_text"] = Tool(Strings(M) \o Find, "Replace")
        /\ N \in SUBSET Plain /\ M \in SUBSET Plain
    BY DEF ObjectSchemas, ObjectExecutors, GetObjectAttribute, ReplaceObjectText, Plain
  <2> HIDE DEF N, M
  <2> QED BY <1>0, <2>1, Modules, Dispatch, PlainAgrees
<1>4. /\ Agree("remove_max_object") /\ Agree("get_object_io_info") /\ Agree("get_object_hidden")
      /\ Agree("redraw_object") /\ Agree("get_object_value")
  <2>1. Strings(R) \o <<>> = Strings(R)
    <3>1. R \in SUBSET Parameters
      BY <1>0, Names
    <3> DEFINE free == [p \in Parameters |-> "good"]
               read == \A p \in R : free[p] \in {"good", "unknown", "odd"}
    <3>2. Part(Strings(R), free, read)
      BY <3>1, StringsPart
    <3> QED BY <3>2, ConcatEmptySeq DEF Part
  <2>2. /\ ObjectSchemas["remove_max_object"] = Schema(R, {})
        /\ ObjectSchemas["get_object_io_info"] = Schema(R, {})
        /\ ObjectSchemas["get_object_hidden"] = Schema(R, {})
        /\ ObjectSchemas["redraw_object"] = Schema(R, {})
        /\ ObjectSchemas["get_object_value"] = Schema(R, {})
    BY DEF ObjectSchemas
  <2>3. /\ ObjectExecutors["remove_max_object"] = OfObject(<<>>, "Raw")
        /\ ObjectExecutors["get_object_io_info"] = OfObject(<<>>, "OnSuccess")
        /\ ObjectExecutors["get_object_hidden"] = OfObject(<<>>, "OnSuccess")
        /\ ObjectExecutors["redraw_object"] = OfObject(<<>>, "OnSuccess")
        /\ ObjectExecutors["get_object_value"] = OfObject(<<>>, "Raw")
    BY DEF ObjectExecutors, RemoveMaxObject, GetObjectIoInfo, GetObjectHidden, RedrawObject,
           GetObjectValue
  <2>4. \A then : OfObject(<<>>, then) = Tool(Strings(R) \o Find, then)
    BY <2>1 DEF OfObject
  <2> HIDE DEF R
  <2> QED BY <1>0, <2>2, <2>3, <2>4, Modules, Dispatch, PlainAgrees
<1>5. Agree("set_object_hidden")
  <2>1. /\ "hidden" \in Special /\ {"good"} \cap Faults("hidden") = {}
        /\ Checks(Check("hidden"), "hidden", {"good"})
    BY CheckPart DEF Special, Parameters, Faults
  <2>2. /\ ObjectSchemas["set_object_hidden"] = Schema(R \cup {"hidden"}, {})
        /\ ObjectExecutors["set_object_hidden"]
             = Tool(Strings(R) \o Check("hidden") \o Find, "OnSuccess")
    <3>1. {"patch_id", "varname", "hidden"} = R \cup {"hidden"}
      OBVIOUS
    <3> QED BY <3>1 DEF ObjectSchemas, ObjectExecutors, SetObjectHidden, OfObject
  <2> HIDE DEF R
  <2> QED BY <1>0, <2>1, <2>2, Modules, Dispatch, CheckedAgrees
<1>6. Agree("assign_varnames")
  <2>1. /\ "assignments" \in Special /\ {"good"} \cap Faults("assignments") = {}
        /\ Checks(Check("assignments"), "assignments", {"good"})
    BY CheckPart DEF Special, Parameters, Faults
  <2>2. /\ ObjectSchemas["assign_varnames"] = Schema(Q \cup {"assignments"}, {})
        /\ ObjectExecutors["assign_varnames"]
             = Tool(Strings(Q) \o Check("assignments") \o Find, "Raw")
    <3>1. {"patch_id", "assignments"} = Q \cup {"assignments"}
      OBVIOUS
    <3> QED BY <3>1 DEF ObjectSchemas, ObjectExecutors, AssignVarnames
  <2> HIDE DEF Q
  <2> QED BY <1>0, <2>1, <2>2, Modules, Dispatch, CheckedAgrees
<1>7. Agree("set_object_attribute")
  <2> DEFINE N == {"patch_id", "varname", "attribute"}
             T == Classes \ {"absent"}
             s == Step({"value"}, T, {"refused"})
  <2>1. /\ "value" \in Special /\ "good" \in T /\ T \cap Faults("value") = {}
        /\ Checks(s, "value", T)
    BY StepChecks DEF Special, Parameters, Faults, Classes, TurnedDown
  <2>2. /\ ObjectSchemas["set_object_attribute"] = Schema(N \cup {"value"}, {})
        /\ ObjectExecutors["set_object_attribute"] = Tool(Strings(N) \o s \o Find, "Raw")
        /\ N \in SUBSET Plain
    <3>1. {"patch_id", "varname", "attribute", "value"} = N \cup {"value"}
      OBVIOUS
    <3> QED BY <3>1 DEF ObjectSchemas, ObjectExecutors, SetObjectAttribute, Plain
  <2> HIDE DEF N, T, s
  <2> QED BY <1>0, <2>1, <2>2, Modules, Dispatch, CheckedAgrees
<1> QED BY <1>1, <1>2, <1>3, <1>4, <1>5, <1>6, <1>7, Modules

-----------------------------------------------------------------------------
(* The executor of every tool agrees with the tool's schema: whatever list *)
(* of arguments a client sends, it is turned down, by an error reply or a  *)
(* throw, if a required argument is against the schema, and is not turned  *)
(* down if all are as it says.                                             *)
THEOREM EveryToolAgrees == \A tool \in ToolNames : Agree(tool)
BY PatchToolsAgree, ObjectToolsAgree, ConnectionToolsAgree, StateToolsAgree, HierarchyToolsAgree,
   UtilityToolsAgree, LayoutToolsAgree DEF ToolNames

LEMMA Outcomes == GoodVerdicts \subseteq AllVerdicts \ TurnedDown /\ FaultyVerdicts \subseteq TurnedDown
<1>1. \A t \in ToolNames : \A args \in GoodLists(t) :
         ExecuteTool(t, args) \subseteq AllVerdicts \ TurnedDown
  BY EveryToolAgrees DEF Agree
<1>2. \A t \in ToolNames : \A args \in FaultyLists(t) : ExecuteTool(t, args) \subseteq TurnedDown
  BY EveryToolAgrees DEF Agree
<1> QED BY <1>1, <1>2 DEF GoodVerdicts, FaultyVerdicts, Verdicts
=============================================================================
