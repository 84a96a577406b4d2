---------------------------- MODULE ToolExecutors ----------------------------
(***************************************************************************)
(* What becomes of a tool call before anything is deferred: the dispatch   *)
(* of MCPServer, the argument checks of every executor in the order of the *)
(* code, and the schemas the server hands out by tools/list, which say     *)
(* what the arguments must be.  Executors, schemas and dispatch are three  *)
(* hand-written tables of 30 tools; the unit tests are compiled without    *)
(* the executors.                                                          *)
(*                                                                         *)
(* An argument is what the checks tell apart:                              *)
(*   good     as the schema describes it                                   *)
(*   unknown  of the right type, but naming no registered patch, or none   *)
(*            of the words the schema lists                                *)
(*   absent   not in the message                                           *)
(*   empty    the empty string or array, a negative index                  *)
(*   ill      of another JSON type                                         *)
(*   odd      an array or object with an element of another type           *)
(*                                                                         *)
(* A tool is the sequence of its checks and what follows when all pass:    *)
(* the way run_deferred() wraps the result of its callback, or "direct"    *)
(* when the service thread answers on its own.                             *)
(***************************************************************************)
EXTENDS SequencesExt

Classes == {"good", "unknown", "absent", "empty", "ill", "odd"}

(* A check: it takes arguments of some classes, and has one of these       *)
(* verdicts on others.  "throws" ends in the handler of                    *)
(* handle_request_string(), "refused" and "unknown" in an error reply.     *)
Step(ps, takes, otherwise) == <<[of |-> ps, takes |-> takes, otherwise |-> otherwise]>>

Value(ps)   == Step(ps, Classes \ {"ill"}, {"throws"})
Need(ps)    == Step(ps, Classes \ {"absent", "empty"}, {"refused"})
Strings(ps) == Value(ps) \o Need(ps)
Word(p)     == Step({p}, Classes \ {"unknown"}, {"refused"})
Check(p)    == Step({p}, {"good"}, {"refused"})
Find        == Step({"patch_id"}, Classes \ {"unknown"}, {"unknown"})

Tool(steps, then) == [steps |-> steps, then |-> then]

-----------------------------------------------------------------------------
(* PatchTools                                                              *)
PatchExecutors ==
  [list_active_patches |-> Tool(Value({"group"}), "direct"),
   get_patch_info      |-> Tool(Strings({"patch_id"}) \o Find, "direct"),
   get_frontmost_patch |-> Tool(<<>>, "direct")]

(* ObjectTools.  The elements of position are read with get<double>().     *)
AddMaxObject ==
  Tool(Value({"patch_id", "obj_type", "varname"})
       \o Step({"attributes"}, Classes \ {"odd"}, {"refused"})
       \o Need({"patch_id", "obj_type"})
       \o Step({"position"}, {"good", "odd"}, {"refused"})
       \o Step({"position"}, {"good"}, {"throws"})
       \o Find, "Raw")
OfObject(more, then) == Tool(Strings({"patch_id", "varname"}) \o more \o Find, then)
RemoveMaxObject == OfObject(<<>>, "Raw")
GetObjectsInPatch == Tool(Strings({"patch_id"}) \o Find \o Value({"mode"}), "Always")
SetObjectAttribute ==
  Tool(Strings({"patch_id", "varname", "attribute"})
       \o Step({"value"}, Classes \ {"absent"}, {"refused"}) \o Find, "Raw")
GetObjectAttribute == Tool(Strings({"patch_id", "varname", "attribute"}) \o Find, "Raw")
GetObjectIoInfo == OfObject(<<>>, "OnSuccess")
GetObjectHidden == OfObject(<<>>, "OnSuccess")
SetObjectHidden == OfObject(Check("hidden"), "OnSuccess")
RedrawObject == OfObject(<<>>, "OnSuccess")
(* Mutant: an empty text is let through.                                   *)
ReplaceObjectTextEmpty ==
  Tool(Value({"patch_id", "varname", "new_text"}) \o Need({"patch_id", "varname"}) \o Find, "Replace")
ReplaceObjectText == Tool(Strings({"patch_id", "varname", "new_text"}) \o Find, "Replace")
AssignVarnames == Tool(Strings({"patch_id"}) \o Check("assignments") \o Find, "Raw")
GetObjectValue == OfObject(<<>>, "Raw")

ObjectExecutors ==
  [add_max_object       |-> AddMaxObject,
   remove_max_object    |-> RemoveMaxObject,
   get_objects_in_patch |-> GetObjectsInPatch,
   set_object_attribute |-> SetObjectAttribute,
   get_object_attribute |-> GetObjectAttribute,
   get_object_io_info   |-> GetObjectIoInfo,
   get_object_hidden    |-> GetObjectHidden,
   set_object_hidden    |-> SetObjectHidden,
   redraw_object        |-> RedrawObject,
   replace_object_text  |-> ReplaceObjectText,
   assign_varnames      |-> AssignVarnames,
   get_object_value     |-> GetObjectValue]

(* ConnectionTools.  A midpoints array may be empty.                       *)
OfCord == Strings({"patch_id", "src_varname", "dst_varname", "outlet", "inlet"})
ConnectMaxObjects == Tool(OfCord \o Find, "Raw")
DisconnectMaxObjects == Tool(OfCord \o Find, "Raw")
GetPatchlines == Tool(Strings({"patch_id"}) \o Find \o Value({"mode"}), "Always")
SetPatchlineMidpoints ==
  Tool(OfCord \o Step({"midpoints"}, {"good", "empty"}, {"refused"}) \o Find, "Raw")

ConnectionExecutors ==
  [connect_max_objects     |-> ConnectMaxObjects,
   disconnect_max_objects  |-> DisconnectMaxObjects,
   get_patchlines          |-> GetPatchlines,
   set_patchline_midpoints |-> SetPatchlineMidpoints]

(* StateTools and HierarchyTools                                           *)
StateExecutors ==
  [get_patch_lock_state |-> Tool(Strings({"patch_id"}) \o Find, "Always"),
   set_patch_lock_state |-> Tool(Strings({"patch_id"}) \o Check("locked") \o Find, "Always"),
   get_patch_dirty      |-> Tool(Strings({"patch_id"}) \o Find, "Always")]

HierarchyExecutors ==
  [get_parent_patcher |-> Tool(Strings({"patch_id"}) \o Find, "OnSuccess"),
   get_subpatchers    |-> Tool(Strings({"patch_id"}) \o Find, "Always")]

(* UtilityTools                                                            *)
UtilityExecutors ==
  [get_console_log         |-> Tool(Value({"lines", "clear"}), "direct"),
   get_avoid_rect_position |->
     Tool(Value({"patch_id", "width", "height"}) \o Need({"patch_id"})
          \o Value({"near_x", "near_y"}) \o Find, "Always")]

(* LayoutTools.  The strings of an endpoint are read with value(), its     *)
(* index is checked.  A checks or scope_varnames that is no array is       *)
(* ignored, and so are elements of it that are no strings.                 *)
ParseEndpoint(p) == Step({p}, Classes \ {"odd"}, {"throws", "refused"}) \o Check(p)
ValidateLayout == Tool(Strings({"patch_id"}) \o Find \o Value({"epsilon", "mode"}), "Always")
GetIoPosition == Tool(Strings({"patch_id", "varname", "side"}) \o Word("side") \o Find, "OnSuccess")
SuggestAlignment ==
  Tool(Strings({"patch_id", "adjust"}) \o Word("adjust")
       \o ParseEndpoint("anchor") \o ParseEndpoint("target") \o Find, "OnSuccess")
AlignObjects ==
  Tool(Strings({"patch_id", "mode"}) \o Word("mode") \o Check("varnames") \o Find, "OnSuccess")

LayoutExecutors ==
  [validate_layout   |-> ValidateLayout,
   get_io_position   |-> GetIoPosition,
   suggest_alignment |-> SuggestAlignment,
   align_objects     |-> AlignObjects]

(* execute_tool(): the first module that knows the tool carries it out.    *)
Executor(tool) ==
  CASE tool \in DOMAIN PatchExecutors -> PatchExecutors[tool]
    [] tool \in DOMAIN ObjectExecutors -> ObjectExecutors[tool]
    [] tool \in DOMAIN ConnectionExecutors -> ConnectionExecutors[tool]
    [] tool \in DOMAIN StateExecutors -> StateExecutors[tool]
    [] tool \in DOMAIN HierarchyExecutors -> HierarchyExecutors[tool]
    [] tool \in DOMAIN UtilityExecutors -> UtilityExecutors[tool]
    [] tool \in DOMAIN LayoutExecutors -> LayoutExecutors[tool]

(* What a tool may do with these arguments: the verdict of the first check *)
(* that does not take them.                                                *)
Passes(step, args) == \A p \in step.of : args[p] \in step.takes
ExecuteTool(tool, args) ==
  LET e == Executor(tool)
      k == SelectInSeq(e.steps, LAMBDA step : ~Passes(step, args))
  IN IF k = 0 THEN {e.then} ELSE e.steps[k].otherwise

-----------------------------------------------------------------------------
(* The schemas: the parameters a client must and may give.                 *)
Schema(required, optional) == [required |-> required, optional |-> optional]

PatchSchemas ==
  [list_active_patches |-> Schema({}, {"group"}),
   get_patch_info      |-> Schema({"patch_id"}, {}),
   get_frontmost_patch |-> Schema({}, {})]
ObjectSchemas ==
  [add_max_object       |-> Schema({"patch_id", "obj_type", "position"},
                                   {"varname", "arguments", "attributes"}),
   remove_max_object    |-> Schema({"patch_id", "varname"}, {}),
   get_objects_in_patch |-> Schema({"patch_id"}, {"mode"}),
   set_object_attribute |-> Schema({"patch_id", "varname", "attribute", "value"}, {}),
   get_object_attribute |-> Schema({"patch_id", "varname", "attribute"}, {}),
   get_object_io_info   |-> Schema({"patch_id", "varname"}, {}),
   get_object_hidden    |-> Schema({"patch_id", "varname"}, {}),
   set_object_hidden    |-> Schema({"patch_id", "varname", "hidden"}, {}),
   redraw_object        |-> Schema({"patch_id", "varname"}, {}),
   replace_object_text  |-> Schema({"patch_id", "varname", "new_text"}, {}),
   assign_varnames      |-> Schema({"patch_id", "assignments"}, {}),
   get_object_value     |-> Schema({"patch_id", "varname"}, {})]
Cord == {"patch_id", "src_varname", "outlet", "dst_varname", "inlet"}
ConnectionSchemas ==
  [connect_max_objects     |-> Schema(Cord, {}),
   disconnect_max_objects  |-> Schema(Cord, {}),
   get_patchlines          |-> Schema({"patch_id"}, {"mode"}),
   set_patchline_midpoints |-> Schema(Cord \cup {"midpoints"}, {})]
StateSchemas ==
  [get_patch_lock_state |-> Schema({"patch_id"}, {}),
   get_patch_dirty      |-> Schema({"patch_id"}, {}),
   set_patch_lock_state |-> Schema({"patch_id", "locked"}, {})]
HierarchySchemas ==
  [get_parent_patcher |-> Schema({"patch_id"}, {}),
   get_subpatchers    |-> Schema({"patch_id"}, {})]
UtilitySchemas ==
  [get_console_log         |-> Schema({}, {"lines", "clear"}),
   get_avoid_rect_position |-> Schema({"patch_id"}, {"width", "height", "near_x", "near_y"})]
LayoutSchemas ==
  [validate_layout   |-> Schema({"patch_id"}, {"scope_varnames", "mode", "checks", "epsilon"}),
   get_io_position   |-> Schema({"patch_id", "varname", "side"}, {}),
   suggest_alignment |-> Schema({"patch_id", "anchor", "target", "adjust"}, {}),
   align_objects     |-> Schema({"patch_id", "varnames", "mode"}, {})]

(* get_all_tool_schemas()                                                  *)
ToolNames ==
  DOMAIN PatchSchemas \cup DOMAIN ObjectSchemas \cup DOMAIN ConnectionSchemas
    \cup DOMAIN StateSchemas \cup DOMAIN HierarchySchemas \cup DOMAIN UtilitySchemas
    \cup DOMAIN LayoutSchemas
SchemaOf(tool) ==
  CASE tool \in DOMAIN PatchSchemas -> PatchSchemas[tool]
    [] tool \in DOMAIN ObjectSchemas -> ObjectSchemas[tool]
    [] tool \in DOMAIN ConnectionSchemas -> ConnectionSchemas[tool]
    [] tool \in DOMAIN StateSchemas -> StateSchemas[tool]
    [] tool \in DOMAIN HierarchySchemas -> HierarchySchemas[tool]
    [] tool \in DOMAIN UtilitySchemas -> UtilitySchemas[tool]
    [] tool \in DOMAIN LayoutSchemas -> LayoutSchemas[tool]

(* What the schema of a parameter rules out: by its type and its words.    *)
(* The schemas give any JSON type to value, an object is never empty of    *)
(* its required fields, and midpoints may be empty.                        *)
Faults(p) ==
  CASE p = "value" -> {"absent"}
    [] p \in {"hidden", "locked"} -> {"absent", "ill"}
    [] p = "midpoints" -> {"absent", "ill", "odd"}
    [] p \in {"side", "adjust", "mode"} -> {"absent", "empty", "ill", "unknown"}
    [] p \in {"position", "assignments", "varnames"} -> {"absent", "empty", "ill", "odd"}
    [] p \in {"anchor", "target"} -> {"absent", "empty", "ill", "odd", "unknown"}
    [] OTHER -> {"absent", "empty", "ill"}

(* The argument lists a client can send: all as the schema says, or with a *)
(* required one against it.  Whether patch_id names a registered patch is  *)
(* no matter of the schema.                                                *)
Lists(tool, required) ==
  LET s == SchemaOf(tool)
      takes(p) == IF p \in s.required THEN required[p] ELSE {"good", "absent"}
  IN {a \in [s.required \cup s.optional -> Classes] : \A p \in DOMAIN a : a[p] \in takes(p)}
Right(tool) ==
  [p \in SchemaOf(tool).required |-> IF p = "patch_id" THEN {"good", "unknown"} ELSE {"good"}]
AnyWay(tool) == [p \in SchemaOf(tool).required |-> Right(tool)[p] \cup Faults(p)]

GoodLists(tool) == Lists(tool, Right(tool))
FaultyLists(tool) == Lists(tool, AnyWay(tool)) \ GoodLists(tool)

(* Every verdict a call of some tool can have.                             *)
Verdicts(Of(_)) == UNION {UNION {ExecuteTool(t, a) : a \in Of(t)} : t \in ToolNames}
GoodVerdicts == Verdicts(GoodLists)
FaultyVerdicts == Verdicts(FaultyLists)

(* DeferredWrap.  "Replace" is Raw too, kept apart because the callback of *)
(* replace_object_text alone may report an error after it acted.           *)
Wraps == {"Raw", "Always", "OnSuccess", "Replace"}
AllVerdicts == Wraps \cup {"direct", "unknown", "refused", "throws"}
=============================================================================
