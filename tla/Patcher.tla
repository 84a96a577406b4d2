------------------------------- MODULE Patcher -------------------------------
(***************************************************************************)
(* The editing tools on one patcher: the deferred callbacks of ObjectTools *)
(* and ConnectionTools, each of which runs on the Max main thread without  *)
(* interruption, between edits of the user.  When and whether a callback   *)
(* runs is the matter of DeferredCall; here each is one step.              *)
(*                                                                         *)
(* Boxes are addressed by varname: the first box in the patcher's list     *)
(* that carries it.  Names need not be unique, and any box may have none.  *)
(*                                                                         *)
(* External (Max): a new box enters the list at either end; freeing a box  *)
(* frees its patchlines; "connect" makes a line when both boxes and both   *)
(* nubs exist and the line does not, and nothing otherwise; an address     *)
(* that was freed can be handed out again.                                 *)
(***************************************************************************)
EXTENDS Naturals, SequencesExt

CONSTANTS Addrs,     \* addresses of boxes
          Names,     \* varnames
          Empty,     \* the varname of a box that has none
          Classes,   \* what a box text creates
          Content,   \* classes whose text is content (message, comment, ...)
          Ins, Outs, \* numbers of inlets and outlets by class
          Attrs,     \* attributes that a replacement saves
          NoAddr,
          MaxBoxes, MaxLines  \* bounds on what add and connect make

ASSUME NameAssumption == Empty \notin Names /\ NoAddr \notin Addrs
ASSUME ClassAssumption == /\ Content \subseteq Classes
                          /\ Ins \in [Classes -> Nat] /\ Outs \in [Classes -> Nat]
ASSUME BoundAssumption == MaxBoxes \in Nat /\ MaxLines \in Nat

VARIABLES
  order,    \* the boxes as jpatcher_get_firstobject / nextobject yield them
  box,      \* what is at each address
  lines,    \* patchlines
  dirty,    \* jpatcher_get_dirty
  reply,    \* of the last step: an answer, or none for a step of the user
  changed,  \* the contents differ from what was saved last
  lost      \* a replacement failed since, which left a box deleted

contents == <<order, box, lines>>
vars == <<contents, dirty, reply, changed, lost>>

Box == [class : Classes, name : Names \cup {Empty}, attrs : SUBSET Attrs]
Line == [src : Addrs, outlet : Nat, dst : Addrs, inlet : Nat,
         look : BOOLEAN,   \* hidden flag and colour, together
         mid : BOOLEAN]    \* has midpoints

Alive == Range(order)

TypeOK ==
  /\ order \in Seq(Addrs)
  /\ \A i, j \in 1..Len(order) : order[i] = order[j] => i = j
  /\ DOMAIN box = Alive /\ \A b \in Alive : box[b] \in Box
  /\ \A l \in lines : l \in Line
  /\ dirty \in BOOLEAN /\ changed \in BOOLEAN /\ lost \in BOOLEAN
  /\ reply \in {"none", "ok", "error"}

Init ==
  /\ order = <<>> /\ box = <<>> /\ lines = {}
  /\ dirty = FALSE /\ changed = FALSE /\ lost = FALSE
  /\ reply = "none"

-----------------------------------------------------------------------------
(* Helpers.                                                                *)

(* find_box_by_varname: the first that matches; an empty name matches none.*)
FindBox(n) ==
  LET i == SelectInSeq(order, LAMBDA b : box[b].name = n)
  IN IF n = Empty \/ i = 0 THEN NoAddr ELSE order[i]

Touches(l, b) == l.src = b \/ l.dst = b
Joins(l, s, o, d, i) == l.src = s /\ l.outlet = o /\ l.dst = d /\ l.inlet = i

(* Max's "connect" finds both boxes among those given, and both nubs.      *)
CanConnect(boxes, s, o, d, i) ==
  {s, d} \subseteq DOMAIN boxes /\ o < Outs[boxes[s].class] /\ i < Ins[boxes[d].class]

(* object_free of a box.                                                   *)
Without(f, b) == [x \in DOMAIN f \ {b} |-> f[x]]
LinesWithout(b) == {l \in lines : ~Touches(l, b)}

(* newobject_fromboxtext puts the box at one end of the list.              *)
Placed(a, seq) == {Append(seq, a), <<a>> \o seq}

Error == reply' = "error" /\ UNCHANGED <<contents, dirty, lost>>
Edit == reply' = "ok" /\ dirty' = TRUE /\ UNCHANGED lost

Ports == 0..1   \* outlets and inlets a request may name

-----------------------------------------------------------------------------
(* ObjectTools.                                                            *)

AddObject(c, n, as) ==
  \/ /\ Len(order) < MaxBoxes
     /\ \E a \in Addrs \ Alive :
          /\ order' \in Placed(a, order)
          /\ box' = [x \in Alive \cup {a} |->
                       IF x = a THEN [class |-> c, name |-> n, attrs |-> as] ELSE box[x]]
     /\ UNCHANGED lines
     /\ Edit
  \/ Error   \* Max creates no object from this text

RemoveObject(n) ==
  LET b == FindBox(n)
  IN IF b = NoAddr THEN Error
     ELSE /\ order' = RemoveFirst(order, b) /\ box' = Without(box, b) /\ lines' = LinesWithout(b)
          /\ Edit

(* Mutant: the varname is taken for the attribute.                         *)
SetAttributeSwapped(n, a, on, supported) ==
  LET b == FindBox(n)
  IN IF b = NoAddr \/ ~supported THEN Error
     ELSE /\ box' = [box EXCEPT ![b].attrs = IF on THEN @ \cup {n} ELSE @ \ {n}]
          /\ UNCHANGED <<order, lines>>
          /\ Edit

(* set_object_attribute with a value that has an atom form or none, and    *)
(* set_object_hidden.                                                      *)
SetAttribute(n, a, on, supported) ==
  LET b == FindBox(n)
  IN IF b = NoAddr \/ ~supported THEN Error
     ELSE /\ box' = [box EXCEPT ![b].attrs = IF on THEN @ \cup {a} ELSE @ \ {a}]
          /\ UNCHANGED <<order, lines>>
          /\ Edit

(* assign_varnames: a sequence of [index, name].  The executor refuses an  *)
(* empty one, an empty name and a name that occurs twice; the callback     *)
(* checks every index before it sets the first name.                       *)
WellFormed(asg) ==
  /\ asg # <<>>
  /\ \A k \in 1..Len(asg) : asg[k].name # Empty
  /\ \A j, k \in 1..Len(asg) : asg[j].name = asg[k].name => j = k
InRange(asg) == \A k \in 1..Len(asg) : asg[k].index < Len(order)

(* One name after the other: the last one given to a box stays.            *)
Renamed(asg) ==
  [b \in Alive |->
     LET ks == {k \in 1..Len(asg) : order[asg[k].index + 1] = b}
     IN IF ks = {} THEN box[b] ELSE [box[b] EXCEPT !.name = asg[Max(ks)].name]]

(* Mutant: names are set up to the first index that is out of range.       *)
AssignAsYouGo(asg) ==
  IF WellFormed(asg) /\ order # <<>>
  THEN LET good == SelectSeq(asg, LAMBDA x : x.index < Len(order))
       IN /\ box' = Renamed(good)
          /\ UNCHANGED <<order, lines, lost>>
          /\ IF InRange(asg) THEN reply' = "ok" /\ dirty' = TRUE
                             ELSE reply' = "error" /\ UNCHANGED dirty
  ELSE Error

AssignVarnames(asg) ==
  IF WellFormed(asg) /\ order # <<>> /\ InRange(asg)
  THEN /\ UNCHANGED <<order, lines>>
       /\ box' = Renamed(asg)
       /\ Edit
  ELSE Error

-----------------------------------------------------------------------------
(* replace_object_text: save, delete, create, restore.                     *)

(* save_box_connections: the end at the box itself is not kept, the other  *)
(* one as a pointer.                                                       *)
Saved(l, b) ==
  [outlet |-> l.outlet, inlet |-> l.inlet, look |-> l.look, mid |-> l.mid,
   isSrc |-> l.src = b,
   other |-> IF l.src = b THEN l.dst ELSE l.src]
SavedConnections(b) == {Saved(l, b) : l \in {m \in lines : Touches(m, b)}}

(* restore_box_connections: a line that "connect" made gets back its look  *)
(* and its midpoints.  (A self-connection was saved with the address of    *)
(* the old box at the other end.)                                          *)
Rejoined(s, new) ==
  [src |-> IF s.isSrc THEN new ELSE s.other, outlet |-> s.outlet,
   dst |-> IF s.isSrc THEN s.other ELSE new, inlet |-> s.inlet,
   look |-> s.look, mid |-> s.mid]

(* Mutant: the look of a line is forgotten.                                *)
RestoredPlain(ls, boxes, new, saved) ==
  ls \cup {l \in {[Rejoined(s, new) EXCEPT !.look = FALSE] : s \in saved} :
              CanConnect(boxes, l.src, l.outlet, l.dst, l.inlet)}

Restored(ls, boxes, new, saved) ==
  ls \cup {l \in {Rejoined(s, new) : s \in saved} :
              CanConnect(boxes, l.src, l.outlet, l.dst, l.inlet)}

(* A content class is created again, and its text set; another box becomes *)
(* what the new text creates.                                              *)
ReplaceObjectText(n, c) ==
  LET b == FindBox(n)
  IN IF b = NoAddr THEN Error
     ELSE LET class == IF box[b].class \in Content THEN box[b].class ELSE c
          IN \E a \in (Addrs \ Alive) \cup {b} :
               /\ order' \in Placed(a, RemoveFirst(order, b))
               /\ box' = [x \in (Alive \ {b}) \cup {a} |->
                            IF x = a THEN [box[b] EXCEPT !.class = class, !.name = n]
                                     ELSE box[x]]
               /\ lines' = Restored(LinesWithout(b), box', a, SavedConnections(b))
               /\ Edit

(* The old box is gone when the new one cannot be created.                 *)
ReplaceFails(n) ==
  LET b == FindBox(n)
  IN /\ b # NoAddr
     /\ order' = RemoveFirst(order, b) /\ box' = Without(box, b) /\ lines' = LinesWithout(b)
     /\ lost' = TRUE
     /\ reply' = "error" /\ UNCHANGED dirty

-----------------------------------------------------------------------------
(* ConnectionTools.                                                        *)

NewLine(s, o, d, i) ==
  [src |-> s, outlet |-> o, dst |-> d, inlet |-> i, look |-> FALSE, mid |-> FALSE]

(* A line that is there already is left alone, and verified all the same.  *)
ConnectObjects(m, o, n, i) ==
  LET s == FindBox(m)  d == FindBox(n)
      there == \E l \in lines : Joins(l, s, o, d, i)
  IN \/ /\ ~there /\ CanConnect(box, s, o, d, i)
        /\ Cardinality(lines) < MaxLines
        /\ lines' = lines \cup {NewLine(s, o, d, i)}
        /\ UNCHANGED <<order, box>>
        /\ Edit
     \/ there /\ UNCHANGED contents /\ Edit
     \/ ~there /\ ~CanConnect(box, s, o, d, i) /\ Error

(* find_patchline: at most one line joins two nubs.                        *)
LineBetween(m, o, n, i) == {l \in lines : Joins(l, FindBox(m), o, FindBox(n), i)}

(* Mutant: the patcher is not marked.                                      *)
DisconnectQuietly(m, o, n, i) ==
  LET found == LineBetween(m, o, n, i)
  IN IF found = {} THEN Error
     ELSE /\ lines' = lines \ found
          /\ reply' = "ok"
          /\ UNCHANGED <<order, box, dirty, lost>>

DisconnectObjects(m, o, n, i) ==
  LET found == LineBetween(m, o, n, i)
  IN IF found = {} THEN Error
     ELSE /\ lines' = lines \ found
          /\ UNCHANGED <<order, box>>
          /\ Edit

(* Mutant: hidden flag and colour are not put back when midpoints are      *)
(* cleared.                                                                *)
SetMidpointsPlain(m, o, n, i, some) ==
  LET found == LineBetween(m, o, n, i)
  IN IF found = {} THEN Error
     ELSE /\ lines' = (lines \ found) \cup
               {[l EXCEPT !.mid = some, !.look = @ /\ some] :
                  l \in {x \in found : some \/ CanConnect(box, x.src, o, x.dst, i)}}
          /\ UNCHANGED <<order, box>>
          /\ Edit

(* Midpoints are cleared by freeing the line and connecting again, after   *)
(* which hidden flag and colour are put back.                              *)
SetMidpoints(m, o, n, i, some) ==
  LET found == LineBetween(m, o, n, i)
  IN IF found = {} THEN Error
     ELSE /\ lines' = (lines \ found) \cup
               {[l EXCEPT !.mid = some] :
                  l \in {x \in found : some \/ CanConnect(box, x.src, o, x.dst, i)}}
          /\ UNCHANGED <<order, box>>
          /\ Edit

-----------------------------------------------------------------------------
(* The user edits the patcher, changes the look of a line, saves.          *)

ByUser == reply' = "none" /\ UNCHANGED lost

UserRenames(b, n) ==
  /\ b \in Alive /\ box[b].name # n
  /\ box' = [box EXCEPT ![b].name = n]
  /\ dirty' = TRUE /\ UNCHANGED <<order, lines>> /\ ByUser

UserRestyles(l) ==
  /\ l \in lines
  /\ lines' = (lines \ {l}) \cup {[l EXCEPT !.look = ~@]}
  /\ dirty' = TRUE /\ UNCHANGED <<order, box>> /\ ByUser

UserSaves ==
  /\ dirty
  /\ dirty' = FALSE /\ reply' = "none" /\ lost' = FALSE
  /\ UNCHANGED contents

-----------------------------------------------------------------------------
Assignments == UNION {[1..k -> [index : 0..MaxBoxes, name : Names]] : k \in 0..2}

ObjectTool ==
  \/ \E c \in Classes, n \in Names \cup {Empty}, as \in SUBSET Attrs : AddObject(c, n, as)
  \/ \E n \in Names :
       \/ \E c \in Classes : ReplaceObjectText(n, c)
       \/ RemoveObject(n)
       \/ ReplaceFails(n)
       \/ \E a \in Attrs, on, supported \in BOOLEAN : SetAttribute(n, a, on, supported)

ConnectionTool ==
  \E m, n \in Names, o, i \in Ports :
    \/ ConnectObjects(m, o, n, i)
    \/ DisconnectObjects(m, o, n, i)
    \/ \E some \in BOOLEAN : SetMidpoints(m, o, n, i, some)

Tool == ObjectTool \/ ConnectionTool \/ \E asg \in Assignments : AssignVarnames(asg)

User ==
  \/ \E b \in Alive, n \in Names \cup {Empty} : UserRenames(b, n)
  \/ \E l \in lines : UserRestyles(l)

(* What the properties compare with: did the contents change since a save. *)
Next ==
  \/ (Tool \/ User) /\ changed' = (changed \/ contents' # contents)
  \/ UserSaves /\ changed' = FALSE

Spec == Init /\ [][Next]_vars

-----------------------------------------------------------------------------
(* Properties.                                                             *)

(* When a tool or the user changed the patcher since it was last saved it  *)
(* is marked dirty, so that Max asks before it closes the window: unless   *)
(* a replacement failed.                                                   *)
ChangesMarkDirty == changed => dirty \/ lost

(* replace_object_text keeps name and attributes of the box, every line    *)
(* between other boxes, and every line to another box whose nub the new    *)
(* class has, with its look and its midpoints; it makes no other line but  *)
(* from the new box to itself.                                             *)
Kept(old, new) ==
  {[l EXCEPT !.src = IF @ = old THEN new ELSE @, !.dst = IF @ = old THEN new ELSE @] :
     l \in {x \in lines : ~(x.src = old /\ x.dst = old)}}
ReplaceKeeps ==
  [][\A n \in Names, c \in Classes :
       reply' = "ok" /\ ReplaceObjectText(n, c) =>
         LET old == FindBox(n)
         IN \E new \in Range(order') :
              /\ Range(order') = (Alive \ {old}) \cup {new}
              /\ box'[new].name = n /\ box'[new].attrs = box[old].attrs
              /\ {l \in lines' : l.src # l.dst \/ l.src # new} =
                   {l \in Kept(old, new) : /\ l.outlet < Outs[box'[l.src].class]
                                           /\ l.inlet < Ins[box'[l.dst].class]}]_vars

(* A line stays as it was drawn.  No tool takes or changes a line but one   *)
(* that deletes or replaces a box at its end, disconnects it, or sets its  *)
(* midpoints; and that one, which frees the line to clear its midpoints,   *)
(* leaves a line between the same nubs with its hidden flag and colour.    *)
LinesStay ==
  [][/\ \A k \in lines :
          \/ k \in lines' \/ reply' = "none"
          \/ \E n \in Names :
               /\ Touches(k, FindBox(n))
               /\ RemoveObject(n) \/ ReplaceFails(n) \/ \E c \in Classes : ReplaceObjectText(n, c)
          \/ \E m, n \in Names, o, i \in Ports :
               /\ Joins(k, FindBox(m), o, FindBox(n), i)
               /\ DisconnectObjects(m, o, n, i) \/ \E some \in BOOLEAN : SetMidpoints(m, o, n, i, some)
     /\ \A m, n \in Names, o, i \in Ports, some \in BOOLEAN :
          reply' = "ok" /\ SetMidpoints(m, o, n, i, some) =>
            \E k \in lines : /\ Joins(k, FindBox(m), o, FindBox(n), i)
                            /\ [k EXCEPT !.mid = some] \in lines']_vars

(* A reply tells what became of the patcher.  A tool that answers with an  *)
(* error left it as it was, unless it is replace_object_text whose new box *)
(* could not be created; after a successful connect the line is there, and *)
(* after a successful disconnect it is not; and a name that assign_varnames *)
(* gave to a box, and that no other box had, finds that box.               *)
Joined(m, o, n, i) == \E l \in lines' : Joins(l, FindBox(m), o, FindBox(n), i)
RepliesAreTrue ==
  [][/\ reply' = "error" /\ ~(\E n \in Names : ReplaceFails(n)) => UNCHANGED contents
     /\ reply' = "ok" =>
          /\ \A m, n \in Names, o, i \in Ports :
               /\ ConnectObjects(m, o, n, i) => Joined(m, o, n, i)
               /\ DisconnectObjects(m, o, n, i) => ~Joined(m, o, n, i)
          /\ \A asg \in Assignments : AssignVarnames(asg) =>
               \A k \in 1..Len(asg) :
                 (\A j \in k + 1..Len(asg) : asg[j].index # asg[k].index)
                 /\ (\A b \in Alive : box[b].name # asg[k].name)
                   => FindBox(asg[k].name)' = order[asg[k].index + 1]]_vars

=============================================================================
