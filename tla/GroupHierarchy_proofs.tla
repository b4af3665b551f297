------------------------- MODULE GroupHierarchy_proofs -------------------------
(***************************************************************************)
(* Theorems about GroupHierarchy for every set of threads, users and       *)
(* groups, whatever their nesting, and any bounds.                         *)
(***************************************************************************)
EXTENDS GroupHierarchy, TLAPS

USE DEF vars, bounds, At, Active

(***************************************************************************)
(* The inductive invariant.                                                *)
(***************************************************************************)
Kinds == {"none", "request", "group"}
Ops == {"set", "remove", "create", "rename", "approve", "deny", "delete"}
Labels == {"idle", "enclosing", "write", "others", "create", "rename", "approve", "admin", "next",
           "group", "members"}
Calls == [op : Ops \cup {"none"}, user : Users \cup {"none"}, group : Groups, state : States,
          goal : Groups, other : Groups, list : SUBSET Groups, users : SUBSET Users, pc : Labels]

Typed ==
    /\ kind \in [Groups -> Kinds]
    /\ asker \in [Groups -> Users \cup {"none"}]
    /\ member \in [Users -> [Groups -> States]]
    /\ call \in [Threads -> Calls]
    /\ calls \in 0 .. MaxCalls /\ troubles \in 0 .. MaxTroubles
    /\ raced \subseteq Groups

\* What a call may affect, and what it leaves open, as its record says it.
ScopeOfCall(c) == IF c.pc # "idle" THEN Scope(c.op, c.goal, c.other) ELSE {}
Open(c) == IF c.pc = "others" THEN {h \in c.list : Enclosing(h) # c.goal} ELSE {}

\* Where the handlers can be, and the groups they go through.
Shaped(c) ==
    /\ c.pc # "idle" => c.op \in Ops
    /\ c.pc \in {"enclosing", "write"} => c.op = "set" /\ c.state # "NonMember"
    /\ c.pc = "others" => c.op = "remove"
    /\ c.op \in {"set", "remove"} => c.user \in Users
    /\ c.pc = "create" => c.op = "create"
    /\ c.pc = "approve" => c.op = "approve"
    /\ c.pc = "rename" => c.op = "rename"
    /\ c.pc = "admin" => c.op \in {"create", "approve"}
    /\ c.pc = "next" => c.op = "delete"
    /\ c.pc \in {"group", "members"} => c.op \in {"rename", "approve", "deny", "delete"}
    /\ c.op \in {"create", "rename", "approve", "deny"} => c.goal # Root
    /\ c.op # "delete" => c.group = c.goal
    /\ c.op = "delete" =>
          c.group \in {c.goal} \cup Within(c.goal) /\ c.list \subseteq Within(c.goal)
    /\ c.pc = "others" => c.list \subseteq Alike[c.goal] \ {c.goal}

CallsShaped == \A t \in Threads : Shaped(call[t])

\* Two calls that may affect the same group have been seen to meet there.
MeetingsKnown ==
    \A s, t \in Threads : s # t => ScopeOfCall(call[s]) \cap ScopeOfCall(call[t]) \subseteq raced

\* The groups directly within g.
Inner(g) == {h \in Groups \ {Root} : Enclosing(h) = g}

\* None of them is a group or a request, but for the raced ones.
NoGroups(gs) == \A h \in gs : h \in raced \/ kind[h] = "none"

\* What a handler has tested, or has done, is still so.
Knows(c) ==
    /\ c.pc \in {"enclosing", "write", "approve", "admin"} =>
          c.group \in raced \/ kind[c.group] # "none"
    /\ c.pc = "write" /\ c.group # Root =>
          c.group \in raced \/ member[c.user][Enclosing(c.group)] # "NonMember"
    /\ c.pc = "create" =>
          c.group \in raced \/ c.other # Enclosing(c.group) \/ kind[c.other] # "none"
    /\ c.pc = "admin" => c.group \in raced \/ c.other = Enclosing(c.group)
    /\ c.pc = "others" =>
          \A h \in Alike[c.goal] \ ({c.goal} \cup c.list) :
             \/ h \in raced
             \/ member[c.user][h] = "NonMember"
             \/ c.list = {} /\ h \notin Within(c.goal)
    /\ c.pc = "next" => NoGroups(Within(c.goal) \ c.list)
    /\ c.pc \in {"group", "members"} =>
          /\ NoGroups(Inner(c.group))
          /\ c.op = "delete" => NoGroups(Within(c.goal) \ (c.list \cup {c.group}))
    /\ c.pc = "members" =>
          c.group \in raced \/ \A u \in Users \ c.users : member[u][c.group] = "NonMember"

CallsKnow == \A t \in Threads : Knows(call[t])

\* NestedMemberships, said of the records of calls.
MembersNested ==
    \A u \in Users, g \in Groups \ (raced \cup {Root}) :
       \/ member[u][g] = "NonMember" \/ member[u][Enclosing(g)] # "NonMember"
       \/ \E t \in Threads : call[t].user = u /\ g \in Open(call[t])

IInv ==
    /\ Typed /\ CallsShaped /\ MeetingsKnown /\ CallsKnow
    /\ MembersHaveGroups /\ GroupsEnclosed /\ MembersNested

-----------------------------------------------------------------------------
(* Groups. *)

LEMMA EnclosingFacts ==
    ASSUME NEW g \in Groups, g # Root
    PROVE  Enclosing(g) \in Groups /\ Enclosing(g) # g /\ g \in Within(Enclosing(g))
<1>1. \E e \in Above[g] : Above[g] = Above[e] \cup {e}
  BY HierarchyAssumption
<1>2. Enclosing(g) \in Above[g]
  BY <1>1 DEF Enclosing
<1> QED BY <1>2, HierarchyAssumption DEF Within

LEMMA WithinFacts ==
    ASSUME NEW g \in Groups
    PROVE  /\ Within(g) \subseteq Groups /\ g \notin Within(g)
           /\ \A h \in Within(g) : Within(h) \subseteq Within(g)
           /\ Inner(g) \subseteq Within(g)
<1>1. Within(g) \subseteq Groups /\ g \notin Within(g)
  BY HierarchyAssumption DEF Within
<1>2. \A h \in Within(g) : Within(h) \subseteq Within(g)
  BY HierarchyAssumption DEF Within
<1>3. Inner(g) \subseteq Within(g)
  BY EnclosingFacts DEF Inner
<1> QED BY <1>1, <1>2, <1>3

LEMMA AlikeFacts ==
    ASSUME NEW g \in Groups
    PROVE  /\ Alike[g] \subseteq Groups /\ {g} \cup Within(g) \subseteq Alike[g]
           /\ \A h \in Alike[g] : {h} \cup Within(h) \subseteq Alike[g]
<1>1. Alike[g] \subseteq Groups /\ {g} \cup Within(g) \subseteq Alike[g]
  BY HierarchyAssumption
<1>2. \A h \in Alike[g] : {h} \cup Within(h) \subseteq Alike[h]
  BY <1>1, HierarchyAssumption
<1>3. \A h \in Alike[g] : Alike[h] \subseteq Alike[g]
  BY HierarchyAssumption
<1> QED BY <1>1, <1>2, <1>3

LEMMA ScopeFacts ==
    ASSUME NEW g \in Groups, NEW r \in Groups, NEW op
    PROVE  /\ Scope(op, g, r) \subseteq Groups /\ g \in Scope(op, g, r)
           /\ op = "remove" => Scope(op, g, r) = Alike[g]
           /\ op = "rename" => r \in Scope(op, g, r)
           /\ op \in {"rename", "approve", "deny", "delete"} => Within(g) \subseteq Scope(op, g, r)
BY WithinFacts, AlikeFacts DEF Scope

\* What a call writes is in its scope.
LEMMA InScope ==
    ASSUME NEW c \in Calls, Shaped(c), c.pc # "idle"
    PROVE  /\ c.group \in ScopeOfCall(c)
           /\ c.op = "remove" => ScopeOfCall(c) = Alike[c.goal]
           /\ c.op = "rename" => c.other \in ScopeOfCall(c)
           /\ c.pc \in {"group", "members"} => Within(c.group) \subseteq ScopeOfCall(c)
           /\ c.op = "delete" => Within(c.goal) \subseteq ScopeOfCall(c)
           /\ ScopeOfCall(c) \subseteq Groups
<1>1. c.goal \in Groups /\ c.group \in Groups /\ c.other \in Groups
  BY DEF Calls
<1>2. c.goal \in ScopeOfCall(c) /\ ScopeOfCall(c) \subseteq Groups
  BY <1>1, ScopeFacts DEF ScopeOfCall
<1>3. /\ c.op = "remove" => ScopeOfCall(c) = Alike[c.goal]
      /\ c.op = "rename" => c.other \in ScopeOfCall(c)
  BY <1>1, ScopeFacts DEF ScopeOfCall
<1>4. c.op \in {"rename", "approve", "deny", "delete"} => Within(c.goal) \subseteq ScopeOfCall(c)
  BY <1>1, ScopeFacts DEF ScopeOfCall
<1>5. c.op # "delete" => c.group = c.goal
  BY DEF Shaped
<1>6. c.op = "delete" => c.group \in {c.goal} \cup Within(c.goal)
  BY DEF Shaped
<1>7. c.group \in ScopeOfCall(c)
  BY <1>2, <1>4, <1>5, <1>6
<1>8. c.op = "delete" => Within(c.group) \subseteq Within(c.goal)
  BY <1>1, <1>6, WithinFacts
<1>9. c.pc \in {"group", "members"} => c.op \in {"rename", "approve", "deny", "delete"}
  BY DEF Shaped
<1> QED BY <1>2, <1>3, <1>4, <1>5, <1>7, <1>8, <1>9

LEMMA IdleFacts ==
    /\ Idle \in Calls /\ Idle.pc = "idle" /\ Shaped(Idle) /\ ScopeOfCall(Idle) = {}
    /\ Open(Idle) = {}
<1>1. Idle \in Calls /\ Idle.pc = "idle" /\ Idle.op = "none"
  BY HierarchyAssumption DEF Idle, Calls, Labels, States
<1>2. Idle.group = Idle.goal
  BY DEF Idle
<1> QED BY <1>1, <1>2 DEF Shaped, ScopeOfCall, Open

-----------------------------------------------------------------------------
(* A step of one thread. *)

\* A step writes within its scope; it neither removes the group around one that
\* is not in it, nor takes anybody out of that.
Touches(gs) ==
    /\ \A g \in Groups \ gs :
          kind'[g] = kind[g] /\ \A u \in Users : member'[u][g] = member[u][g]
    /\ \A g \in Groups \ (gs \cup {Root}) :
          kind[Enclosing(g)] # "none" => kind'[Enclosing(g)] # "none"
    /\ \A u \in Users, g \in Groups \ (gs \cup {Root}) :
          member[u][Enclosing(g)] # "NonMember" => member'[u][Enclosing(g)] # "NonMember"

Moves(t, d) ==
    /\ call' = [call EXCEPT ![t] = d]
    /\ d \in Calls /\ Shaped(d)
    /\ ScopeOfCall(d) \subseteq ScopeOfCall(call[t])

LEMMA OthersStay ==
    ASSUME Typed, NEW t \in Threads, NEW d, Moves(t, d)
    PROVE  call'[t] = d /\ \A s \in Threads : s # t => call'[s] = call[s]
BY DEF Moves, Typed

\* What another call knows is not disturbed, since no group of its own is in
\* the scope of the step, or it is raced.
LEMMA OthersKnow ==
    ASSUME IInv, NEW s \in Threads, NEW c, c = call[s], NEW gs, Touches(gs),
           ScopeOfCall(c) \cap gs \subseteq raced, ScopeOfCall(c) \cap raced \subseteq raced'
    PROVE  Knows(c)'
<1>1. c \in Calls /\ Shaped(c) /\ Knows(c)
  BY DEF IInv, Typed, CallsShaped, CallsKnow
<1>2. c.group \in Groups /\ c.goal \in Groups /\ c.list \subseteq Groups
  BY <1>1 DEF Calls
<1>3. \A g \in ScopeOfCall(c) : g \in Groups =>
         g \in raced' \/ (kind'[g] = kind[g] /\ \A u \in Users : member'[u][g] = member[u][g])
  BY DEF Touches
<1>4. CASE c.pc = "idle"
  BY <1>4 DEF Knows
<1>5. CASE c.pc \in {"enclosing", "write", "create", "approve", "admin"}
  <2>1. c.group \in ScopeOfCall(c)
    BY <1>1, <1>5, InScope
  <2>2. c.group \in raced' \/ kind'[c.group] = kind[c.group]
    BY <1>2, <1>3, <2>1
  <2>3. c.pc = "write" => c.user \in Users
    BY <1>1 DEF Shaped
  <2>4. c.pc = "write" /\ c.group # Root =>
           c.group \in raced' \/ member'[c.user][Enclosing(c.group)] # "NonMember"
    BY <1>1, <1>2, <2>1, <2>3 DEF Knows, Touches
  <2>5. c.pc = "create" =>
           c.group \in raced' \/ c.other # Enclosing(c.group) \/ kind'[c.other] # "none"
    <3>1. c.pc = "create" => c.group # Root
      BY <1>1 DEF Shaped
    <3> QED BY <1>1, <1>2, <2>1, <3>1 DEF Knows, Touches
  <2> QED BY <1>1, <1>5, <2>1, <2>2, <2>4, <2>5 DEF Knows
<1>6. CASE c.pc = "others"
  <2>1. ScopeOfCall(c) = Alike[c.goal] /\ Alike[c.goal] \subseteq Groups /\ c.user \in Users
    BY <1>1, <1>2, <1>6, InScope, AlikeFacts DEF Shaped
  <2> QED BY <1>1, <1>3, <1>6, <2>1 DEF Knows
<1>7. CASE c.pc \in {"next", "group", "members"}
  <2>1. c.op = "delete" => Within(c.goal) \subseteq ScopeOfCall(c)
    BY <1>1, <1>7, InScope
  <2>2. c.pc # "next" => c.group \in ScopeOfCall(c) /\ Inner(c.group) \subseteq ScopeOfCall(c)
    BY <1>1, <1>2, <1>7, InScope, WithinFacts
  <2>3. ScopeOfCall(c) \subseteq Groups
    BY <1>1, <1>7, InScope
  <2>4. ASSUME NEW hs, hs \subseteq ScopeOfCall(c), NoGroups(hs) PROVE NoGroups(hs)'
    BY <1>3, <2>3, <2>4 DEF NoGroups
  <2>5. c.pc = "next" => c.op = "delete"
    BY <1>1 DEF Shaped
  <2>6. c.pc = "next" => NoGroups(Within(c.goal) \ c.list)'
    <3>1. c.pc = "next" => NoGroups(Within(c.goal) \ c.list)
      BY <1>1 DEF Knows
    <3> QED BY <2>1, <2>4, <2>5, <3>1
  <2>7. c.pc # "next" => NoGroups(Inner(c.group))'
    <3>1. c.pc # "next" => NoGroups(Inner(c.group))
      BY <1>1, <1>7 DEF Knows
    <3> QED BY <2>2, <2>4, <3>1
  <2>8. c.pc # "next" /\ c.op = "delete" => NoGroups(Within(c.goal) \ (c.list \cup {c.group}))'
    <3>1. c.pc # "next" /\ c.op = "delete" => NoGroups(Within(c.goal) \ (c.list \cup {c.group}))
      BY <1>1, <1>7 DEF Knows
    <3> QED BY <2>1, <2>4, <3>1
  <2>9. c.pc = "members" =>
           c.group \in raced' \/ \A u \in Users \ c.users : member'[u][c.group] = "NonMember"
    BY <1>1, <1>2, <1>3, <2>2 DEF Knows
  <2> QED BY <1>7, <2>6, <2>7, <2>8, <2>9 DEF Knows
<1>8. CASE c.pc = "rename"
  BY <1>8 DEF Knows
<1> QED BY <1>1, <1>4, <1>5, <1>6, <1>7, <1>8 DEF Calls, Labels

LEMMA StepPreserves ==
    ASSUME IInv, Typed', NEW t \in Threads, NEW d, Moves(t, d), raced \subseteq raced',
           Touches(ScopeOfCall(call[t])), Knows(d)', MembersHaveGroups', GroupsEnclosed',
           MembersNested'
    PROVE  IInv'
<1>1. call'[t] = d /\ \A s \in Threads : s # t => call'[s] = call[s]
  BY OthersStay DEF IInv
<1>2. CallsShaped'
  <2>1. \A s \in Threads : Shaped(call'[s])
    BY <1>1 DEF CallsShaped, Moves, IInv
  <2> QED BY <2>1 DEF CallsShaped, Shaped
<1>3. MeetingsKnown'
  <2>1. \A s \in Threads : ScopeOfCall(call'[s]) \subseteq ScopeOfCall(call[s])
    BY <1>1 DEF Moves
  <2>2. \A r, s \in Threads :
           r # s => ScopeOfCall(call'[r]) \cap ScopeOfCall(call'[s]) \subseteq raced'
    BY <2>1 DEF MeetingsKnown, IInv
  <2> QED BY <2>2 DEF MeetingsKnown, ScopeOfCall
<1>4. CallsKnow'
  <2>1. ASSUME NEW s \in Threads PROVE Knows(call[s])'
    <3>1. CASE s = t
      <4>1. call'[s] = d
        BY <1>1, <3>1
      <4> QED BY <4>1 DEF Knows
    <3>2. CASE s # t
      <4>1. PICK c : c = call[s]
        OBVIOUS
      <4>2. ScopeOfCall(c) \cap ScopeOfCall(call[t]) \subseteq raced
        BY <3>2, <4>1 DEF IInv, MeetingsKnown
      <4>3. Knows(c)'
        BY <4>1, <4>2, OthersKnow
      <4>4. call'[s] = c
        BY <1>1, <3>2, <4>1
      <4> QED BY <4>3, <4>4 DEF Knows
    <3> QED BY <3>1, <3>2
  <2> QED BY <2>1 DEF CallsKnow
<1> QED BY <1>2, <1>3, <1>4 DEF IInv

-----------------------------------------------------------------------------
(* Steps that only read. *)

LEMMA AdvanceMoves ==
    ASSUME NEW t \in Threads, NEW d \in Calls, Shaped(d), call' = [call EXCEPT ![t] = d],
           d.pc = "idle" \/ (/\ Active(t) /\ d.op = call[t].op
                            /\ d.goal = call[t].goal /\ d.other = call[t].other)
    PROVE  Moves(t, d)
BY DEF Moves, ScopeOfCall

LEMMA IdleMoves ==
    ASSUME NEW t \in Threads, End(t) PROVE Moves(t, Idle) /\ Knows(Idle)'
<1>1. Moves(t, Idle)
  BY IdleFacts, AdvanceMoves DEF End
<1> QED BY <1>1, IdleFacts DEF Knows

Moved(c, label) == [c EXCEPT !.pc = label]

LEMMA MovedFacts ==
    ASSUME NEW c \in Calls, NEW label \in Labels
    PROVE  /\ Moved(c, label) \in Calls /\ Moved(c, label).pc = label
           /\ Moved(c, label).op = c.op /\ Moved(c, label).user = c.user
           /\ Moved(c, label).group = c.group /\ Moved(c, label).goal = c.goal
           /\ Moved(c, label).list = c.list /\ Moved(c, label).users = c.users
           /\ Moved(c, label).state = c.state /\ Moved(c, label).other = c.other
BY DEF Moved, Calls

LEMMA GotoMoves ==
    ASSUME Typed, NEW t \in Threads, NEW label \in Labels, Goto(t, label), Active(t),
           Shaped(Moved(call[t], label))
    PROVE  Moves(t, Moved(call[t], label)) /\ call[t] \in Calls
<1>1. call[t] \in Calls
  BY DEF Typed
<1>2. call' = [call EXCEPT ![t] = Moved(call[t], label)]
  BY DEF Goto, Moved
<1> QED BY <1>1, <1>2, MovedFacts, AdvanceMoves

\* Memberships stay nested, if the step leaves nothing open that is not.
LEMMA NestedKept ==
    ASSUME IInv, NEW t \in Threads, NEW d, Moves(t, d), raced \subseteq raced',
           \A h \in Open(call[t]) :
              h \in raced' \/ (h \in Open(d) /\ d.user = call[t].user)
                           \/ member'[call[t].user][h] = "NonMember",
           \A u \in Users, g \in Groups \ (raced' \cup {Root}) :
              \/ member'[u][g] = "NonMember"
              \/ member'[u][Enclosing(g)] # "NonMember"
              \/ d.user = u /\ g \in Open(d)
              \/ member[u][g] # "NonMember" /\ member[u][Enclosing(g)] = "NonMember"
    PROVE  MembersNested'
<1>1. call'[t] = d /\ \A s \in Threads : s # t => call'[s] = call[s]
  BY OthersStay DEF IInv
<1> SUFFICES ASSUME NEW u \in Users, NEW g \in Groups \ (raced' \cup {Root}),
                    member'[u][g] # "NonMember", member'[u][Enclosing(g)] = "NonMember"
             PROVE  \E s \in Threads : call'[s].user = u /\ g \in Open(call'[s])
  BY DEF MembersNested, Open
<1>2. CASE d.user = u /\ g \in Open(d)
  BY <1>1, <1>2
<1>3. CASE ~(d.user = u /\ g \in Open(d))
  <2>1. g \notin raced /\ member[u][g] # "NonMember" /\ member[u][Enclosing(g)] = "NonMember"
    BY <1>3
  <2>2. PICK s \in Threads : call[s].user = u /\ g \in Open(call[s])
    BY <2>1 DEF IInv, MembersNested
  <2>3. s # t
    BY <1>3, <2>2
  <2> QED BY <1>1, <2>2, <2>3
<1> QED BY <1>2, <1>3

LEMMA ReadingPreserves ==
    ASSUME IInv, NEW t \in Threads, NEW d, Moves(t, d), UNCHANGED <<kind, asker, member, calls>>,
           troubles' \in 0 .. MaxTroubles, raced \subseteq raced', raced' \subseteq Groups,
           \A h \in Open(call[t]) : h \in raced' \/ (h \in Open(d) /\ d.user = call[t].user),
           Knows(d)'
    PROVE  IInv'
<1>1. Typed'
  BY DEF IInv, Typed, Moves
<1>2. Touches(ScopeOfCall(call[t]))
  BY DEF Touches
<1>3. MembersHaveGroups' /\ GroupsEnclosed'
  BY DEF IInv, MembersHaveGroups, GroupsEnclosed
<1>4. MembersNested'
  BY NestedKept
<1> QED BY <1>1, <1>2, <1>3, <1>4, StepPreserves

\* A handler that stops where it has nothing open.
LEMMA EndPreserves ==
    ASSUME IInv, NEW t \in Threads, End(t), UNCHANGED <<kind, asker, member, calls>>,
           troubles' \in 0 .. MaxTroubles, raced' \subseteq Groups,
           raced \cup Open(call[t]) \subseteq raced'
    PROVE  IInv'
BY IdleMoves, ReadingPreserves

LEMMA CallFacts ==
    ASSUME IInv, NEW t \in Threads
    PROVE  /\ call[t] \in Calls /\ Shaped(call[t]) /\ Knows(call[t])
           /\ call[t].group \in Groups /\ call[t].goal \in Groups
           /\ raced \subseteq Groups /\ troubles \in 0 .. MaxTroubles
           /\ call[t].pc # "others" => Open(call[t]) = {}
<1>1. call[t] \in Calls /\ Shaped(call[t]) /\ Knows(call[t])
  BY DEF IInv, Typed, CallsShaped, CallsKnow
<1> QED BY <1>1 DEF IInv, Typed, Calls, Open

LEMMA TroubleFacts ==
    ASSUME IInv, Trouble PROVE troubles' \in 0 .. MaxTroubles
BY HierarchyAssumption DEF IInv, Typed, Trouble

LEMMA CheckEnclosingStep == ASSUME IInv, NEW t \in Threads, CheckEnclosing(t) PROVE IInv'
<1> DEFINE c == call[t]
<1> PICK d : d = Moved(c, "write")
  OBVIOUS
<1>1. c \in Calls /\ Shaped(c) /\ Knows(c) /\ Open(c) = {} /\ raced \subseteq Groups
  BY CallFacts DEF CheckEnclosing
<1>2. troubles' \in 0 .. MaxTroubles
  BY CallFacts DEF CheckEnclosing
<1>3. CASE End(t)
  BY <1>1, <1>2, <1>3, EndPreserves DEF CheckEnclosing
<1>4. CASE ~End(t)
  <2>1. Goto(t, "write") /\ (c.group = Root \/ IsMember(c.user, Enclosing(c.group)))
    BY <1>4 DEF CheckEnclosing
  <2>2. Shaped(d)
    BY <1>1, MovedFacts DEF Shaped, CheckEnclosing, Labels
  <2>3. Moves(t, d)
    BY <2>1, <2>2, GotoMoves DEF IInv, CheckEnclosing, Labels
  <2>4. d.pc = "write" /\ d.group = c.group /\ d.user = c.user
    BY <1>1, MovedFacts DEF Labels
  <2>5. c.group \in raced \/ kind[c.group] # "none"
    BY <1>1 DEF Knows, CheckEnclosing
  <2>6. c.group = Root \/ member[c.user][Enclosing(c.group)] # "NonMember"
    BY <2>1 DEF IsMember
  <2>7. Knows(d)'
    BY <2>4, <2>5, <2>6 DEF Knows, CheckEnclosing
  <2> QED BY <1>1, <1>2, <2>3, <2>7, ReadingPreserves DEF CheckEnclosing
<1> QED BY <1>3, <1>4

-----------------------------------------------------------------------------
(* Steps that write memberships. *)

\* Writing one membership.
Writes(u0, g0, s0) == member' = [member EXCEPT ![u0][g0] = s0]

LEMMA MemberWritten ==
    ASSUME Typed, NEW u0, NEW g0, NEW s0, Writes(u0, g0, s0)
    PROVE  \A u \in Users, g \in Groups :
              member'[u][g] = IF u = u0 /\ g = g0 THEN s0 ELSE member[u][g]
<1> SUFFICES ASSUME NEW u \in Users, NEW g \in Groups
             PROVE  member'[u][g] = IF u = u0 /\ g = g0 THEN s0 ELSE member[u][g]
  OBVIOUS
<1>1. member \in [Users -> [Groups -> States]]
  BY DEF Typed
<1>2. CASE u = u0
  BY <1>1, <1>2 DEF Writes
<1>3. CASE u # u0
  BY <1>1, <1>3 DEF Writes
<1> QED BY <1>2, <1>3

LEMMA MemberTyped ==
    ASSUME Typed, NEW u0, NEW g0, NEW s0 \in States, Writes(u0, g0, s0)
    PROVE  member' \in [Users -> [Groups -> States]]
<1>1. member \in [Users -> [Groups -> States]]
  BY DEF Typed
<1>2. CASE u0 \in Users
  <2>1. [member[u0] EXCEPT ![g0] = s0] \in [Groups -> States]
    BY <1>1, <1>2
  <2> QED BY <1>1, <2>1 DEF Writes
<1>3. CASE u0 \notin Users
  BY <1>1, <1>3 DEF Writes
<1> QED BY <1>2, <1>3

\* A handler that ends with a membership it gives.
LEMMA GivingPreserves ==
    ASSUME IInv, NEW t \in Threads, End(t), Active(t), call[t].pc # "others",
           NEW u0, NEW g0, NEW s0 \in States,
           g0 = call[t].group, s0 # "NonMember",
           Writes(u0, g0, s0), UNCHANGED <<kind, asker, bounds>>,
           raced \subseteq raced', raced' \subseteq Groups,
           g0 \in raced' \/ kind[g0] # "none",
           g0 \in raced' \cup {Root} \/ member[u0][Enclosing(g0)] # "NonMember"
    PROVE  IInv'
<1>1. Typed /\ call[t] \in Calls /\ Shaped(call[t]) /\ Open(call[t]) = {} /\ g0 \in Groups
  BY CallFacts DEF IInv
<1>2. \A u \in Users, g \in Groups :
         member'[u][g] = IF u = u0 /\ g = g0 THEN s0 ELSE member[u][g]
  BY <1>1, MemberWritten
<1>3. Moves(t, Idle) /\ Knows(Idle)'
  BY IdleMoves
<1>4. Typed'
  <2>1. member' \in [Users -> [Groups -> States]]
    BY <1>1, MemberTyped
  <2>2. call' \in [Threads -> Calls]
    BY <1>1, <1>3 DEF Moves, Typed
  <2> QED BY <1>1, <2>1, <2>2 DEF Typed
<1>5. \A u \in Users, g \in Groups : member[u][g] # "NonMember" => member'[u][g] # "NonMember"
  BY <1>2
<1>6. g0 \in ScopeOfCall(call[t])
  BY <1>1, InScope
<1>7. \A g \in Groups \ {Root} : Enclosing(g) \in Groups
  BY EnclosingFacts
<1>8. Touches(ScopeOfCall(call[t]))
  BY <1>2, <1>5, <1>6, <1>7 DEF Touches
<1>9. MembersHaveGroups'
  BY <1>2 DEF IInv, MembersHaveGroups
<1>10. GroupsEnclosed'
  BY DEF IInv, GroupsEnclosed
<1>11. MembersNested'
  <2>1. ASSUME NEW u \in Users, NEW g \in Groups \ (raced' \cup {Root})
        PROVE  \/ member'[u][g] = "NonMember"
               \/ member'[u][Enclosing(g)] # "NonMember"
               \/ member[u][g] # "NonMember" /\ member[u][Enclosing(g)] = "NonMember"
    <3>1. CASE u = u0 /\ g = g0
      BY <1>5, <1>7, <2>1, <3>1
    <3>2. CASE ~(u = u0 /\ g = g0)
      BY <1>2, <1>5, <1>7, <2>1, <3>2
    <3> QED BY <3>1, <3>2
  <2> QED BY <1>1, <1>3, <2>1, NestedKept
<1> QED BY <1>3, <1>4, <1>8, <1>9, <1>10, <1>11, StepPreserves

LEMMA WriteStatusStep == ASSUME IInv, NEW t \in Threads, WriteStatus(t) PROVE IInv'
<1> PICK c : c = call[t]
  OBVIOUS
<1>1. c \in Calls /\ Shaped(c) /\ Knows(c) /\ c.group \in Groups /\ raced \subseteq Groups
  BY CallFacts
<1>2. c.state \in States /\ c.state # "NonMember"
  BY <1>1 DEF WriteStatus, Shaped, Calls
<1>3. c.group \in raced \/ kind[c.group] # "none"
  BY <1>1 DEF WriteStatus, Knows
<1>4. c.group \in raced \cup {Root} \/ member[c.user][Enclosing(c.group)] # "NonMember"
  BY <1>1 DEF WriteStatus, Knows
<1>5. /\ End(t) /\ Active(t) /\ c.pc # "others" /\ UNCHANGED <<kind, asker, bounds, raced>>
      /\ Writes(c.user, c.group, c.state)
  BY DEF WriteStatus, Writes
<1> QED BY <1>1, <1>2, <1>3, <1>4, <1>5, GivingPreserves

LEMMA SetAdminStep == ASSUME IInv, NEW t \in Threads, SetAdmin(t) PROVE IInv'
<1> PICK c : c = call[t]
  OBVIOUS
<1>1. /\ c \in Calls /\ Shaped(c) /\ Knows(c) /\ raced \subseteq Groups /\ Open(c) = {}
      /\ troubles \in 0 .. MaxTroubles
  BY CallFacts DEF SetAdmin
<1>2. End(t) /\ Active(t) /\ c.pc = "admin" /\ UNCHANGED <<kind, asker, bounds>> /\ raced' = raced
  BY DEF SetAdmin
<1>3. CASE UNCHANGED member
  BY <1>1, <1>2, <1>3, EndPreserves
<1>4. CASE ~UNCHANGED member
  <2>1. Writes(c.user, c.group, "Admin") /\ member[c.user][c.other] # "NonMember"
    BY <1>4 DEF SetAdmin, Writes
  <2>2. c.group \in raced \/ (kind[c.group] # "none" /\ c.other = Enclosing(c.group))
    BY <1>1, <1>2 DEF Knows
  <2>3. "Admin" \in States /\ "Admin" # "NonMember"
    BY DEF States
  <2> QED BY <1>1, <1>2, <2>1, <2>2, <2>3, GivingPreserves
<1> QED BY <1>3, <1>4

-----------------------------------------------------------------------------
(* Steps that remove memberships. *)

\* Removing one membership, when nobody is left within the group, or the call
\* still has them before it.
LEMMA RemovingPreserves ==
    ASSUME IInv, NEW t \in Threads, NEW d, Moves(t, d), NEW u0 \in Users, NEW g0 \in Groups,
           g0 \in ScopeOfCall(call[t]), Writes(u0, g0, "NonMember"),
           UNCHANGED <<kind, asker, bounds, raced>>,
           \A g \in Groups \ {Root} : Enclosing(g) = g0 =>
              /\ g \in ScopeOfCall(call[t])
              /\ g \in raced \/ member[u0][g] = "NonMember" \/ (d.user = u0 /\ g \in Open(d)),
           \A h \in Open(call[t]) :
              (h \in Open(d) /\ d.user = call[t].user) \/ (h = g0 /\ call[t].user = u0),
           Knows(d)'
    PROVE  IInv'
<1>1. Typed /\ "NonMember" \in States
  BY DEF IInv, States
<1>2. \A u \in Users, g \in Groups :
         member'[u][g] = IF u = u0 /\ g = g0 THEN "NonMember" ELSE member[u][g]
  BY <1>1, MemberWritten
<1>3. Typed'
  <2>1. member' \in [Users -> [Groups -> States]]
    BY <1>1, MemberTyped
  <2>2. call' \in [Threads -> Calls]
    BY <1>1 DEF Moves, Typed
  <2> QED BY <1>1, <2>1, <2>2 DEF Typed
<1>4. \A g \in Groups \ {Root} : Enclosing(g) \in Groups /\ Enclosing(g) # g
  BY EnclosingFacts
<1>5. Touches(ScopeOfCall(call[t]))
  BY <1>2, <1>4 DEF Touches
<1>6. MembersHaveGroups'
  BY <1>2 DEF IInv, MembersHaveGroups
<1>7. GroupsEnclosed'
  BY DEF IInv, GroupsEnclosed
<1>8. \A h \in Open(call[t]) :
         h \in raced' \/ (h \in Open(d) /\ d.user = call[t].user)
                      \/ member'[call[t].user][h] = "NonMember"
  BY <1>2
<1>9. ASSUME NEW u \in Users, NEW g \in Groups \ (raced' \cup {Root})
      PROVE  \/ member'[u][g] = "NonMember"
             \/ member'[u][Enclosing(g)] # "NonMember"
             \/ d.user = u /\ g \in Open(d)
             \/ member[u][g] # "NonMember" /\ member[u][Enclosing(g)] = "NonMember"
  <2>1. CASE u = u0 /\ Enclosing(g) = g0
    BY <1>2, <1>4, <1>9, <2>1
  <2>2. CASE ~(u = u0 /\ Enclosing(g) = g0)
    <3>1. member'[u][Enclosing(g)] = member[u][Enclosing(g)]
      BY <1>2, <1>4, <1>9, <2>2
    <3>2. member'[u][g] = "NonMember" \/ member'[u][g] = member[u][g]
      BY <1>2, <1>9
    <3> QED BY <3>1, <3>2
  <2> QED BY <2>1, <2>2
<1>10. MembersNested'
  BY <1>8, <1>9, NestedKept
<1> QED BY <1>3, <1>5, <1>6, <1>7, <1>10, StepPreserves

LEMMA RemoveMembershipStep == ASSUME IInv, NEW t \in Threads, RemoveMembership(t) PROVE IInv'
<1> PICK c : c = call[t]
  OBVIOUS
<1>1. c \in Calls /\ Shaped(c) /\ Knows(c) /\ c.goal \in Groups
  BY CallFacts
<1>2. /\ c.pc = "others" /\ c.op = "remove" /\ c.group = c.goal /\ c.user \in Users
      /\ c.list \subseteq Alike[c.goal] \ {c.goal}
  BY <1>1 DEF RemoveMembership, Shaped
<1>3. /\ ScopeOfCall(c) = Alike[c.goal] /\ Alike[c.goal] \subseteq Groups
      /\ {c.goal} \cup Within(c.goal) \subseteq Alike[c.goal]
      /\ \A h \in Alike[c.goal] : Within(h) \subseteq Alike[c.goal]
  BY <1>1, <1>2, InScope, AlikeFacts
<1>4. \A h \in Alike[c.goal] \ ({c.goal} \cup c.list) :
         \/ h \in raced
         \/ member[c.user][h] = "NonMember"
         \/ c.list = {} /\ h \notin Within(c.goal)
  BY <1>1, <1>2 DEF Knows
<1>5. \A g \in Groups \ {Root} : g \in Within(Enclosing(g)) /\ Enclosing(g) # g
  BY EnclosingFacts
<1>6. UNCHANGED <<kind, asker, bounds, raced>>
  BY DEF RemoveMembership
<1>7. ASSUME NEW h \in c.list, member' = [member EXCEPT ![c.user][h] = "NonMember"],
             call' = [call EXCEPT ![t].list = @ \ {h}]
      PROVE  IInv'
  <2>1. PICK d : d = [c EXCEPT !.list = c.list \ {h}]
    OBVIOUS
  <2>2. call' = [call EXCEPT ![t] = d]
    BY <1>7, <2>1
  <2>3. /\ d \in Calls /\ d.op = "remove" /\ d.pc = "others" /\ d.goal = c.goal
        /\ d.group = c.goal /\ d.user = c.user /\ d.list = c.list \ {h} /\ d.state = c.state
        /\ d.other = c.other
    BY <1>1, <1>2, <2>1 DEF Calls
  <2>4. Shaped(d)
    BY <1>1, <1>2, <2>3 DEF Shaped
  <2>5. Moves(t, d)
    BY <1>2, <2>2, <2>3, <2>4, AdvanceMoves
  <2>6. h \in Groups /\ h \in ScopeOfCall(c) /\ h # c.goal
    BY <1>2, <1>3
  <2>7. Writes(c.user, h, "NonMember")
    BY <1>7 DEF Writes
  <2>8. \A g \in Alike[c.goal] : member'[c.user][g] =
           IF g = h THEN "NonMember" ELSE member[c.user][g]
    BY <1>2, <1>3, <2>7, MemberWritten DEF IInv
  <2>9. Knows(d)'
    BY <1>4, <1>6, <1>7, <2>3, <2>8 DEF Knows
  <2>10. \A g \in Open(c) : (g \in Open(d) /\ d.user = c.user) \/ g = h
    BY <1>2, <2>3 DEF Open
  <2>11. ASSUME NEW g \in Groups \ {Root}, Enclosing(g) = h
         PROVE  /\ g \in ScopeOfCall(c)
                /\ g \in raced \/ member[c.user][g] = "NonMember"
                               \/ (d.user = c.user /\ g \in Open(d))
    <3>1. g \in Within(h) /\ g # h /\ g \in Alike[c.goal]
      BY <1>3, <1>5, <2>6, <2>11
    <3>2. g # c.goal
      BY <1>1, <1>3, <2>6, <3>1, HierarchyAssumption DEF Within
    <3>3. g \in c.list => g \in Open(d)
      BY <2>3, <2>6, <2>11, <3>1 DEF Open
    <3> QED BY <1>3, <1>4, <1>7, <2>3, <3>1, <3>2, <3>3
  <2> QED BY <1>2, <1>6, <2>5, <2>6, <2>7, <2>9, <2>10, <2>11, RemovingPreserves
<1>8. ASSUME c.list = {}, End(t), member' = [member EXCEPT ![c.user][c.group] = "NonMember"]
      PROVE  IInv'
  <2>1. Moves(t, Idle) /\ Knows(Idle)'
    BY <1>8, IdleMoves
  <2>2. Writes(c.user, c.goal, "NonMember")
    BY <1>2, <1>8 DEF Writes
  <2>3. Open(c) = {}
    BY <1>8 DEF Open
  <2>4. \A g \in Groups \ {Root} : Enclosing(g) = c.goal =>
           g \in ScopeOfCall(c) /\ (g \in raced \/ member[c.user][g] = "NonMember")
    BY <1>3, <1>4, <1>5, <1>8
  <2> QED BY <1>1, <1>2, <1>3, <1>6, <2>1, <2>2, <2>3, <2>4, RemovingPreserves
<1> QED BY <1>7, <1>8 DEF RemoveMembership

-----------------------------------------------------------------------------
(* Steps that write the record of a group. *)

Sets(g0, k0) == kind' = [kind EXCEPT ![g0] = k0]

LEMMA KindPreserves ==
    ASSUME IInv, NEW t \in Threads, NEW d, Moves(t, d), Open(call[t]) = {},
           NEW g0 \in ScopeOfCall(call[t]), g0 \in Groups, NEW k0 \in Kinds, Sets(g0, k0),
           asker' \in [Groups -> Users \cup {"none"}], UNCHANGED <<member, calls>>,
           troubles' \in 0 .. MaxTroubles, raced \subseteq raced', raced' \subseteq Groups,
           k0 = "none" => g0 \in raced' \/ \A u \in Users : member[u][g0] = "NonMember",
           k0 = "group" => g0 \in raced' \/ g0 = Root \/ kind[Enclosing(g0)] # "none",
           k0 = "none" => /\ Inner(g0) \subseteq ScopeOfCall(call[t])
                          /\ \A h \in Inner(g0) : h \in raced' \/ kind[h] = "none",
           Knows(d)'
    PROVE  IInv'
<1>1. Typed'
  BY DEF IInv, Typed, Moves, Sets
<1>2. \A g \in Groups : kind'[g] = IF g = g0 THEN k0 ELSE kind[g]
  BY DEF IInv, Typed, Sets
<1>3. \A g \in Groups \ {Root} : Enclosing(g) \in Groups /\ Enclosing(g) # g
  BY EnclosingFacts
<1>4. Touches(ScopeOfCall(call[t]))
  <2>1. ASSUME NEW g \in Groups \ (ScopeOfCall(call[t]) \cup {Root}), kind[Enclosing(g)] # "none"
        PROVE  kind'[Enclosing(g)] # "none"
    <3>1. g \in Inner(Enclosing(g))
      BY DEF Inner
    <3> QED BY <1>2, <1>3, <2>1, <3>1
  <2> QED BY <1>2, <2>1 DEF Touches
<1>5. MembersHaveGroups'
  <2> SUFFICES ASSUME NEW u \in Users, NEW g \in Groups \ raced', member[u][g] # "NonMember"
               PROVE  kind'[g] # "none"
    BY DEF MembersHaveGroups
  <2>1. kind[g] # "none"
    BY DEF IInv, MembersHaveGroups
  <2> QED BY <1>2, <2>1
<1>6. GroupsEnclosed'
  <2> SUFFICES ASSUME NEW g \in Groups \ (raced' \cup {Root}), kind'[g] = "group"
               PROVE  kind'[Enclosing(g)] # "none"
    BY DEF GroupsEnclosed
  <2>1. CASE g = g0
    BY <1>2, <1>3, <2>1
  <2>2. CASE g # g0
    <3>1. kind[g] = "group" /\ kind[Enclosing(g)] # "none"
      BY <1>2, <2>2 DEF IInv, GroupsEnclosed
    <3>2. CASE Enclosing(g) = g0
      <4>1. g \in Inner(g0)
        BY <3>2 DEF Inner
      <4> QED BY <1>2, <3>1, <3>2, <4>1
    <3>3. CASE Enclosing(g) # g0
      BY <1>2, <1>3, <3>1, <3>3
    <3> QED BY <3>2, <3>3
  <2> QED BY <2>1, <2>2
<1>7. MembersNested'
  BY NestedKept
<1> QED BY <1>1, <1>4, <1>5, <1>6, <1>7, StepPreserves

\* createGroup writes a group or a request.
LEMMA FoundPreserves ==
    ASSUME IInv, NEW t \in Threads, NEW manages \in BOOLEAN, Found(t, manages), At(t, "create"),
           UNCHANGED <<member, calls>>, troubles' \in 0 .. MaxTroubles
    PROVE  IInv'
<1> PICK c : c = call[t]
  OBVIOUS
<1> PICK g0 : g0 = c.group
  OBVIOUS
<1>1. /\ c \in Calls /\ Shaped(c) /\ Knows(c) /\ Open(c) = {} /\ g0 \in Groups
      /\ raced \subseteq Groups
  BY CallFacts
<1>2. c.op = "create" /\ g0 = c.goal /\ c.pc = "create"
  BY <1>1 DEF Shaped
<1>3. g0 \in ScopeOfCall(c)
  BY <1>1, <1>2, InScope
<1>4. asker \in [Groups -> Users \cup {"none"}] /\ c.user \in Users \cup {"none"}
  BY <1>1 DEF IInv, Typed, Calls
<1>5. asker' = [asker EXCEPT ![g0] = IF manages THEN "none" ELSE c.user]
  BY DEF Found
<1>6. asker' \in [Groups -> Users \cup {"none"}]
  BY <1>4, <1>5
<1>7. raced' = raced \cup (IF manages THEN Stray(g0, c.other) ELSE {})
  BY DEF Found
<1>8. raced \subseteq raced' /\ raced' \subseteq Groups
  BY <1>1, <1>7 DEF Stray
<1>9. CASE manages
  <2>1. Sets(g0, "group") /\ "group" \in Kinds /\ Goto(t, "admin")
    BY <1>9 DEF Found, Sets, Kinds
  <2>2. PICK d : d = Moved(c, "admin")
    OBVIOUS
  <2>3. /\ d.op = c.op /\ d.goal = c.goal /\ d.group = c.group /\ d.pc = "admin"
        /\ d.list = c.list /\ d.other = c.other
    BY <1>1, <2>2, MovedFacts DEF Labels
  <2>4. Shaped(d)
    BY <1>1, <1>2, <2>3 DEF Shaped
  <2>5. Moves(t, d)
    BY <1>2, <2>1, <2>2, <2>4, GotoMoves DEF IInv, Labels
  <2>6. kind'[g0] = "group"
    BY <1>1, <2>1 DEF Sets, IInv, Typed
  <2>7. g0 \in raced' \/ c.other = Enclosing(g0)
    BY <1>7, <1>9 DEF Stray
  <2>8. Knows(d)'
    BY <2>3, <2>6, <2>7 DEF Knows
  <2>9. g0 \in raced' \/ kind[Enclosing(g0)] # "none"
    BY <1>1, <1>2, <1>8, <2>7 DEF Knows
  <2> QED BY <1>1, <1>3, <1>6, <1>8, <2>1, <2>5, <2>8, <2>9, KindPreserves
<1>10. CASE ~manages
  <2>1. Sets(g0, "request") /\ "request" \in Kinds /\ End(t)
    BY <1>10 DEF Found, Sets, Kinds
  <2>2. Moves(t, Idle) /\ Knows(Idle)'
    BY <2>1, IdleMoves
  <2> QED BY <1>1, <1>3, <1>6, <1>8, <2>1, <2>2, KindPreserves
<1> QED BY <1>9, <1>10

LEMMA WriteGroupStep == ASSUME IInv, NEW t \in Threads, WriteGroup(t) PROVE IInv'
<1>1. PICK manages \in BOOLEAN : manages = MayManage(call[t].user, call[t].other)
  BY DEF MayManage, AdminAbove
<1>2. At(t, "create") /\ Found(t, manages) /\ UNCHANGED <<member, calls, troubles>>
  BY <1>1 DEF WriteGroup
<1>3. troubles' \in 0 .. MaxTroubles
  BY <1>2, CallFacts
<1> QED BY <1>2, <1>3, FoundPreserves

\* approveGroupRequest has returned, whatever it has done.
LEMMA ApprovedMoves ==
    ASSUME IInv, NEW t \in Threads, At(t, "approve"), Approved(t),
           NEW c, c = call[t], kind'[c.group] = kind[c.group] \/ kind'[c.group] # "none"
    PROVE  /\ Moves(t, Moved(c, "admin")) /\ Knows(Moved(c, "admin"))'
           /\ raced \subseteq raced' /\ raced' \subseteq Groups
           /\ c.group \in raced' \/ kind[Enclosing(c.group)] # "none"
<1> PICK d : d = Moved(c, "admin")
  OBVIOUS
<1>1. /\ c \in Calls /\ Shaped(c) /\ Knows(c) /\ c.group \in Groups /\ raced \subseteq Groups
  BY CallFacts
<1>2. c.op = "approve" /\ c.group = c.goal /\ c.pc = "approve"
  BY <1>1 DEF Shaped
<1>3. /\ d.op = c.op /\ d.goal = c.goal /\ d.group = c.group /\ d.pc = "admin"
      /\ d.list = c.list /\ d.other = c.other
  BY <1>1, MovedFacts DEF Labels
<1>4. Shaped(d)
  BY <1>1, <1>2, <1>3 DEF Shaped
<1>5. Goto(t, "admin") /\ raced' = raced \cup Stray(c.group, c.other)
                                     \cup (IF kind[c.other] = "none" THEN {c.group} ELSE {})
  BY DEF Approved
<1>6. Moves(t, d)
  BY <1>2, <1>4, <1>5, GotoMoves DEF IInv, Labels
<1>7. raced \subseteq raced' /\ raced' \subseteq Groups
  BY <1>1, <1>5 DEF Stray
<1>8. c.group \in raced' \/ (c.other = Enclosing(c.group) /\ kind[c.other] # "none")
  BY <1>5 DEF Stray
<1>9. c.group \in raced' \/ kind'[c.group] # "none"
  BY <1>1, <1>2, <1>7 DEF Knows
<1>10. Knows(d)'
  BY <1>3, <1>8, <1>9 DEF Knows
<1> QED BY <1>6, <1>7, <1>8, <1>10

LEMMA WriteApprovalStep == ASSUME IInv, NEW t \in Threads, WriteApproval(t) PROVE IInv'
<1> PICK c : c = call[t]
  OBVIOUS
<1> PICK d : d = Moved(c, "admin")
  OBVIOUS
<1>1. /\ c \in Calls /\ Shaped(c) /\ Open(c) = {} /\ c.group \in Groups
      /\ troubles \in 0 .. MaxTroubles
  BY CallFacts DEF WriteApproval
<1>2. At(t, "approve") /\ Approved(t) /\ UNCHANGED <<member, calls, troubles>>
  BY DEF WriteApproval
<1>3. c.group \in ScopeOfCall(c)
  BY <1>1, <1>2, InScope
<1>4. CASE kind[c.group] = "request"
  <2>1. /\ kind' = [kind EXCEPT ![c.group] = "group"]
        /\ asker' = [asker EXCEPT ![c.group] = "none"]
    BY <1>4 DEF WriteApproval
  <2>2. asker' \in [Groups -> Users \cup {"none"}]
    BY <2>1 DEF IInv, Typed
  <2>3. kind'[c.group] = "group" /\ Sets(c.group, "group") /\ "group" \in Kinds
    BY <1>1, <2>1 DEF IInv, Typed, Sets, Kinds
  <2>4. /\ Moves(t, d) /\ Knows(d)' /\ raced \subseteq raced' /\ raced' \subseteq Groups
        /\ c.group \in raced' \/ kind[Enclosing(c.group)] # "none"
    BY <1>2, <2>3, ApprovedMoves
  <2> QED BY <1>1, <1>2, <1>3, <2>2, <2>3, <2>4, KindPreserves
<1>5. CASE kind[c.group] # "request"
  <2>1. UNCHANGED <<kind, asker>>
    BY <1>5 DEF WriteApproval
  <2>2. Moves(t, d) /\ Knows(d)' /\ raced \subseteq raced' /\ raced' \subseteq Groups
    BY <1>2, <2>1, ApprovedMoves
  <2> QED BY <1>1, <1>2, <2>1, <2>2, ReadingPreserves
<1> QED BY <1>4, <1>5

LEMMA ApproveFailsStep == ASSUME IInv, NEW t \in Threads, ApproveFails(t) PROVE IInv'
<1> PICK d : d = Moved(call[t], "admin")
  OBVIOUS
<1>1. At(t, "approve") /\ Approved(t) /\ UNCHANGED <<kind, asker, member, calls>>
  BY DEF ApproveFails
<1>2. troubles' \in 0 .. MaxTroubles
  BY TroubleFacts DEF ApproveFails
<1>3. Open(call[t]) = {}
  BY <1>1, CallFacts
<1>4. Moves(t, d) /\ Knows(d)' /\ raced \subseteq raced' /\ raced' \subseteq Groups
  BY <1>1, ApprovedMoves
<1> QED BY <1>1, <1>2, <1>3, <1>4, ReadingPreserves

\* updateGroupRequest writes the request under its new name.
LEMMA WriteRequestStep == ASSUME IInv, NEW t \in Threads, WriteRequest(t) PROVE IInv'
<1> PICK c : c = call[t]
  OBVIOUS
<1> PICK d : d = Moved(c, "group")
  OBVIOUS
<1>1. /\ c \in Calls /\ Shaped(c) /\ Open(c) = {} /\ c.group \in Groups /\ raced \subseteq Groups
      /\ c.pc = "rename"
  BY CallFacts DEF WriteRequest
<1>2. /\ Sets(c.other, "request") /\ asker' = [asker EXCEPT ![c.other] = c.user]
      /\ raced' = raced \cup Left(c.group) \cup ({c.other} \cap Within(c.group))
      /\ Goto(t, "group") /\ UNCHANGED <<member, calls, troubles>>
  BY DEF WriteRequest, Sets
<1>3. c.other \in Groups /\ c.user \in Users \cup {"none"} /\ "request" \in Kinds
  BY <1>1 DEF Calls, Kinds
<1>4. asker' \in [Groups -> Users \cup {"none"}]
  BY <1>2, <1>3 DEF IInv, Typed
<1>5. Within(c.group) \subseteq Groups /\ Inner(c.group) \subseteq Within(c.group)
  BY <1>1, WithinFacts
<1>6. raced \subseteq raced' /\ raced' \subseteq Groups
  BY <1>1, <1>2, <1>5 DEF Left
<1>7. c.op = "rename"
  BY <1>1 DEF Shaped
<1>8. c.other \in ScopeOfCall(c)
  BY <1>1, <1>7, InScope
<1>9. /\ d.op = c.op /\ d.goal = c.goal /\ d.group = c.group /\ d.pc = "group"
      /\ d.list = c.list /\ d.other = c.other
  BY <1>1, MovedFacts DEF Labels
<1>10. Shaped(d)
  BY <1>1, <1>7, <1>9 DEF Shaped
<1>11. Moves(t, d)
  BY <1>1, <1>2, <1>10, GotoMoves DEF IInv, Labels
<1>12. \A g \in Groups : kind'[g] = IF g = c.other THEN "request" ELSE kind[g]
  BY <1>2 DEF IInv, Typed, Sets
<1>13. NoGroups(Inner(c.group))'
  <2>1. \A h \in Inner(c.group) : h \in raced' \/ kind'[h] = "none"
    BY <1>2, <1>5, <1>12 DEF Left
  <2> QED BY <2>1 DEF NoGroups, Inner
<1>14. Knows(d)'
  BY <1>7, <1>9, <1>13 DEF Knows
<1>15. troubles' \in 0 .. MaxTroubles
  BY <1>2, CallFacts
<1> QED BY <1>1, <1>2, <1>3, <1>4, <1>6, <1>8, <1>11, <1>14, <1>15, KindPreserves

-----------------------------------------------------------------------------
(* Steps of a deletion. *)

\* A group comes after those within it: none of them is left in the list.
LEMMA NextGroupStep == ASSUME IInv, NEW t \in Threads, NextGroup(t) PROVE IInv'
<1> PICK c : c = call[t]
  OBVIOUS
<1>1. /\ c \in Calls /\ Shaped(c) /\ Knows(c) /\ Open(c) = {} /\ c.goal \in Groups
      /\ raced \subseteq Groups /\ troubles \in 0 .. MaxTroubles
  BY CallFacts DEF NextGroup
<1>2. c.pc = "next" /\ c.op = "delete" /\ c.list \subseteq Within(c.goal)
  BY <1>1 DEF NextGroup, Shaped
<1>3. NoGroups(Within(c.goal) \ c.list)
  BY <1>1, <1>2 DEF Knows
<1>4. /\ Within(c.goal) \subseteq Groups /\ Inner(c.goal) \subseteq Within(c.goal)
      /\ \A h \in Within(c.goal) :
            Inner(h) \subseteq Within(h) /\ Within(h) \subseteq Within(c.goal)
  BY <1>1, WithinFacts
<1>5. UNCHANGED <<kind, asker, member, bounds, raced>>
  BY DEF NextGroup
\* From here on it removes g, with hs left in the list.
<1>6. ASSUME NEW g \in {c.goal} \cup Within(c.goal), NEW hs, hs \subseteq Within(c.goal),
             Inner(g) \subseteq Within(c.goal) \ c.list, c.list \subseteq hs \cup {g},
             NEW d, d = [c EXCEPT !.list = hs, !.group = g, !.pc = "group"],
             call' = [call EXCEPT ![t] = d]
      PROVE  IInv'
  <2>1. /\ d \in Calls /\ d.op = c.op /\ d.goal = c.goal /\ d.group = g /\ d.pc = "group"
        /\ d.list = hs /\ d.other = c.other
    BY <1>1, <1>4, <1>6 DEF Calls, Labels
  <2>2. Shaped(d)
    BY <1>2, <1>6, <2>1 DEF Shaped, Ops
  <2>3. Moves(t, d)
    BY <1>2, <1>6, <2>1, <2>2, AdvanceMoves
  <2>4. NoGroups(Inner(g)) /\ NoGroups(Within(c.goal) \ (hs \cup {g}))
    BY <1>3, <1>6 DEF NoGroups
  <2>5. NoGroups(Inner(g))' /\ NoGroups(Within(c.goal) \ (hs \cup {g}))'
    BY <1>5, <2>4 DEF NoGroups
  <2>6. Knows(d)'
    BY <2>1, <2>5 DEF Knows
  <2> QED BY <1>1, <1>5, <2>3, <2>6, ReadingPreserves
<1>7. ASSUME NEW h \in c.list, Within(h) \cap c.list = {},
             call' = [call EXCEPT ![t].list = @ \ {h}, ![t].group = h, ![t].pc = "group"]
      PROVE  IInv'
  <2> PICK d : d = [c EXCEPT !.list = c.list \ {h}, !.group = h, !.pc = "group"]
    OBVIOUS
  <2>1. call' = [call EXCEPT ![t] = d]
    BY <1>7
  <2>2. h \in {c.goal} \cup Within(c.goal)
    BY <1>2, <1>7
  <2>3. Inner(h) \subseteq Within(c.goal) \ c.list
    BY <1>2, <1>4, <1>7
  <2>4. c.list \ {h} \subseteq Within(c.goal) /\ c.list \subseteq (c.list \ {h}) \cup {h}
    BY <1>2
  <2> QED BY <1>6, <2>1, <2>2, <2>3, <2>4
<1>8. ASSUME c.list = {}, call' = [call EXCEPT ![t].group = c.goal, ![t].pc = "group"]
      PROVE  IInv'
  <2> PICK d : d = [c EXCEPT !.list = {}, !.group = c.goal, !.pc = "group"]
    OBVIOUS
  <2>1. d = [c EXCEPT !.group = c.goal, !.pc = "group"]
    BY <1>1, <1>8 DEF Calls
  <2>2. call' = [call EXCEPT ![t] = d]
    BY <1>8, <2>1
  <2>3. Inner(c.goal) \subseteq Within(c.goal) \ c.list
    BY <1>4, <1>8
  <2> QED BY <1>6, <1>8, <2>2, <2>3
<1> QED BY <1>7, <1>8 DEF NextGroup

\* A handler has listed the members us of its group.
Listed(c, d, us) ==
    \/ d = [c EXCEPT !.pc = "members", !.users = us]
    \/ d = [c EXCEPT !.pc = "members"] /\ us = c.users

LEMMA ToMembers ==
    ASSUME IInv, NEW t \in Threads, At(t, "group"), NEW us, us \subseteq Users,
           NEW d, call' = [call EXCEPT ![t] = d],
           Listed(call[t], d, us), UNCHANGED <<kind, asker, member, calls>>,
           troubles' \in 0 .. MaxTroubles,
           raced \subseteq raced', raced' \subseteq Groups,
           call[t].group \in raced' \/ \A u \in Users \ us : member[u][call[t].group] = "NonMember"
    PROVE  IInv'
<1> PICK c : c = call[t]
  OBVIOUS
<1>1. c \in Calls /\ Shaped(c) /\ Knows(c) /\ Open(c) = {}
  BY CallFacts
<1>2. /\ d \in Calls /\ d.op = c.op /\ d.goal = c.goal /\ d.group = c.group /\ d.pc = "members"
      /\ d.list = c.list /\ d.users = us /\ d.other = c.other
  BY <1>1 DEF Calls, Labels, Listed
<1>3. c.op \in {"rename", "approve", "deny", "delete"}
  BY <1>1 DEF Shaped
<1>4. Shaped(d)
  BY <1>1, <1>2, <1>3 DEF Shaped, Ops
<1>5. Moves(t, d)
  BY <1>2, <1>4, AdvanceMoves
<1>6. /\ NoGroups(Inner(c.group))
      /\ c.op = "delete" => NoGroups(Within(c.goal) \ (c.list \cup {c.group}))
  BY <1>1 DEF Knows
<1>7. /\ NoGroups(Inner(c.group))'
      /\ c.op = "delete" => NoGroups(Within(c.goal) \ (c.list \cup {c.group}))'
  BY <1>6 DEF NoGroups
<1>8. Knows(d)'
  BY <1>2, <1>7 DEF Knows
<1> QED BY <1>1, <1>5, <1>8, ReadingPreserves

LEMMA ListMembersStep == ASSUME IInv, NEW t \in Threads, ListMembers(t) PROVE IInv'
<1> PICK c : c = call[t]
  OBVIOUS
<1> PICK us : us = {u \in Users : member[u][c.group] # "NonMember"}
  OBVIOUS
<1> PICK d : d = [c EXCEPT !.pc = "members", !.users = us]
  OBVIOUS
<1>1. raced \subseteq Groups /\ troubles \in 0 .. MaxTroubles
  BY CallFacts
<1>2. call' = [call EXCEPT ![t] = d]
  BY DEF ListMembers
<1>3. us \subseteq Users /\ \A u \in Users \ us : member[u][c.group] = "NonMember"
  OBVIOUS
<1>4. At(t, "group") /\ UNCHANGED <<kind, asker, member, calls, troubles, raced>>
  BY DEF ListMembers
<1>5. Listed(call[t], d, us) /\ \A u \in Users \ us : member[u][call[t].group] = "NonMember"
  BY <1>3 DEF Listed
<1>6. troubles' \in 0 .. MaxTroubles /\ raced \subseteq raced' /\ raced' \subseteq Groups
  BY <1>1, <1>4
<1> QED BY <1>2, <1>3, <1>4, <1>5, <1>6, ToMembers

LEMMA RemoveMemberStep == ASSUME IInv, NEW t \in Threads, RemoveMember(t) PROVE IInv'
<1> PICK c : c = call[t]
  OBVIOUS
<1>1. c \in Calls /\ Shaped(c) /\ Knows(c) /\ Open(c) = {} /\ c.group \in Groups
  BY CallFacts DEF RemoveMember
<1>2. PICK u0 \in c.users : /\ member' = [member EXCEPT ![u0][c.group] = "NonMember"]
                            /\ call' = [call EXCEPT ![t].users = @ \ {u0}]
  BY DEF RemoveMember
<1> PICK d : d = [c EXCEPT !.users = c.users \ {u0}]
  OBVIOUS
<1>3. call' = [call EXCEPT ![t] = d]
  BY <1>2
<1>4. u0 \in Users
  BY <1>1, <1>2 DEF Calls
<1>5. /\ d \in Calls /\ d.op = c.op /\ d.goal = c.goal /\ d.group = c.group /\ d.pc = "members"
      /\ d.list = c.list /\ d.users = c.users \ {u0} /\ c.pc = "members" /\ d.other = c.other
  BY <1>1 DEF Calls, RemoveMember
<1>6. c.op \in {"rename", "approve", "deny", "delete"}
  BY <1>1, <1>5 DEF Shaped
<1>7. Shaped(d)
  BY <1>1, <1>5, <1>6 DEF Shaped, Ops
<1>8. Moves(t, d)
  BY <1>3, <1>5, <1>7, AdvanceMoves
<1>9. /\ NoGroups(Inner(c.group))
      /\ c.op = "delete" => NoGroups(Within(c.goal) \ (c.list \cup {c.group}))
  BY <1>1, <1>5 DEF Knows
<1>10. UNCHANGED <<kind, asker, bounds, raced>>
  BY DEF RemoveMember
<1>11. /\ NoGroups(Inner(c.group))'
       /\ c.op = "delete" => NoGroups(Within(c.goal) \ (c.list \cup {c.group}))'
  BY <1>9, <1>10 DEF NoGroups
<1>12. Writes(u0, c.group, "NonMember")
  BY <1>2 DEF Writes
<1>13. \A u \in Users : member'[u][c.group] = IF u = u0 THEN "NonMember" ELSE member[u][c.group]
  BY <1>1, <1>12, MemberWritten DEF IInv
<1>14. c.group \in raced \/ \A u \in Users \ c.users : member[u][c.group] = "NonMember"
  BY <1>1, <1>5 DEF Knows
<1>15. Knows(d)'
  BY <1>5, <1>10, <1>11, <1>13, <1>14 DEF Knows
<1>16. ASSUME NEW g \in Groups \ {Root}, Enclosing(g) = c.group
       PROVE  g \in ScopeOfCall(c) /\ (g \in raced \/ member[u0][g] = "NonMember")
  <2>1. g \in Inner(c.group) /\ Inner(c.group) \subseteq Within(c.group)
    BY <1>1, <1>16, WithinFacts DEF Inner
  <2>2. g \in ScopeOfCall(c)
    BY <1>1, <1>5, <2>1, InScope
  <2>3. g \in raced \/ kind[g] = "none"
    BY <1>9, <2>1 DEF NoGroups
  <2> QED BY <1>4, <1>16, <2>2, <2>3 DEF IInv, MembersHaveGroups
<1>17. c.group \in ScopeOfCall(c)
  BY <1>1, <1>5, InScope
<1> QED BY <1>1, <1>4, <1>8, <1>10, <1>12, <1>15, <1>16, <1>17, RemovingPreserves

LEMMA RemoveRecordStep == ASSUME IInv, NEW t \in Threads, RemoveRecord(t) PROVE IInv'
<1> PICK c : c = call[t]
  OBVIOUS
<1>1. /\ c \in Calls /\ Shaped(c) /\ Knows(c) /\ Open(c) = {} /\ c.group \in Groups
      /\ raced \subseteq Groups /\ troubles \in 0 .. MaxTroubles
  BY CallFacts DEF RemoveRecord
<1>2. c.pc = "members" /\ c.users = {} /\ UNCHANGED <<member, bounds, raced>>
  BY DEF RemoveRecord
<1>3. c.group \in raced \/ \A u \in Users : member[u][c.group] = "NonMember"
  BY <1>1, <1>2 DEF Knows
<1>4. /\ NoGroups(Inner(c.group))
      /\ c.op = "delete" => NoGroups(Within(c.goal) \ (c.list \cup {c.group}))
  BY <1>1, <1>2 DEF Knows
<1>5. Sets(c.group, "none") /\ "none" \in Kinds
  BY DEF RemoveRecord, Sets, Kinds
<1>6. asker' \in [Groups -> Users \cup {"none"}]
  <2>1. asker \in [Groups -> Users \cup {"none"}]
    BY DEF IInv, Typed
  <2> QED BY <2>1 DEF RemoveRecord
<1>7. c.group \in ScopeOfCall(c)
  BY <1>1, <1>2, InScope
<1>8. /\ Inner(c.group) \subseteq ScopeOfCall(c)
      /\ \A h \in Inner(c.group) : h \in raced' \/ kind[h] = "none"
  BY <1>1, <1>2, <1>4, InScope, WithinFacts DEF NoGroups
<1>9. ASSUME NEW d, Moves(t, d), Knows(d)' PROVE IInv'
  BY <1>1, <1>2, <1>3, <1>5, <1>6, <1>7, <1>8, <1>9, KindPreserves
<1>10. CASE End(t)
  BY <1>9, <1>10, IdleMoves
<1>11. CASE ~End(t)
  <2>1. Goto(t, "next") /\ c.op = "delete"
    BY <1>11 DEF RemoveRecord
  <2> PICK d : d = Moved(c, "next")
    OBVIOUS
  <2>2. /\ d.op = c.op /\ d.user = c.user /\ d.group = c.group /\ d.goal = c.goal
        /\ d.list = c.list /\ d.state = c.state /\ d.pc = "next"
    BY <1>1, MovedFacts DEF Labels
  <2>3. Shaped(d)
    BY <1>1, <2>1, <2>2 DEF Shaped, Ops
  <2>4. Moves(t, d)
    BY <1>2, <2>1, <2>3, GotoMoves DEF IInv, Labels
  <2>5. Within(c.goal) \subseteq Groups
    BY <1>1, CallFacts, WithinFacts
  <2>6. \A g \in Groups : kind'[g] = IF g = c.group THEN "none" ELSE kind[g]
    BY <1>1, <1>5 DEF Sets, IInv, Typed
  <2>7. NoGroups(Within(c.goal) \ c.list)'
    BY <1>2, <1>4, <2>1, <2>5, <2>6 DEF NoGroups
  <2>8. Knows(d)'
    BY <2>2, <2>7 DEF Knows
  <2> QED BY <1>9, <2>4, <2>8
<1> QED BY <1>10, <1>11

-----------------------------------------------------------------------------
(* A call begins. *)

LEMMA CallRecord ==
    ASSUME NEW op \in Ops, NEW g \in Groups, NEW label \in Labels
    PROVE  LET c == Call(op, g, label)
           IN  /\ c \in Calls /\ c.op = op /\ c.pc = label /\ c.user = "none" /\ c.group = g
               /\ c.goal = g /\ c.other = Root /\ c.state = "NonMember" /\ c.list = {}
               /\ c.users = {}
BY HierarchyAssumption DEF Call, Idle, Calls, States

\* Its record says what it has tested, and marks what it is about to leave.
LEMMA BeginPreserves ==
    ASSUME IInv, NEW t \in Threads, Ready(t), NEW d \in Calls, NEW left \in SUBSET Groups,
           Begin(t, d, left), troubles' \in 0 .. MaxTroubles,
           Shaped(d), d.pc # "idle", Knows(d)'
    PROVE  IInv'
<1>1. call \in [Threads -> Calls] /\ call[t].pc = "idle" /\ call' = [call EXCEPT ![t] = d]
  BY DEF IInv, Typed, Begin, Ready
<1>2. /\ call'[t] = d /\ \A s \in Threads : s # t => call'[s] = call[s]
      /\ ScopeOfCall(call[t]) = {} /\ Open(call[t]) = {}
  BY <1>1 DEF ScopeOfCall, Open
<1>3. raced' = StillRaced \cup left
                \cup (ScopeOfCall(d) \cap UNION {ScopeOfCall(call[s]) : s \in Threads})
  BY DEF Begin, ScopeOf, ScopeOfCall
<1>4. \A g \in raced : g \notin raced' =>
         /\ kind[g] = "none" /\ \A u \in Users : member[u][g] = "NonMember"
         /\ \A s \in Threads : g \notin ScopeOfCall(call[s])
  BY <1>3 DEF StillRaced, ScopeOf, ScopeOfCall
<1>5. UNCHANGED <<kind, asker, member>> /\ calls' \in 0 .. MaxCalls
  BY HierarchyAssumption DEF Begin, Ready, IInv, Typed
<1>6. Typed'
  <2>1. raced' \subseteq Groups
    BY <1>3, InScope DEF StillRaced, IInv, Typed
  <2>2. call' \in [Threads -> Calls]
    BY <1>1
  <2> QED BY <1>5, <2>1, <2>2 DEF IInv, Typed
<1>7. CallsShaped'
  <2>1. \A s \in Threads : Shaped(call'[s])
    BY <1>2 DEF CallsShaped, IInv
  <2> QED BY <2>1 DEF CallsShaped, Shaped
<1>8. MeetingsKnown'
  <2> SUFFICES ASSUME NEW r \in Threads, NEW s \in Threads, r # s
               PROVE  ScopeOfCall(call'[r]) \cap ScopeOfCall(call'[s]) \subseteq raced'
    BY DEF MeetingsKnown, ScopeOfCall
  <2>1. CASE r # t /\ s # t
    BY <1>2, <1>4, <2>1 DEF IInv, MeetingsKnown
  <2>2. CASE r = t \/ s = t
    BY <1>2, <1>3, <2>2
  <2> QED BY <2>1, <2>2
<1>9. CallsKnow'
  <2>1. ASSUME NEW s \in Threads PROVE Knows(call[s])'
    <3>1. CASE s = t
      <4>1. call'[s] = d
        BY <1>2, <3>1
      <4> QED BY <4>1 DEF Knows
    <3>2. CASE s # t
      <4> PICK c : c = call[s]
        OBVIOUS
      <4>1. Touches({})
        BY <1>5 DEF Touches
      <4>2. ScopeOfCall(c) \cap raced \subseteq raced'
        BY <1>4
      <4>3. Knows(c)'
        BY <4>1, <4>2, OthersKnow
      <4> QED BY <1>2, <3>2, <4>3 DEF Knows
    <3> QED BY <3>1, <3>2
  <2> QED BY <2>1 DEF CallsKnow
<1>10. MembersHaveGroups' /\ GroupsEnclosed'
  BY <1>4, <1>5 DEF IInv, MembersHaveGroups, GroupsEnclosed
<1>11. MembersNested'
  <2> SUFFICES ASSUME NEW u \in Users, NEW g \in Groups \ (raced' \cup {Root}),
                      member[u][g] # "NonMember", member[u][Enclosing(g)] = "NonMember"
               PROVE  \E s \in Threads : call'[s].user = u /\ g \in Open(call'[s])
    BY <1>5 DEF MembersNested, Open
  <2>1. g \notin raced
    BY <1>4
  <2>2. PICK s \in Threads : call[s].user = u /\ g \in Open(call[s])
    BY <2>1 DEF IInv, MembersNested
  <2> QED BY <1>2, <2>2
<1> QED BY <1>6, <1>7, <1>8, <1>9, <1>10, <1>11 DEF IInv

\* setUserStatusInGroup has found a group and an allowed change.
LEMMA MaySetPreserves ==
    ASSUME IInv, NEW t \in Threads, Ready(t), NEW by \in Users, NEW u \in Users, NEW g \in Groups,
           NEW s \in States, s # "NonMember", NEW now, MaySet(t, by, u, g, now, s),
           troubles' \in 0 .. MaxTroubles
    PROVE  IInv'
<1> PICK e : e = Call("set", g, "enclosing")
  OBVIOUS
<1> PICK d : d = [e EXCEPT !.user = u, !.state = s]
  OBVIOUS
<1>1. e \in Calls /\ e.op = "set" /\ e.pc = "enclosing" /\ e.group = g /\ e.goal = g
  BY CallRecord DEF Ops, Labels
<1>2. /\ d \in Calls /\ d.op = "set" /\ d.pc = "enclosing" /\ d.group = g /\ d.goal = g
      /\ d.user = u /\ d.state = s
  BY <1>1 DEF Calls
<1>3. Begin(t, d, {}) /\ kind[g] # "none" /\ kind' = kind
  BY DEF MaySet, Begin
<1>4. Shaped(d)
  BY <1>2 DEF Shaped, Ops
<1>5. Knows(d)'
  BY <1>2, <1>3 DEF Knows
<1> QED BY <1>2, <1>3, <1>4, <1>5, BeginPreserves

LEMMA CheckStatusStep == ASSUME IInv, NEW t \in Threads, CheckStatus(t) PROVE IInv'
<1>1. Ready(t) /\ troubles' \in 0 .. MaxTroubles
  BY CallFacts DEF CheckStatus
<1>2. PICK by \in Users, u \in Users, g \in Groups, s \in States \ {"NonMember"} :
         MaySet(t, by, u, g, member[u][g], s)
  BY DEF CheckStatus
<1> QED BY <1>1, <1>2, MaySetPreserves

\* removeUserFromGroup has the memberships hs of the user u, or else they are raced.
LEMMA RemovalPreserves ==
    ASSUME IInv, NEW t \in Threads, Ready(t), NEW u \in Users, NEW g \in Groups,
           NEW hs \in SUBSET (Alike[g] \ {g}), NEW left \in SUBSET Groups,
           Begin(t, [Call("remove", g, "others") EXCEPT !.user = u, !.list = hs], left),
           \A h \in Alike[g] \ ({g} \cup hs) :
              h \in left \/ member[u][h] = "NonMember" \/ (hs = {} /\ h \notin Within(g)),
           troubles' \in 0 .. MaxTroubles
    PROVE  IInv'
<1> PICK e : e = Call("remove", g, "others")
  OBVIOUS
<1> PICK d : d = [e EXCEPT !.user = u, !.list = hs]
  OBVIOUS
<1>1. e \in Calls /\ e.op = "remove" /\ e.pc = "others" /\ e.group = g /\ e.goal = g
  BY CallRecord DEF Ops, Labels
<1>2. hs \subseteq Groups
  BY AlikeFacts
<1>3. /\ d \in Calls /\ d.op = "remove" /\ d.pc = "others" /\ d.group = g /\ d.goal = g
      /\ d.user = u /\ d.list = hs
  BY <1>1, <1>2 DEF Calls
<1>4. Begin(t, d, left) /\ member' = member /\ left \subseteq raced'
  BY DEF Begin
<1>5. Shaped(d)
  BY <1>3 DEF Shaped, Ops
<1>6. Knows(d)'
  BY <1>3, <1>4 DEF Knows
<1> QED BY <1>3, <1>4, <1>5, <1>6, BeginPreserves

LEMMA ListMembershipsStep == ASSUME IInv, NEW t \in Threads, ListMemberships(t) PROVE IInv'
<1>1. Ready(t) /\ troubles' \in 0 .. MaxTroubles
  BY CallFacts DEF ListMemberships
<1>2. PICK by \in Users, u \in Users, g \in Groups :
         Begin(t, [Call("remove", g, "others") EXCEPT
                     !.user = u,
                     !.list = {h \in Alike[g] \ {g} : member[u][h] # "NonMember"}], {})
  BY DEF ListMemberships
<1> PICK hs : hs = {h \in Alike[g] \ {g} : member[u][h] # "NonMember"}
  OBVIOUS
<1>3. Begin(t, [Call("remove", g, "others") EXCEPT !.user = u, !.list = hs], {})
  BY <1>2
<1>4. /\ hs \in SUBSET (Alike[g] \ {g}) /\ {} \in SUBSET Groups
      /\ \A h \in Alike[g] \ ({g} \cup hs) : member[u][h] = "NonMember"
  BY AlikeFacts DEF IInv, Typed, States
<1> QED BY <1>1, <1>3, <1>4, RemovalPreserves

\* createGroup has found a parent.
LEMMA MayCreatePreserves ==
    ASSUME IInv, NEW t \in Threads, NEW found, MayCreate(t, found), troubles' \in 0 .. MaxTroubles
    PROVE  IInv'
<1>1. PICK by \in Users, g \in Groups \ {Root}, p \in Groups :
         /\ kind[p] # "none"
         /\ Begin(t, [Call("create", g, "create") EXCEPT !.user = by, !.other = p], {})
  BY DEF MayCreate
<1> PICK e : e = Call("create", g, "create")
  OBVIOUS
<1> PICK d : d = [e EXCEPT !.user = by, !.other = p]
  OBVIOUS
<1>2. e \in Calls /\ e.op = "create" /\ e.pc = "create" /\ e.group = g /\ e.goal = g
  BY CallRecord DEF Ops, Labels
<1>3. /\ d \in Calls /\ d.op = "create" /\ d.pc = "create" /\ d.group = g /\ d.goal = g
      /\ d.other = p
  BY <1>2 DEF Calls
<1>4. Begin(t, d, {}) /\ kind' = kind /\ Ready(t)
  BY <1>1 DEF Begin, MayCreate
<1>5. Shaped(d)
  BY <1>3 DEF Shaped, Ops
<1>6. Knows(d)'
  BY <1>1, <1>3, <1>4 DEF Knows
<1> QED BY <1>3, <1>4, <1>5, <1>6, BeginPreserves

LEMMA CreateStep == ASSUME IInv, NEW t \in Threads, Create(t) PROVE IInv'
<1>1. MayCreate(t, kind) /\ troubles' \in 0 .. MaxTroubles
  BY CallFacts DEF Create
<1> QED BY <1>1, MayCreatePreserves

\* updateGroupRequest has found the request, and nothing under the new name.
LEMMA MayRenamePreserves ==
    ASSUME IInv, NEW t \in Threads, NEW found, MayRename(t, found), troubles' \in 0 .. MaxTroubles
    PROVE  IInv'
<1>1. PICK by \in Users, g \in Groups \ {Root}, r \in Groups \ {Root} :
         Begin(t, [Call("rename", g, "rename") EXCEPT !.user = asker[g], !.other = r], {})
  BY DEF MayRename
<1> PICK e : e = Call("rename", g, "rename")
  OBVIOUS
<1> PICK d : d = [e EXCEPT !.user = asker[g], !.other = r]
  OBVIOUS
<1>2. e \in Calls /\ e.op = "rename" /\ e.pc = "rename" /\ e.group = g /\ e.goal = g
  BY CallRecord DEF Ops, Labels
<1>3. asker[g] \in Users \cup {"none"}
  BY DEF IInv, Typed
<1>4. d \in Calls /\ d.op = "rename" /\ d.pc = "rename" /\ d.group = g /\ d.goal = g
  BY <1>2, <1>3 DEF Calls
<1>5. Begin(t, d, {}) /\ Ready(t)
  BY <1>1 DEF MayRename
<1>6. Shaped(d)
  BY <1>4 DEF Shaped, Ops
<1>7. Knows(d)'
  BY <1>4 DEF Knows
<1> QED BY <1>4, <1>5, <1>6, <1>7, BeginPreserves

LEMMA RenameStep == ASSUME IInv, NEW t \in Threads, Rename(t) PROVE IInv'
<1>1. MayRename(t, kind) /\ troubles' \in 0 .. MaxTroubles
  BY CallFacts DEF Rename
<1> QED BY <1>1, MayRenamePreserves

LEMMA GroupReadFailsStep == ASSUME IInv, NEW t \in Threads, GroupReadFails(t) PROVE IInv'
<1>1. troubles' \in 0 .. MaxTroubles
  BY TroubleFacts DEF GroupReadFails
<1>2. PICK unread : MayCreate(t, unread) \/ MayRename(t, unread)
  BY DEF GroupReadFails
<1> QED BY <1>1, <1>2, MayCreatePreserves, MayRenamePreserves

\* A request is going to be removed alone.
LEMMA AlonePreserves ==
    ASSUME IInv, NEW t \in Threads, Ready(t), NEW g \in Groups, g # Root,
           NEW op \in {"approve", "deny"}, Begin(t, Call(op, g, "group"), Left(g)),
           troubles' \in 0 .. MaxTroubles
    PROVE  IInv'
<1> PICK d : d = Call(op, g, "group")
  OBVIOUS
<1>1. d \in Calls /\ d.op = op /\ d.pc = "group" /\ d.group = g /\ d.goal = g
  BY CallRecord DEF Ops, Labels
<1>2. Begin(t, d, Left(g)) /\ kind' = kind /\ Left(g) \subseteq raced'
  BY DEF Begin
<1>3. Within(g) \subseteq Groups /\ Inner(g) \subseteq Within(g)
  BY WithinFacts
<1>4. Left(g) \in SUBSET Groups
  BY <1>3 DEF Left
<1>5. Shaped(d)
  BY <1>1 DEF Shaped, Ops
<1>6. NoGroups(Inner(g))'
  <2>1. \A h \in Inner(g) : h \in raced' \/ kind'[h] = "none"
    BY <1>2, <1>3 DEF Left
  <2> QED BY <2>1 DEF NoGroups, Inner
<1>7. Knows(d)'
  BY <1>1, <1>6 DEF Knows
<1> QED BY <1>1, <1>2, <1>4, <1>5, <1>7, BeginPreserves

LEMMA ApproveStep == ASSUME IInv, NEW t \in Threads, Approve(t) PROVE IInv'
<1>1. Ready(t) /\ troubles' \in 0 .. MaxTroubles
  BY CallFacts DEF Approve
<1>2. PICK g \in Groups \ {Root}, p \in Groups :
         /\ kind[g] = "request"
         /\ \/ Begin(t, [Call("approve", g, "approve") EXCEPT !.user = asker[g], !.other = p], {})
            \/ Begin(t, Call("approve", g, "group"), Left(g))
  BY DEF Approve, MayApprove
<1>3. ASSUME Begin(t, [Call("approve", g, "approve") EXCEPT !.user = asker[g], !.other = p], {})
      PROVE  IInv'
  <2> PICK e : e = Call("approve", g, "approve")
    OBVIOUS
  <2> PICK d : d = [e EXCEPT !.user = asker[g], !.other = p]
    OBVIOUS
  <2>1. e \in Calls /\ e.op = "approve" /\ e.pc = "approve" /\ e.group = g /\ e.goal = g
    BY CallRecord DEF Ops, Labels
  <2>2. asker[g] \in Users \cup {"none"}
    BY DEF IInv, Typed
  <2>3. d \in Calls /\ d.op = "approve" /\ d.pc = "approve" /\ d.group = g /\ d.goal = g
    BY <2>1, <2>2 DEF Calls
  <2>4. Begin(t, d, {}) /\ kind' = kind
    BY <1>3 DEF Begin
  <2>5. Shaped(d)
    BY <2>3 DEF Shaped, Ops
  <2>6. Knows(d)'
    BY <1>2, <2>3, <2>4 DEF Knows
  <2> QED BY <1>1, <2>3, <2>4, <2>5, <2>6, BeginPreserves
<1> QED BY <1>1, <1>2, <1>3, AlonePreserves

LEMMA DenyStep == ASSUME IInv, NEW t \in Threads, Deny(t) PROVE IInv'
<1>1. Ready(t) /\ troubles' \in 0 .. MaxTroubles
  BY CallFacts DEF Deny
<1>2. PICK g \in Groups \ {Root} : Begin(t, Call("deny", g, "group"), Left(g))
  BY DEF Deny
<1> QED BY <1>1, <1>2, AlonePreserves

\* deleteGroup has listed hs; the others within the group are raced.
LEMMA DeletionPreserves ==
    ASSUME IInv, NEW t \in Threads, Ready(t), NEW g \in Groups, NEW hs \in SUBSET Within(g),
           Begin(t, [Call("delete", g, "next") EXCEPT !.list = hs], Left(g) \ hs),
           troubles' \in 0 .. MaxTroubles
    PROVE  IInv'
<1> PICK e : e = Call("delete", g, "next")
  OBVIOUS
<1> PICK d : d = [e EXCEPT !.list = hs]
  OBVIOUS
<1>1. e \in Calls /\ e.op = "delete" /\ e.pc = "next" /\ e.group = g /\ e.goal = g
  BY CallRecord DEF Ops, Labels
<1>2. Within(g) \subseteq Groups
  BY WithinFacts
<1>3. /\ d \in Calls /\ d.op = "delete" /\ d.pc = "next" /\ d.group = g /\ d.goal = g
      /\ d.list = hs
  BY <1>1, <1>2 DEF Calls
<1>4. Begin(t, d, Left(g) \ hs) /\ kind' = kind /\ Left(g) \ hs \subseteq raced'
  BY DEF Begin
<1>5. Left(g) \ hs \in SUBSET Groups
  BY <1>2 DEF Left
<1>6. Shaped(d)
  BY <1>3 DEF Shaped, Ops
<1>7. NoGroups(Within(g) \ hs)'
  <2>1. \A h \in Within(g) \ hs : h \in raced' \/ kind'[h] = "none"
    BY <1>4 DEF Left
  <2> QED BY <2>1 DEF NoGroups
<1>8. Knows(d)'
  BY <1>3, <1>7 DEF Knows
<1> QED BY <1>3, <1>4, <1>5, <1>6, <1>8, BeginPreserves

LEMMA ListSubgroupsStep == ASSUME IInv, NEW t \in Threads, ListSubgroups(t) PROVE IInv'
<1>1. Ready(t) /\ troubles' \in 0 .. MaxTroubles
  BY CallFacts DEF ListSubgroups
<1>2. PICK g \in Groups :
         \E some \in SUBSET {h \in Within(g) : kind[h] = "request"} :
            LET list == some \cup {h \in Within(g) : kind[h] = "group"}
            IN  Begin(t, [Call("delete", g, "next") EXCEPT !.list = list], Left(g) \ list)
  BY DEF ListSubgroups
<1> PICK some \in SUBSET {h \in Within(g) : kind[h] = "request"} :
       LET list == some \cup {h \in Within(g) : kind[h] = "group"}
       IN  Begin(t, [Call("delete", g, "next") EXCEPT !.list = list], Left(g) \ list)
  BY <1>2
<1> PICK hs : hs = some \cup {h \in Within(g) : kind[h] = "group"}
  OBVIOUS
<1>3. hs \in SUBSET Within(g)
  OBVIOUS
<1>4. Begin(t, [Call("delete", g, "next") EXCEPT !.list = hs], Left(g) \ hs)
  OBVIOUS
<1> QED BY <1>1, <1>3, <1>4, DeletionPreserves

-----------------------------------------------------------------------------
(* Failures. *)

\* Whatever a handler leaves open when it fails, is raced.
LEMMA FailStep == ASSUME IInv, NEW t \in Threads, Fail(t) PROVE IInv'
<1>1. raced \subseteq Groups /\ call[t] \in Calls
  BY CallFacts
<1>2. Open(call[t]) \subseteq Groups
  BY <1>1 DEF Open, Calls
<1>3. raced' = raced \cup Open(call[t])
  BY DEF Fail, Unordered, Open
<1>4. troubles' \in 0 .. MaxTroubles
  BY TroubleFacts DEF Fail
<1>5. End(t) /\ UNCHANGED <<kind, asker, member, calls>>
  BY DEF Fail
<1> QED BY <1>1, <1>2, <1>3, <1>4, <1>5, EndPreserves

LEMMA StatusReadFailsStep == ASSUME IInv, NEW t \in Threads, StatusReadFails(t) PROVE IInv'
<1>1. troubles' \in 0 .. MaxTroubles
  BY TroubleFacts DEF StatusReadFails
<1>2. ASSUME Ready(t), NEW by \in Users, NEW u \in Users, NEW g \in Groups,
             NEW s \in States \ {"NonMember"}, MaySet(t, by, u, g, "NonMember", s)
      PROVE  IInv'
  BY <1>1, <1>2, MaySetPreserves
<1>3. ASSUME Ready(t), NEW g \in Groups \ {Root}, Begin(t, Call("approve", g, "group"), Left(g))
      PROVE  IInv'
  BY <1>1, <1>3, AlonePreserves
<1>4. CASE At(t, "create") /\ Found(t, FALSE) /\ UNCHANGED <<member, calls>>
  BY <1>1, <1>4, FoundPreserves
<1>5. CASE At(t, "admin") /\ End(t) /\ UNCHANGED <<kind, asker, member, calls, raced>>
  <2>1. Open(call[t]) = {} /\ raced \subseteq Groups
    BY <1>5, CallFacts
  <2> QED BY <1>1, <1>5, <2>1, EndPreserves
<1> QED BY <1>2, <1>3, <1>4, <1>5 DEF StatusReadFails

LEMMA ListFailsStep == ASSUME IInv, NEW t \in Threads, ListFails(t) PROVE IInv'
<1>1. troubles' \in 0 .. MaxTroubles
  BY TroubleFacts DEF ListFails
<1>2. ASSUME Ready(t), NEW u \in Users, NEW g \in Groups,
             Begin(t, [Call("remove", g, "others") EXCEPT !.user = u],
                      {h \in Within(g) : member[u][h] # "NonMember"})
      PROVE  IInv'
  <2> PICK left : left = {h \in Within(g) : member[u][h] # "NonMember"}
    OBVIOUS
  <2>1. left \in SUBSET Groups
    BY WithinFacts
  <2> PICK e : e = Call("remove", g, "others")
    OBVIOUS
  <2>2. e \in Calls /\ e.list = {}
    BY CallRecord DEF Ops, Labels
  <2>3. [e EXCEPT !.user = u] = [e EXCEPT !.user = u, !.list = {}]
    BY <2>2 DEF Calls
  <2>4. Begin(t, [Call("remove", g, "others") EXCEPT !.user = u, !.list = {}], left)
    BY <1>2, <2>3
  <2>5. \A h \in Alike[g] \ ({g} \cup {}) :
           h \in left \/ member[u][h] = "NonMember" \/ ({} = {} /\ h \notin Within(g))
    OBVIOUS
  <2> QED BY <1>1, <1>2, <2>1, <2>4, <2>5, RemovalPreserves
<1>3. ASSUME Ready(t), NEW g \in Groups,
             NEW list \in SUBSET {h \in Within(g) : kind[h] = "group"},
             Begin(t, [Call("delete", g, "next") EXCEPT !.list = list], Left(g) \ list)
      PROVE  IInv'
  BY <1>1, <1>3, DeletionPreserves
<1>4. ASSUME At(t, "group"), Goto(t, "members"), UNCHANGED <<kind, asker, member, calls>>,
             raced' = raced \cup {g \in {call[t].group} :
                                     \E u \in Users : member[u][g] # "NonMember"}
      PROVE  IInv'
  <2> PICK c : c = call[t]
    OBVIOUS
  <2> PICK d : d = [c EXCEPT !.pc = "members"]
    OBVIOUS
  <2>1. c \in Calls /\ c.group \in Groups /\ raced \subseteq Groups
    BY CallFacts
  <2>2. call' = [call EXCEPT ![t] = d]
    BY <1>4 DEF Goto
  <2>3. Listed(c, d, c.users) /\ c.users \subseteq Users
    BY <2>1 DEF Listed, Calls
  <2>4. c.group \in raced' \/ \A u \in Users \ c.users : member[u][c.group] = "NonMember"
    BY <1>4
  <2>5. raced \subseteq raced' /\ raced' \subseteq Groups
    BY <1>4, <2>1
  <2> QED BY <1>1, <1>4, <2>2, <2>3, <2>4, <2>5, ToMembers
<1> QED BY <1>2, <1>3, <1>4 DEF ListFails

LEMMA RestartStep == ASSUME IInv, Restart PROVE IInv'
<1>1. /\ call' = [t \in Threads |-> Idle] /\ UNCHANGED <<kind, asker, member, calls>>
      /\ raced' = raced \cup UNION {Open(call[t]) : t \in Threads}
      /\ troubles' \in 0 .. MaxTroubles
  BY TroubleFacts DEF Restart, Unordered, Open
<1>2. \A t \in Threads : Open(call[t]) \subseteq Groups
  BY DEF IInv, Typed, Calls, Open
<1>3. Typed'
  BY <1>1, <1>2, IdleFacts DEF IInv, Typed
<1>4. \A t \in Threads : call'[t] = Idle
  BY <1>1
<1>5. CallsShaped' /\ MeetingsKnown'
  <2>1. CallsShaped'
    BY <1>4, IdleFacts DEF CallsShaped, Shaped
  <2>2. MeetingsKnown'
    BY <1>4, IdleFacts DEF MeetingsKnown, ScopeOfCall
  <2> QED BY <2>1, <2>2
<1>6. CallsKnow'
  BY <1>4, IdleFacts DEF CallsKnow, Knows
<1>7. MembersHaveGroups' /\ GroupsEnclosed'
  BY <1>1 DEF IInv, MembersHaveGroups, GroupsEnclosed
<1>8. MembersNested'
  BY <1>1 DEF IInv, MembersNested
<1> QED BY <1>3, <1>5, <1>6, <1>7, <1>8 DEF IInv

-----------------------------------------------------------------------------
(* The theorems. *)

LEMMA IInvInit == Init => IInv
<1> SUFFICES ASSUME Init PROVE IInv
  OBVIOUS
<1>1. \A t \in Threads : call[t] = Idle
  BY DEF Init
<1>2. Typed
  <2>1. member \in [Users -> [Groups -> States]]
    BY DEF Init, States
  <2>2. kind \in [Groups -> Kinds] /\ asker \in [Groups -> Users \cup {"none"}]
    BY DEF Init, Kinds
  <2>3. call \in [Threads -> Calls]
    BY IdleFacts DEF Init
  <2> QED BY <2>1, <2>2, <2>3, HierarchyAssumption DEF Init, Typed
<1>3. CallsShaped /\ MeetingsKnown
  BY <1>1, IdleFacts DEF CallsShaped, MeetingsKnown
<1>4. CallsKnow
  BY <1>1, IdleFacts DEF CallsKnow, Knows
<1>5. \A g \in Groups \ {Root} : Enclosing(g) \in Groups
  BY EnclosingFacts
<1>6. \A u \in Users, g \in Groups : member[u][g] \in {"NonMember", "Active"}
  BY DEF Init
<1>7. MembersHaveGroups
  BY <1>6 DEF Init, MembersHaveGroups
<1>8. GroupsEnclosed
  <2>1. \A g \in Groups : kind[g] \in {"none", "group"}
    BY DEF Init
  <2> QED BY <1>5, <2>1 DEF Init, GroupsEnclosed
<1>9. MembersNested
  BY DEF Init, MembersNested, Nested
<1> QED BY <1>2, <1>3, <1>4, <1>7, <1>8, <1>9 DEF IInv

LEMMA IInvNext == IInv /\ [Next]_vars => IInv'
<1> SUFFICES ASSUME IInv, [Next]_vars PROVE IInv'
  OBVIOUS
<1>1. ASSUME NEW t \in Threads, Step(t) PROVE IInv'
  BY <1>1, CheckStatusStep, CheckEnclosingStep, WriteStatusStep, ListMembershipsStep,
     RemoveMembershipStep, CreateStep, WriteGroupStep, ApproveStep, WriteApprovalStep,
     SetAdminStep, DenyStep, RenameStep, WriteRequestStep, ListSubgroupsStep,
     NextGroupStep, ListMembersStep, RemoveMemberStep, RemoveRecordStep DEF Step
<1>2. ASSUME NEW t \in Threads, Fail(t) PROVE IInv'
  BY <1>2, FailStep
<1>3. ASSUME NEW t \in Threads,
             StatusReadFails(t) \/ GroupReadFails(t) \/ ApproveFails(t) \/ ListFails(t)
      PROVE  IInv'
  BY <1>3, StatusReadFailsStep, GroupReadFailsStep, ApproveFailsStep, ListFailsStep
<1>4. ASSUME Restart PROVE IInv'
  BY <1>4, RestartStep
<1>5. CASE UNCHANGED vars
  <2>1. Typed' /\ MembersHaveGroups' /\ GroupsEnclosed'
    BY <1>5 DEF IInv, Typed, MembersHaveGroups, GroupsEnclosed
  <2>2. CallsShaped' /\ MeetingsKnown'
    BY <1>5 DEF IInv, CallsShaped, Shaped, MeetingsKnown, ScopeOfCall
  <2>3. CallsKnow'
    BY <1>5 DEF IInv, CallsKnow, Knows, NoGroups
  <2>4. MembersNested'
    BY <1>5 DEF IInv, MembersNested, Open
  <2> QED BY <2>1, <2>2, <2>3, <2>4 DEF IInv
<1> QED BY <1>1, <1>2, <1>3, <1>4, <1>5 DEF Next

\* Every variable keeps its type (UserCommands.cpp, GroupCommands.cpp: the
\* handlers of memberships and of groups).
THEOREM TypeCorrect == Spec => []TypeOK
<1>1. IInv => TypeOK
  <2> SUFFICES ASSUME IInv PROVE TypeOK
    OBVIOUS
  <2>1. \A t \in Threads :
           /\ call[t].group \in Groups /\ call[t].goal \in Groups /\ call[t].other \in Groups
           /\ call[t].list \subseteq Groups /\ call[t].users \subseteq Users
           /\ call[t].user \in Users \cup {"none"} /\ call[t].state \in States
    BY DEF IInv, Typed, Calls
  <2> QED BY <2>1 DEF IInv, Typed, TypeOK, Kinds
<1> QED BY <1>1, IInvInit, IInvNext, PTL DEF Spec

\* A user who has a membership record in a group or in a request has one in the
\* enclosing group, wherever a handler stops, for any nesting of groups, unless
\* the group is raced (UserCommands.cpp:876-880, 1045-1063).
THEOREM MembershipsStayNested == Spec => []NestedMemberships
<1>1. IInv => NestedMemberships
  BY DEF IInv, MembersNested, NestedMemberships, Nested, Unordered, Open
<1> QED BY <1>1, IInvInit, IInvNext, PTL DEF Spec

\* A member is a member of a group or of a request, whatever handlers meet
\* elsewhere, wherever they stop and whatever write of theirs fails
\* (PersistentStore.cpp:1500-1504, GroupCommands.cpp:647-712, 918-937).
THEOREM MembersStayInGroups == Spec => []MembersHaveGroups
<1>1. IInv => MembersHaveGroups
  BY DEF IInv
<1> QED BY <1>1, IInvInit, IInvNext, PTL DEF Spec

\* A group made under the parent in its name is within a group or a request,
\* however deep the nesting and wherever the deletion of many stops
\* (GroupCommands.cpp:692-712).
THEOREM GroupsStayEnclosed == Spec => []GroupsEnclosed
<1>1. IInv => GroupsEnclosed
  BY DEF IInv
<1> QED BY <1>1, IInvInit, IInvNext, PTL DEF Spec
=============================================================================
