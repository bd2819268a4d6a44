-------------------------- MODULE PrIntegrationProofs --------------------------
(***************************************************************************)
(* Proofs about PrIntegration, for any reviewers, checks, rulesets and     *)
(* number of changes on GitHub: nothing is merged after the head or the    *)
(* base moved, no stack is reported ready whose parent moved, and what is  *)
(* merged has, for its own head, the approvals and the checks that every   *)
(* ruleset read asks for.                                                  *)
(*                                                                         *)
(* The head is guarded by GitHub when the request is made, so it is enough *)
(* that a head which moved never comes back (HeadSeen).  The base is       *)
(* guarded by the tool's last reading, so a base which moved must not come *)
(* back before it (BaseSeen), and what moves after it is not counted.      *)
(***************************************************************************)
EXTENDS PrIntegration, FiniteSetTheorems, TLAPS

\* A record with the fields of a pull request.
IsPR(r) ==
  /\ r = [f \in {"flags", "head", "base", "stack", "has"} |-> r[f]]
  /\ r.head \in Nat /\ r.base \in Refs

Types ==
  /\ prs = [p \in {"child", "parent"} |-> prs[p]]
  /\ IsPR(prs["child"]) /\ IsPR(prs["parent"])
  /\ main \in Nat /\ gone \subseteq {"feature"}
  /\ gone # {} => "CLOSED" \in prs["parent"].flags
  /\ moved \subseteq {"head", "base"}

\* The head never comes back to what the user expects.
HeadSeen ==
  args.command = "merge" =>
    /\ args.head \in Nat /\ prs["child"].head >= args.head
    /\ "head" \in moved => prs["child"].head > args.head

\* Nor does the base: a branch only advances, and one that is gone stays so.
BaseSeen ==
  args.command = "merge" =>
    \/ /\ args.base = "main" /\ args.sha.ref = "main"
       /\ args.sha.n \in Nat /\ main >= args.sha.n
       /\ "base" \in moved => main > args.sha.n
    \/ /\ args.base = "feature" /\ args.sha.ref = "feature"
       /\ args.sha.n \in Nat /\ prs["parent"].head >= args.sha.n
       /\ "base" \in moved => gone # {} \/ prs["parent"].head > args.sha.n
    \/ /\ args.base = "feature" /\ gone # {}
       /\ "base" \notin moved

Place ==
  /\ pc = "start" <=> args.command = "none"
  /\ pc = "start" => /\ snap = [pull |-> Unread, parent |-> Unread]
                     /\ role = "pull" /\ verdict = "none"
  /\ args.command = "none" => moved = {}
  /\ pc \in {"final", "put"} => args.command = "merge"
  /\ pc = "put" => "base" \notin moved
  /\ merged # NotMerged => pc = "done" /\ moved = {}

\* A report on a stack: since the child was read, its base has moved just when
\* it is gone or further on, which the parent's reading shows.
Read(s) ==
  DOMAIN s = {"pr", "flags", "base", "baseOid", "mergeBase", "stack", "head", "rules",
              "headRef", "headOid", "reviews", "runs", "decision"}
Fresh ==
  LET s == snap["pull"]
  IN  /\ s = Unread \/ (s.pr = "child" /\ Read(s))
      /\ s = Unread => moved = {} /\ snap["parent"] = Unread
      /\ s.pr = "child" /\ s.base = "feature" /\ snap["parent"] = Unread =>
           /\ s.baseOid.ref = "feature" /\ s.baseOid.n \in Nat
           /\ prs["parent"].head >= s.baseOid.n
           /\ moved # {} => gone # {} \/ prs["parent"].head > s.baseOid.n
Parented ==
  LET s == snap["pull"]  p == snap["parent"]
  IN  p = Unread \/ /\ p.pr = "parent" /\ p.headRef = "feature" /\ Read(p)
                    /\ s.base = "feature" /\ moved # {} /\ s.baseOid = p.headOid =>
                         "CLOSED" \in p.flags
ParentSeen ==
  args.command = "report" =>
    /\ snap = [r \in {"pull", "parent"} |-> snap[r]] /\ role \in {"pull", "parent"}
    /\ pc = "done" \/ (queue = <<"child">> /\ verdict = "none")
    /\ pc = "query" => snap["parent"] = Unread
    /\ pc = "query" /\ role = "pull" => snap["pull"] = Unread
    /\ role = "parent" => snap["pull"] # Unread
    /\ pc \in {"rulesets", "ruleset", "compare"} => snap[role] # Unread
    /\ role = "pull" /\ pc # "done" => snap["parent"] = Unread
    /\ pc = "done" \/ pc = "query" \/ pc = "rulesets" \/ pc = "ruleset" \/ pc = "compare"
    /\ Fresh /\ Parented
    /\ verdict = "READY" /\ snap["pull"].stack # NoStack => moved = {}

IInv == Types /\ HeadSeen /\ BaseSeen /\ Place /\ ParentSeen

-----------------------------------------------------------------------------
(* What others do. *)

\* What is counted as moved, while the tool watches.
LEMMA MovedCounts ==
  ASSUME Types, Place, pc # "done", UNCHANGED tool, NEW refs, Moved(refs)
  PROVE  /\ Place' /\ moved' \subseteq {"head", "base"}
         /\ args.command = "merge" =>
              /\ "head" \in moved' => "head" \in moved \/ "topic" \in refs
              /\ "base" \in moved' => "base" \in moved \/ args.base \in refs
         /\ args.command = "report" =>
              \/ moved' = moved
              \/ "feature" \in refs /\ snap["pull"] # Unread /\ snap["parent"] = Unread
<1> DEFINE base == IF args.command = "merge" THEN args.base ELSE "feature"
<1>1. moved' = moved \cup {p \in {"head", "base"} :
                 Watching(p) /\ (IF p = "head" THEN "topic" ELSE base) \in refs}
  BY DEF Moved
<1>2. UNCHANGED <<args, pc, merged, snap, role, verdict>>
  BY DEF tool
<1>3. moved' \subseteq {"head", "base"}
  BY <1>1 DEF Types
<1>4. args.command = "merge" =>
        /\ "head" \in moved' => "head" \in moved \/ "topic" \in refs
        /\ "base" \in moved' => "base" \in moved \/ args.base \in refs
  BY <1>1
<1>5. args.command = "none" => ~Watching("head") /\ ~Watching("base")
  BY DEF Watching
<1>6. args.command = "none" => moved' = {}
  BY <1>1, <1>5 DEF Place
<1>7. pc = "put" => "base" \notin moved'
  <2> SUFFICES ASSUME pc = "put" PROVE "base" \notin moved'
    OBVIOUS
  <2>1. args.command = "merge" /\ "base" \notin moved
    BY DEF Place
  <2>2. ~Watching("base")
    BY <2>1 DEF Watching
  <2> QED BY <1>1, <2>1, <2>2
<1>8. Place'
  BY <1>2, <1>6, <1>7 DEF Place
<1>9. ASSUME args.command = "report", moved' # moved
      PROVE  "feature" \in refs /\ snap["pull"] # Unread /\ snap["parent"] = Unread
  <2>1. Watching("head") \/ (Watching("base") /\ "feature" \in refs)
    BY <1>1, <1>9
  <2>2. ~Watching("head")
    BY <1>9 DEF Watching
  <2>3. snap["pull"].stack # NoStack /\ snap["parent"] = Unread
    BY <1>9, <2>1, <2>2 DEF Watching
  <2> QED BY <2>1, <2>2, <2>3 DEF Unread
<1> QED BY <1>3, <1>4, <1>8, <1>9

\* A change keeps the invariant when what it moves goes on, and never back.
LEMMA ChangeKeeps ==
  ASSUME IInv, pc # "done", UNCHANGED tool, NEW refs, Moved(refs), Types',
         prs'["child"].head >= prs["child"].head,
         prs'["parent"].head >= prs["parent"].head,
         main' >= main, gone \subseteq gone',
         "topic" \in refs => prs'["child"].head > prs["child"].head,
         "main" \in refs => main' > main,
         "feature" \in refs =>
           gone = {} /\ (gone' # {} \/ prs'["parent"].head > prs["parent"].head)
  PROVE  IInv'
<1>1. UNCHANGED <<args, pc, merged>>
  BY DEF tool
<1>2. /\ Place'
      /\ args.command = "merge" =>
           /\ "head" \in moved' => "head" \in moved \/ "topic" \in refs
           /\ "base" \in moved' => "base" \in moved \/ args.base \in refs
  BY MovedCounts DEF IInv
<1>3. /\ prs["child"].head \in Nat /\ prs'["child"].head \in Nat
      /\ prs["parent"].head \in Nat /\ prs'["parent"].head \in Nat
      /\ main \in Nat /\ main' \in Nat
  BY DEF IInv, Types, IsPR
<1>4. HeadSeen'
  BY <1>1, <1>2, <1>3 DEF HeadSeen, IInv
<1>5. BaseSeen'
  <2> SUFFICES ASSUME args.command = "merge" PROVE BaseSeen'
    BY <1>1 DEF BaseSeen
  <2>1. CASE /\ args.base = "main" /\ args.sha.ref = "main"
             /\ args.sha.n \in Nat /\ main >= args.sha.n
             /\ "base" \in moved => main > args.sha.n
    BY <1>1, <1>2, <1>3, <2>1 DEF BaseSeen
  <2>2. CASE /\ args.base = "feature" /\ args.sha.ref = "feature"
             /\ args.sha.n \in Nat /\ prs["parent"].head >= args.sha.n
             /\ "base" \in moved => gone # {} \/ prs["parent"].head > args.sha.n
    BY <1>1, <1>2, <1>3, <2>2 DEF BaseSeen
  <2>3. CASE args.base = "feature" /\ gone # {} /\ "base" \notin moved
    BY <1>1, <1>2, <2>3 DEF BaseSeen
  <2> QED BY <2>1, <2>2, <2>3 DEF IInv, BaseSeen
<1>6. ParentSeen'
  <2> SUFFICES ASSUME args.command = "report" PROVE ParentSeen'
    BY <1>1 DEF ParentSeen
  <2>1. UNCHANGED <<snap, role, queue, pc, verdict>> /\ pc # "done"
    BY DEF tool
  <2>2. \/ moved' = moved
        \/ "feature" \in refs /\ snap["pull"] # Unread /\ snap["parent"] = Unread
    BY MovedCounts DEF IInv
  <2>3. Fresh'
    BY <1>3, <2>1, <2>2 DEF IInv, ParentSeen, Fresh
  <2>4. Parented'
    BY <2>1, <2>2 DEF IInv, ParentSeen, Parented
  <2>5. verdict # "READY"
    BY <2>1 DEF IInv, ParentSeen
  <2> QED BY <1>1, <2>1, <2>3, <2>4, <2>5 DEF IInv, ParentSeen
<1> QED BY <1>2, <1>4, <1>5, <1>6 DEF IInv

\* Edits of a pull request that leave every head where it is.
LEMMA EditKeeps ==
  ASSUME IInv, pc # "done", UNCHANGED <<tool, moved, main, gone>>, Types',
         prs'["child"].head = prs["child"].head,
         prs'["parent"].head = prs["parent"].head
  PROVE  IInv'
<1>1. Moved({})
  BY DEF Moved
<1>2. /\ prs["child"].head >= prs["child"].head
      /\ prs["parent"].head >= prs["parent"].head /\ main >= main
  BY DEF IInv, Types, IsPR
<1> QED BY <1>1, <1>2, ChangeKeeps

\* What an edit of one field makes of a pull request.
LEMMA EditedPR ==
  ASSUME NEW r, IsPR(r)
  PROVE  /\ \A x : IsPR([r EXCEPT !.flags = x]) /\ [r EXCEPT !.flags = x].head = r.head
                   /\ [r EXCEPT !.flags = x].flags = x
         /\ \A x \in Refs : IsPR([r EXCEPT !.base = x]) /\ [r EXCEPT !.base = x].head = r.head
                   /\ [r EXCEPT !.base = x].flags = r.flags
         /\ \A x : IsPR([r EXCEPT !.stack = x]) /\ [r EXCEPT !.stack = x].head = r.head
                   /\ [r EXCEPT !.stack = x].flags = r.flags
         /\ \A x : LET q == [r EXCEPT !.head = @ + 1, !.has = x]
                   IN  IsPR(q) /\ q.head = r.head + 1 /\ q.flags = r.flags
<1> DEFINE Fields == {"flags", "head", "base", "stack", "has"}
<1>1. r = [f \in Fields |-> r[f]] /\ r.head \in Nat /\ r.base \in Refs
  BY DEF IsPR
<1>2. \A x : LET q == [r EXCEPT !.flags = x]
            IN  /\ q = [f \in Fields |-> q[f]] /\ q.flags = x
                /\ q.head = r.head /\ q.base = r.base
  BY <1>1
<1>3. \A x : LET q == [r EXCEPT !.base = x]
            IN  /\ q = [f \in Fields |-> q[f]] /\ q.base = x
                /\ q.head = r.head /\ q.flags = r.flags
  BY <1>1
<1>4. \A x : LET q == [r EXCEPT !.stack = x]
            IN  /\ q = [f \in Fields |-> q[f]] /\ q.flags = r.flags
                /\ q.head = r.head /\ q.base = r.base
  BY <1>1
<1>5. \A x : LET q == [r EXCEPT !.head = @ + 1, !.has = x]
            IN  /\ q = [f \in Fields |-> q[f]] /\ q.flags = r.flags
                /\ q.head = r.head + 1 /\ q.base = r.base
  BY <1>1
<1>6. r.head + 1 \in Nat
  BY <1>1
<1> QED BY <1>1, <1>2, <1>3, <1>4, <1>5, <1>6, Zenon DEF IsPR

LEMMA PushKeeps ==
  ASSUME IInv, NEW p \in {"child", "parent"}, Push(p)
  PROVE  IInv'
<1> DEFINE refs == {IF p = "child" THEN "topic" ELSE "feature"}
<1>1. PICK has : prs' = [prs EXCEPT ![p].head = @ + 1, ![p].has = has]
  BY DEF Push
<1>2. /\ pc # "done" /\ UNCHANGED tool /\ Moved(refs) /\ UNCHANGED <<main, gone>>
      /\ p = "parent" => gone = {}
  BY DEF Push, Change, IInv, Types
<1>3. IsPR(prs[p]) /\ prs[p].head \in Nat
  BY DEF IInv, Types, IsPR
<1>4. prs' = [prs EXCEPT ![p] = [prs[p] EXCEPT !.head = @ + 1, !.has = has]]
  BY <1>1 DEF IInv, Types
<1> DEFINE q == [prs[p] EXCEPT !.head = @ + 1, !.has = has]
<1>5. IsPR(q) /\ q.head = prs[p].head + 1 /\ q.flags = prs[p].flags
  BY <1>3, EditedPR
<1> HIDE DEF q
<1>6. /\ prs' = [r \in {"child", "parent"} |-> prs'[r]]
      /\ \A r \in {"child", "parent"} : prs'[r] = IF r = p THEN q ELSE prs[r]
  BY <1>4 DEF IInv, Types, q
<1>7. moved' \subseteq {"head", "base"}
  BY <1>2, MovedCounts DEF IInv
<1>8. Types'
  BY <1>2, <1>5, <1>6, <1>7 DEF IInv, Types
<1>9. /\ prs'["child"].head >= prs["child"].head
      /\ prs'["parent"].head >= prs["parent"].head
      /\ main >= main
      /\ "topic" \in refs => prs'["child"].head > prs["child"].head
      /\ "feature" \in refs => gone = {} /\ prs'["parent"].head > prs["parent"].head
  BY <1>2, <1>3, <1>5, <1>6 DEF IInv, Types, IsPR
<1>10. "main" \notin refs
  OBVIOUS
<1> HIDE DEF refs
<1> QED BY <1>2, <1>8, <1>9, <1>10, ChangeKeeps

LEMMA AdvanceMainKeeps ==
  ASSUME IInv, AdvanceMain
  PROVE  IInv'
<1>1. /\ pc # "done" /\ UNCHANGED tool /\ Moved({"main"})
      /\ main' = main + 1 /\ UNCHANGED <<prs, gone>>
  BY DEF AdvanceMain, Change
<1>2. moved' \subseteq {"head", "base"}
  BY <1>1, MovedCounts DEF IInv
<1>3. Types'
  BY <1>1, <1>2 DEF IInv, Types
<1>4. /\ prs["child"].head >= prs["child"].head /\ prs["parent"].head >= prs["parent"].head
      /\ main' > main /\ main' >= main
  BY <1>1 DEF IInv, Types, IsPR
<1> QED BY <1>1, <1>3, <1>4, ChangeKeeps

LEMMA MergeParentKeeps ==
  ASSUME IInv, MergeParent
  PROVE  IInv'
<1>1. PICK deleted \in BOOLEAN :
        /\ gone' = gone \cup (IF deleted THEN {"feature"} ELSE {})
        /\ prs' = [prs EXCEPT !["parent"].flags = {"CLOSED"},
                              !["child"].base = IF deleted THEN "main" ELSE @]
        /\ Moved({"main"} \cup (IF deleted THEN {"feature"} ELSE {}))
  BY DEF MergeParent
<1> DEFINE refs == {"main"} \cup (IF deleted THEN {"feature"} ELSE {})
           base == IF deleted THEN "main" ELSE prs["child"].base
           child == [prs["child"] EXCEPT !.base = base]
           parent == [prs["parent"] EXCEPT !.flags = {"CLOSED"}]
<1>2. /\ pc # "done" /\ UNCHANGED tool /\ Moved(refs) /\ main' = main + 1
      /\ "CLOSED" \notin prs["parent"].flags
  BY <1>1 DEF MergeParent, Change
<1>3. base \in Refs
  BY DEF IInv, Types, IsPR, Refs
<1>4. /\ IsPR(child) /\ child.head = prs["child"].head
      /\ IsPR(parent) /\ parent.head = prs["parent"].head /\ parent.flags = {"CLOSED"}
  BY <1>3, EditedPR DEF IInv, Types
<1>5. prs' = [p \in {"child", "parent"} |-> prs'[p]]
      /\ prs'["child"] = child /\ prs'["parent"] = parent
  BY <1>1 DEF IInv, Types
<1> HIDE DEF child, parent
<1>6. moved' \subseteq {"head", "base"}
  BY <1>2, MovedCounts DEF IInv
<1>7. Types'
  BY <1>1, <1>2, <1>4, <1>5, <1>6 DEF IInv, Types
<1>8. /\ prs'["child"].head >= prs["child"].head
      /\ prs'["parent"].head >= prs["parent"].head /\ main' > main /\ main' >= main
      /\ gone \subseteq gone'
  BY <1>1, <1>2, <1>4, <1>5 DEF IInv, Types, IsPR
<1>9. "topic" \notin refs /\ ("feature" \in refs => gone = {} /\ gone' # {})
  BY <1>1, <1>2 DEF IInv, Types
<1> HIDE DEF refs
<1> QED BY <1>2, <1>7, <1>8, <1>9, ChangeKeeps

LEMMA DeleteFeatureKeeps ==
  ASSUME IInv, DeleteFeature
  PROVE  IInv'
<1> DEFINE refs == {"feature"}
           child == IF prs["child"].base = "feature"
                    THEN [prs["child"] EXCEPT !.flags = @ \cup {"CLOSED"}]
                    ELSE prs["child"]
           parent == [prs["parent"] EXCEPT !.flags = @ \cup {"CLOSED"}]
<1>1. /\ pc # "done" /\ UNCHANGED <<tool, main>> /\ Moved(refs)
      /\ gone = {} /\ gone' = {"feature"}
  BY DEF DeleteFeature, Change, IInv, Types
<1>2. /\ IsPR(child) /\ child.head = prs["child"].head
      /\ IsPR(parent) /\ parent.head = prs["parent"].head /\ "CLOSED" \in parent.flags
  <2>1. IsPR(prs["child"]) /\ IsPR(prs["parent"])
    BY DEF IInv, Types
  <2>2. IsPR(child) /\ child.head = prs["child"].head
    <3> DEFINE closed == [prs["child"] EXCEPT !.flags = @ \cup {"CLOSED"}]
    <3>1. IsPR(closed) /\ closed.head = prs["child"].head
      BY <2>1, EditedPR
    <3> QED BY <2>1, <3>1
  <2>3. IsPR(parent) /\ parent.head = prs["parent"].head
        /\ parent.flags = prs["parent"].flags \cup {"CLOSED"}
    BY <2>1, EditedPR
  <2> HIDE DEF child, parent
  <2> QED BY <2>2, <2>3
<1>3. /\ prs' = [p \in {"child", "parent"} |-> prs'[p]]
      /\ prs'["child"] = child /\ prs'["parent"] = parent
  BY DEF DeleteFeature, IInv, Types
<1> HIDE DEF child, parent
<1>4. moved' \subseteq {"head", "base"}
  BY <1>1, MovedCounts DEF IInv
<1>5. Types'
  BY <1>1, <1>2, <1>3, <1>4 DEF IInv, Types
<1>6. /\ prs'["child"].head >= prs["child"].head
      /\ prs'["parent"].head >= prs["parent"].head /\ main' >= main
      /\ gone \subseteq gone' /\ gone' # {}
  BY <1>1, <1>2, <1>3 DEF IInv, Types, IsPR
<1>7. "topic" \notin refs /\ "main" \notin refs
  OBVIOUS
<1> HIDE DEF refs
<1> QED BY <1>1, <1>5, <1>6, <1>7, ChangeKeeps

LEMMA ToggleKeeps ==
  ASSUME IInv, NEW p \in {"child", "parent"}, NEW flag \in Flags, Toggle(p, flag)
  PROVE  IInv'
<1> DEFINE q == [prs[p] EXCEPT !.flags = (@ \ {flag}) \cup ({flag} \ @)]
<1>1. /\ pc # "done" /\ UNCHANGED <<tool, moved, main, gone>>
      /\ p = "parent" => gone = {}
  BY DEF Toggle, Change
<1>2. prs' = [prs EXCEPT ![p] = q]
  BY DEF Toggle, IInv, Types
<1>3. IsPR(q) /\ q.head = prs[p].head
  BY EditedPR DEF IInv, Types
<1> HIDE DEF q
<1>4. /\ prs' = [r \in {"child", "parent"} |-> prs'[r]]
      /\ \A r \in {"child", "parent"} : prs'[r] = IF r = p THEN q ELSE prs[r]
  BY <1>2 DEF IInv, Types
<1>5. Types'
  BY <1>1, <1>3, <1>4 DEF IInv, Types
<1> QED BY <1>1, <1>3, <1>4, <1>5, EditKeeps

LEMMA RetargetKeeps ==
  ASSUME IInv, Retarget \/ Restack
  PROVE  IInv'
<1>1. /\ pc # "done" /\ UNCHANGED <<tool, moved, main, gone>>
  BY DEF Retarget, Restack, Change
<1>2. PICK q : /\ prs' = [prs EXCEPT !["child"] = q]
               /\ IsPR(q) /\ q.head = prs["child"].head
  <2>1. CASE Retarget
    <3>1. PICK base \in Refs : prs' = [prs EXCEPT !["child"].base = base]
      BY <2>1 DEF Retarget
    <3>2. prs' = [prs EXCEPT !["child"] = [prs["child"] EXCEPT !.base = base]]
      BY <3>1 DEF IInv, Types
    <3> DEFINE q == [prs["child"] EXCEPT !.base = base]
    <3>3. IsPR(q) /\ q.head = prs["child"].head
      BY <3>1, EditedPR DEF IInv, Types
    <3> HIDE DEF q
    <3>4. prs' = [prs EXCEPT !["child"] = q]
      BY <3>2 DEF q
    <3> QED BY <3>3, <3>4
  <2>2. CASE Restack
    <3>1. PICK stack : prs' = [prs EXCEPT !["child"].stack = stack]
      BY <2>2 DEF Restack
    <3>2. prs' = [prs EXCEPT !["child"] = [prs["child"] EXCEPT !.stack = stack]]
      BY <3>1 DEF IInv, Types
    <3> DEFINE q == [prs["child"] EXCEPT !.stack = stack]
    <3>3. IsPR(q) /\ q.head = prs["child"].head
      BY EditedPR DEF IInv, Types
    <3> HIDE DEF q
    <3>4. prs' = [prs EXCEPT !["child"] = q]
      BY <3>2 DEF q
    <3> QED BY <3>3, <3>4
  <2> QED BY <2>1, <2>2
<1>3. /\ prs' = [r \in {"child", "parent"} |-> prs'[r]]
      /\ prs'["child"] = q /\ prs'["parent"] = prs["parent"]
  BY <1>2 DEF IInv, Types
<1>4. Types'
  BY <1>1, <1>2, <1>3 DEF IInv, Types
<1> QED BY <1>1, <1>2, <1>3, <1>4, EditKeeps

LEMMA OthersKeep == IInv /\ Others => IInv'
<1> SUFFICES ASSUME IInv, Others PROVE IInv'
  OBVIOUS
<1>1. CASE \E p \in {"child", "parent"} : Push(p)
  BY <1>1, PushKeeps
<1>2. CASE AdvanceMain \/ MergeParent \/ DeleteFeature
  BY <1>2, AdvanceMainKeeps, MergeParentKeeps, DeleteFeatureKeeps
<1>3. CASE \E p \in {"child", "parent"}, flag \in Flags : Toggle(p, flag)
  BY <1>3, ToggleKeeps
<1>4. CASE Retarget \/ Restack
  BY <1>4, RetargetKeeps
<1>5. CASE \/ Dismiss
           \/ \E a \in Authors, o \in {"APPROVED", "CHANGES_REQUESTED"}, push \in BOOLEAN :
                Review(a, o, push)
           \/ \E c \in Contexts, success \in BOOLEAN : CheckRun(c, success)
           \/ \E i \in RulesetIds, r \in Rulings : Rule(i, r)
  <2>1. pc # "done" /\ UNCHANGED <<tool, moved, prs, main, gone>>
    BY <1>5 DEF Dismiss, Review, CheckRun, Rule, Change
  <2>2. Types'
    BY <2>1 DEF IInv, Types
  <2> QED BY <2>1, <2>2, EditKeeps
<1> QED BY <1>1, <1>2, <1>3, <1>4, <1>5 DEF Others

-----------------------------------------------------------------------------
(* The tool. *)

\* A step of the tool touches nothing of GitHub; but for Start, it keeps what
\* the user said.
LEMMA ToolKeeps ==
  ASSUME IInv, Keep, UNCHANGED args, Place', ParentSeen'
  PROVE  IInv'
<1>1. UNCHANGED <<prs, main, gone, moved, args>>
  BY DEF Keep, github
<1>2. Types' /\ HeadSeen'
  BY <1>1 DEF IInv, Types, HeadSeen
<1>3. BaseSeen'
  BY <1>1 DEF IInv, BaseSeen
<1> QED BY <1>2, <1>3 DEF IInv

LEMMA StartKeeps == ASSUME IInv, Start PROVE IInv'
<1>1. /\ UNCHANGED <<prs, main, gone, moved, merged>> /\ moved = {}
      /\ pc' \in {"list", "query"} /\ args'.command # "none" /\ pc = "start"
  BY DEF Start, Keep, github, IInv, Place
<1>2. args'.head = prs["child"].head /\ args'.base = prs["child"].base
      /\ args'.sha = Tip(prs["child"].base)
  BY DEF Start
<1>3. Types'
  BY <1>1 DEF IInv, Types
<1>4. Place'
  BY <1>1 DEF IInv, Place
<1>5. HeadSeen'
  BY <1>1, <1>2 DEF HeadSeen, IInv, Types, IsPR
<1>6. BaseSeen'
  <2>1. /\ prs["parent"].head \in Nat /\ main \in Nat
        /\ prs["child"].base \in {"main", "feature"} /\ gone \subseteq {"feature"}
    BY DEF IInv, Types, IsPR, Refs
  <2>2. CASE args'.base = "main"
    <3>1. "main" \notin gone
      BY <2>1
    <3>2. args'.sha = Commit("main", main)
      BY <1>2, <2>2, <3>1 DEF Tip
    <3>3. args'.sha.ref = "main" /\ args'.sha.n = main
      BY <3>2 DEF Commit
    <3> QED BY <1>1, <2>1, <2>2, <3>3 DEF BaseSeen
  <2>3. CASE args'.base = "feature" /\ gone = {}
    <3>1. args'.sha = Commit("feature", prs["parent"].head)
      BY <1>2, <2>3 DEF Tip
    <3>2. args'.sha.ref = "feature" /\ args'.sha.n = prs["parent"].head
      BY <3>1 DEF Commit
    <3> QED BY <1>1, <2>1, <2>3, <3>2 DEF BaseSeen
  <2>4. CASE args'.base = "feature" /\ gone # {}
    BY <1>1, <2>4 DEF BaseSeen
  <2> QED BY <1>2, <2>1, <2>2, <2>3, <2>4
<1>7. ParentSeen'
  <2>1. /\ snap = [pull |-> Unread, parent |-> Unread] /\ role = "pull" /\ verdict = "none"
        /\ queue' = <<"child">> /\ UNCHANGED <<snap, role, verdict>>
    BY <1>1 DEF Start, IInv, Place
  <2>2. Unread.pr = "none" /\ Unread.stack = NoStack
    BY DEF Unread
  <2>3. /\ snap' = [r \in {"pull", "parent"} |-> snap'[r]] /\ moved' = {}
        /\ snap'["pull"] = Unread /\ snap'["parent"] = Unread
    BY <1>1, <2>1
  <2>4. Fresh' /\ Parented'
    BY <1>1, <2>2, <2>3 DEF Fresh, Parented
  <2>5. args'.command = "report" => pc' = "query"
    BY DEF Start
  <2> QED BY <1>1, <2>1, <2>3, <2>4, <2>5 DEF ParentSeen
<1> QED BY <1>3, <1>4, <1>5, <1>6, <1>7 DEF IInv

\* The last reading passes only a base that never moved.
LEMMA FinalKeeps == ASSUME IInv, Final PROVE IInv'
<1>1. /\ pc = "final" /\ args.command = "merge" /\ merged = NotMerged
      /\ Keep /\ UNCHANGED <<args, merged>>
  BY DEF Final, Error, End, IInv, Place
<1>2. UNCHANGED moved
  BY <1>1 DEF Keep
<1>3. CASE Error
  <2>1. pc' = "done"
    BY <1>3 DEF Error, End
  <2>2. Place'
    BY <1>1, <1>2, <2>1 DEF Place
  <2> QED BY <1>1, <2>2, ToolKeeps DEF ParentSeen
<1>4. CASE Tip(args.base) = args.sha /\ pc' = "put"
  <2>1. "base" \notin moved
    <3> SUFFICES ASSUME "base" \in moved PROVE FALSE
      OBVIOUS
    <3>1. CASE args.base = "main" /\ args.sha.n \in Nat /\ main > args.sha.n
      <4>1. "main" \notin gone /\ main \in Nat
        BY DEF IInv, Types
      <4>2. Tip("main") = Commit("main", main)
        BY <4>1 DEF Tip
      <4>3. args.sha.n = main
        BY <1>4, <3>1, <4>2 DEF Commit
      <4> QED BY <3>1, <4>1, <4>3
    <3>2. CASE /\ args.base = "feature" /\ args.sha.n \in Nat /\ gone = {}
               /\ prs["parent"].head > args.sha.n
      <4>1. Tip("feature") = Commit("feature", prs["parent"].head)
        BY <3>2 DEF Tip
      <4>2. args.sha.n = prs["parent"].head /\ prs["parent"].head \in Nat
        BY <1>4, <3>2, <4>1 DEF Commit, IInv, Types, IsPR
      <4> QED BY <3>2, <4>2
    <3>3. CASE args.base = "feature" /\ args.sha.ref = "feature" /\ gone # {}
      <4>1. "feature" \in gone
        BY <3>3 DEF IInv, Types
      <4>2. Tip("feature") = NoCommit
        BY <4>1 DEF Tip
      <4>3. args.sha.ref = "none"
        BY <1>4, <3>3, <4>2 DEF NoCommit, Commit
      <4> QED BY <3>3, <4>3
    <3> QED BY <1>1, <3>1, <3>2, <3>3 DEF IInv, BaseSeen
  <2>2. Place'
    BY <1>1, <1>2, <1>4, <2>1 DEF Place
  <2> QED BY <1>1, <2>2, ToolKeeps DEF ParentSeen
<1> QED BY <1>3, <1>4 DEF Final

\* GitHub merges only the head that is expected, which then never moved.
LEMMA PutKeeps == ASSUME IInv, Put PROVE IInv'
<1>1. /\ pc = "put" /\ args.command = "merge" /\ "base" \notin moved
      /\ pc' = "done" /\ Keep /\ UNCHANGED args
  BY DEF Put, Error, End, IInv, Place
<1>2. merged' # NotMerged => "head" \notin moved
  <2>1. CASE Error
    BY <1>1, <2>1 DEF Error, IInv, Place
  <2>2. CASE prs["child"].head = args.head
    <3>1. args.head \in Nat /\ ("head" \in moved => prs["child"].head > args.head)
      BY <1>1 DEF IInv, HeadSeen
    <3> QED BY <2>2, <3>1
  <2> QED BY <2>1, <2>2 DEF Put
<1>3. UNCHANGED moved /\ moved \subseteq {"head", "base"}
  BY <1>1 DEF Keep, IInv, Types
<1>4. Place'
  BY <1>1, <1>2, <1>3 DEF Place
<1> QED BY <1>1, <1>4, ToolKeeps DEF ParentSeen

\* What a query reads, as far as the theorems need it.
QueryRead(r, p) ==
  /\ Read(r) /\ r.pr = p /\ r.flags = prs[p].flags /\ r.base = prs[p].base
  /\ r.head = prs[p].head /\ r.rules = {}
  /\ r.baseOid = Tip(prs[p].base) /\ Tip(prs[p].base) # NoCommit
  /\ r.headRef = (IF p = "child" THEN "topic" ELSE "feature")
  /\ p = "parent" => r.headOid = Commit("feature", prs["parent"].head)
  /\ p = "child" => r.reviews = reviews /\ r.runs = {x \in runs : x.head = prs[p].head}

LEMMA QueryReads ==
  ASSUME Query, ~Error
  PROVE  \E r : /\ snap' = [snap EXCEPT ![role] = r]
                /\ QueryRead(r, IF role = "pull" THEN queue[1] ELSE "parent")
<1> DEFINE p == IF role = "pull" THEN queue[1] ELSE "parent"
           pr == prs[p]
           child == p = "child"
           enforced == {r \in {rulesets[i] : i \in RulesetIds} : Applies(r, pr.base)}
           r ==
             [pr |-> p, flags |-> pr.flags, base |-> pr.base, baseOid |-> Tip(pr.base),
              mergeBase |-> Commit(pr.base, pr.has[pr.base]), stack |-> pr.stack,
              head |-> pr.head, rules |-> {},
              headRef |-> IF child THEN "topic" ELSE "feature",
              headOid |-> Commit(IF child THEN "topic" ELSE "feature", pr.head),
              reviews |-> IF child THEN reviews ELSE {},
              runs |-> IF child THEN {x \in runs : x.head = pr.head} ELSE {},
              decision |-> IF child
                           THEN Decision(Max({0} \cup {x.approvals : x \in enforced}))
                           ELSE "none"]
<1>1. Tip(prs[p].base) # NoCommit /\ snap' = [snap EXCEPT ![role] = r]
  BY Zenon DEF Query
<1>2. QueryRead(r, p)
  <2> HIDE DEF p
  <2> QED BY <1>1 DEF QueryRead, Read
<1> HIDE DEF p, r
<1>3. \E x : snap' = [snap EXCEPT ![role] = x] /\ QueryRead(x, p)
  BY <1>1, <1>2
<1> QED BY <1>3 DEF p

\* A query keeps ParentSeen.
LEMMA QueryKeepsParent ==
  ASSUME IInv, args.command = "report", Query, ~Error
  PROVE  ParentSeen'
<1> DEFINE p == IF role = "pull" THEN "child" ELSE "parent"
<1>0. queue = <<"child">> /\ queue[1] = "child"
  BY DEF Query, IInv, ParentSeen
<1>1. PICK r : snap' = [snap EXCEPT ![role] = r] /\ QueryRead(r, p)
  BY <1>0, QueryReads
<1>2. /\ pc = "query" /\ pc' = "rulesets" /\ Keep
      /\ UNCHANGED <<args, queue, role, verdict>>
  BY DEF Query
<1>3. UNCHANGED <<prs, main, gone, moved>>
  BY <1>2 DEF Keep, github
<1>4. /\ snap = [x \in {"pull", "parent"} |-> snap[x]] /\ role \in {"pull", "parent"}
      /\ queue = <<"child">> /\ verdict = "none" /\ snap["parent"] = Unread
      /\ role = "pull" => snap["pull"] = Unread
      /\ role = "parent" => snap["pull"] # Unread
      /\ Fresh /\ Parented
  BY <1>2 DEF IInv, ParentSeen
<1>5. Unread.pr = "none"
  BY DEF Unread
<1>6. /\ prs["parent"].head \in Nat /\ prs["child"].base \in Refs /\ gone \subseteq {"feature"}
      /\ gone # {} => "CLOSED" \in prs["parent"].flags
  BY DEF IInv, Types, IsPR
<1>7. CASE role = "pull"
  <2>1. /\ snap' = [x \in {"pull", "parent"} |-> snap'[x]]
        /\ snap'["pull"] = r /\ snap'["parent"] = Unread /\ r.pr = "child"
        /\ r.baseOid = Tip(r.base) /\ Tip(r.base) # NoCommit /\ Read(r)
        /\ r.base = prs["child"].base
    BY <1>1, <1>4, <1>7 DEF QueryRead
  <2>2. moved = {}
    BY <1>4, <1>7 DEF Fresh
  <2>3. r.base = "feature" => r.baseOid = Commit("feature", prs["parent"].head)
    <3> SUFFICES ASSUME r.base = "feature" PROVE r.baseOid = Commit("feature", prs["parent"].head)
      OBVIOUS
    <3>1. "feature" \notin gone
      BY <2>1 DEF Tip
    <3> QED BY <2>1, <3>1 DEF Tip
  <2>4. r.base = "feature" =>
          r.baseOid.ref = "feature" /\ r.baseOid.n = prs["parent"].head
    BY <2>3 DEF Commit
  <2>5. Fresh' /\ Parented'
    BY <1>1, <1>3, <1>5, <1>6, <2>1, <2>2, <2>4 DEF Fresh, Parented
  <2> QED BY <1>1, <1>2, <1>4, <1>5, <1>7, <2>1, <2>5 DEF ParentSeen
<1>8. CASE role = "parent"
  <2>1. /\ snap' = [x \in {"pull", "parent"} |-> snap'[x]]
        /\ snap'["pull"] = snap["pull"] /\ snap'["parent"] = r
        /\ r.pr = "parent" /\ r.headRef = "feature" /\ r.flags = prs["parent"].flags
        /\ r.headOid = Commit("feature", prs["parent"].head) /\ Read(r)
    BY <1>1, <1>4, <1>8 DEF QueryRead
  <2>2. r.headOid.n = prs["parent"].head
    BY <2>1 DEF Commit
  <2>3. Parented'
    BY <1>1, <1>3, <1>4, <1>6, <1>8, <2>1, <2>2 DEF Fresh, Parented
  <2>4. Fresh'
    BY <1>3, <1>4, <1>5, <1>8, <2>1 DEF Fresh
  <2> QED BY <1>2, <1>4, <1>5, <1>8, <2>1, <2>3, <2>4 DEF ParentSeen
<1> QED BY <1>4, <1>7, <1>8

\* A report that says READY has seen the parent where the child's base was.
LEMMA DecideKeepsParent ==
  ASSUME IInv, args.command = "report", pc = "compare", Keep, UNCHANGED args, Decide
  PROVE  ParentSeen'
<1>1. UNCHANGED moved
  BY DEF Keep
<1>2. /\ queue = <<"child">> /\ verdict = "none" /\ Fresh /\ Parented
      /\ snap = [x \in {"pull", "parent"} |-> snap[x]]
  BY DEF IInv, ParentSeen
<1> DEFINE ready == verify(snap["pull"], snap["parent"])
<1>3. /\ verdict' = IF ready /\ verdict # "BLOCKED" THEN "READY" ELSE "BLOCKED"
      /\ queue' = Tail(queue) /\ role' = "pull"
      /\ IF queue' = <<>> THEN pc' = "done" /\ UNCHANGED snap
         ELSE pc' = "query" /\ snap' = [pull |-> Unread, parent |-> Unread]
  BY Zenon DEF Decide
<1> HIDE DEF ready
<1>4. pc' = "done" /\ UNCHANGED snap
  BY <1>2, <1>3
<1>5. ready /\ snap["pull"].stack # NoStack => moved = {}
  <2> SUFFICES ASSUME ready, snap["pull"].stack # NoStack, moved # {} PROVE FALSE
    OBVIOUS
  <2> DEFINE s == snap["pull"]
             p == snap["parent"]
  <2>1. /\ p # Unread /\ "CLOSED" \notin p.flags /\ s.base = s.stack.base
        /\ p.headRef = s.stack.base /\ s.baseOid = p.headOid
    BY DEF ready, verify, BaseReady
  <2>2. p.headRef = "feature" /\ s.base = "feature"
    BY <1>2, <2>1 DEF Parented
  <2> QED BY <1>2, <2>1, <2>2 DEF Parented
<1>6. Fresh' /\ Parented'
  <2>1. UNCHANGED <<prs, main, gone>>
    BY DEF Keep, github
  <2> QED BY <1>1, <1>2, <1>4, <2>1 DEF Fresh, Parented
<1> QED BY <1>1, <1>2, <1>3, <1>4, <1>5, <1>6 DEF ParentSeen

LEMMA ReadKeepsParent ==
  ASSUME IInv, args.command = "report",
         ListOpen \/ Query \/ ListRulesets \/ ReadRuleset \/ Compare
  PROVE  ParentSeen'
<1>1. /\ Keep /\ UNCHANGED args /\ pc # "done"
  BY DEF ListOpen, Query, ListRulesets, ReadRuleset, Compare, Error
<1>2. UNCHANGED <<prs, main, gone, moved>>
  BY <1>1 DEF Keep, github
<1>3. CASE Error
  <2>1. pc' = "done" /\ verdict' = "ERROR" /\ UNCHANGED <<args, queue, role, snap>>
    BY <1>3 DEF Error, End
  <2> QED BY <1>1, <1>2, <2>1 DEF IInv, ParentSeen, Fresh, Parented
<1>4. CASE ListRulesets /\ ~Error
  BY <1>1, <1>2, <1>4 DEF ListRulesets, IInv, ParentSeen, Fresh, Parented
<1>5. CASE ReadRuleset /\ ~Error
  <2>1. PICK x : snap' = [snap EXCEPT ![role].rules = x]
    BY <1>5 DEF ReadRuleset
  <2>2. /\ pc = "ruleset" /\ pc' \in {"ruleset", "compare"} /\ UNCHANGED <<queue, role, verdict>>
    BY <1>5 DEF ReadRuleset
  <2>3. /\ snap = [y \in {"pull", "parent"} |-> snap[y]] /\ role \in {"pull", "parent"}
        /\ snap[role] # Unread /\ Fresh /\ Parented
    BY <2>2 DEF IInv, ParentSeen
  <2> DEFINE q == [snap[role] EXCEPT !.rules = x]
  <2>4. /\ snap' = [y \in {"pull", "parent"} |-> snap'[y]]
        /\ \A y \in {"pull", "parent"} : snap'[y] = IF y = role THEN q ELSE snap[y]
    BY <2>1, <2>3
  <2>5. Read(snap[role]) /\ snap[role].pr \in {"child", "parent"}
    BY <2>3 DEF Fresh, Parented
  <2>6. /\ Read(q) /\ q.pr = snap[role].pr /\ q.base = snap[role].base
        /\ q.baseOid = snap[role].baseOid /\ q.headOid = snap[role].headOid
        /\ q.headRef = snap[role].headRef /\ q.flags = snap[role].flags
    BY <2>5 DEF Read
  <2> HIDE DEF q
  <2>7. q # Unread
    BY <2>5, <2>6 DEF Unread
  <2>8. Fresh'
    BY <1>2, <2>3, <2>4, <2>6, <2>7 DEF Fresh
  <2>9. Parented'
    BY <1>2, <2>3, <2>4, <2>6, <2>7 DEF Parented
  <2> QED BY <1>1, <2>2, <2>3, <2>4, <2>7, <2>8, <2>9 DEF IInv, ParentSeen
<1>6. CASE Compare /\ ~Error
  <2>1. CASE Decide
    BY <1>1, <1>6, <2>1, DecideKeepsParent DEF Compare
  <2>2. CASE /\ role = "pull" /\ role' = "parent" /\ pc' = "query"
             /\ UNCHANGED <<queue, snap, verdict>>
    BY <1>1, <1>2, <1>6, <2>2 DEF Compare, IInv, ParentSeen, Fresh, Parented
  <2> QED BY <1>6, <2>1, <2>2, Zenon DEF Compare
<1>7. ~ListOpen
  BY DEF ListOpen, IInv, ParentSeen
<1> QED BY <1>3, <1>4, <1>5, <1>6, <1>7, QueryKeepsParent

\* Any other call of gh.
LEMMA ReadKeeps ==
  ASSUME IInv, ListOpen \/ Query \/ ListRulesets \/ ReadRuleset \/ Compare
  PROVE  IInv'
<1>1. Keep /\ UNCHANGED <<args, merged>> /\ pc \notin {"start", "put", "done"}
  BY DEF ListOpen, Query, ListRulesets, ReadRuleset, Compare, Decide, Error, End
<1>2. pc' # "start" /\ pc' # "put" /\ (pc' = "final" => args.command = "merge")
  BY DEF ListOpen, Query, ListRulesets, ReadRuleset, Compare, Decide, Error, End
<1>3. Place'
  BY <1>1, <1>2 DEF IInv, Place, Keep
<1>4. ParentSeen'
  BY <1>1, ReadKeepsParent DEF ParentSeen
<1> QED BY <1>1, <1>3, <1>4, ToolKeeps

-----------------------------------------------------------------------------
LEMMA InitIInv == Init => IInv
<1> SUFFICES ASSUME Init PROVE IInv
  OBVIOUS
<1>1. \A base \in Refs : \A stack : IsPR(PullRequest(base, stack))
  BY DEF IsPR, PullRequest, Refs
<1>2. PICK base \in Refs, stack \in {NoStack, StackOn(Commit("feature", 1))} :
        prs = [child |-> PullRequest(base, stack), parent |-> PullRequest("main", NoStack)]
  BY DEF Init
<1>3. /\ prs = [p \in {"child", "parent"} |-> prs[p]]
      /\ IsPR(prs["child"]) /\ IsPR(prs["parent"])
  BY <1>1, <1>2 DEF Refs
<1>4. Types
  BY <1>3 DEF Init, Types
<1>5. HeadSeen /\ BaseSeen /\ Place
  BY DEF Init, NoArgs, HeadSeen, BaseSeen, Place
<1>6. ParentSeen
  BY DEF Init, NoArgs, ParentSeen
<1> QED BY <1>4, <1>5, <1>6 DEF IInv

LEMMA StepIInv == IInv /\ [Next]_vars => IInv'
<1> SUFFICES ASSUME IInv, [Next]_vars PROVE IInv'
  OBVIOUS
<1>1. CASE Others
  BY <1>1, OthersKeep
<1>2. CASE Start \/ Final \/ Put
  BY <1>2, StartKeeps, FinalKeeps, PutKeeps
<1>3. CASE ListOpen \/ Query \/ ListRulesets \/ ReadRuleset \/ Compare
  BY <1>3, ReadKeeps
<1>4. CASE UNCHANGED vars
  <2>1. UNCHANGED <<prs, main, gone, moved, args, pc, merged, snap, role, queue, verdict>>
    BY <1>4 DEF vars, github, tool
  <2>2. (Types /\ HeadSeen /\ BaseSeen /\ Place)'
    BY <2>1 DEF IInv, Types, HeadSeen, BaseSeen, Place
  <2>3. ParentSeen'
    BY <2>1 DEF IInv, ParentSeen, Fresh, Parented
  <2> QED BY <2>2, <2>3 DEF IInv
<1> QED BY <1>1, <1>2, <1>3, <1>4 DEF Next

LEMMA Inductive == Spec => []IInv
BY InitIInv, StepIInv, PTL DEF Spec

\* Whatever is pushed, merged, deleted, reviewed or retargeted between the calls
\* of gh, nothing is merged once the head was pushed to, or the expected base
\* moved before its last reading (command_merge).
THEOREM MergesOnlyUnmoved == Spec => []StaleIsBlocked
<1>1. IInv => StaleIsBlocked
  BY DEF IInv, Place, StaleIsBlocked
<1> QED BY <1>1, Inductive, PTL

\* A report never says READY of a stacked pull request whose parent's branch was
\* pushed to, or deleted, between the child's query and the parent's.
THEOREM ReportsOnlyLiveParents == Spec => []ReadyOnLiveParent
<1>1. IInv => ReadyOnLiveParent
  BY DEF IInv, ParentSeen, ReadyOnLiveParent
<1> QED BY <1>1, Inductive, PTL

-----------------------------------------------------------------------------
(* The evidence.  Each reading may be older than the next.  What makes it  *)
(* sound is that all of it names the head it is about: a snapshot's        *)
(* reviews and runs are backed by what once happened to that head          *)
(* (Backed), a decision to merge is made on the snapshot of the expected   *)
(* head (Proven), and GitHub merges no other.                              *)

Opinions == {"APPROVED", "CHANGES_REQUESTED", "DISMISSED"}
AReview == [author : Authors, head : Nat, opinion : Opinions, push : BOOLEAN,
            effective : BOOLEAN]

\* Every approval and every successful run has happened.
Ledger(rs, cs) ==
  /\ rs \subseteq AReview
  /\ \A r \in rs : r.opinion = "APPROVED" /\ r.push => [head |-> r.head, by |-> r.author] \in ever
  /\ \A c, h : [check |-> c, head |-> h, success |-> TRUE] \in cs => [head |-> h, by |-> c] \in ever

\* RequiredApprovals is a maximum, though a repository may have any number of
\* rulesets: they are read one by one.
Asked(rules, ref) == {0} \cup {r.approvals : r \in Matching(rules, ref)}
Bounded(rules) == \A ref : \E m \in Asked(rules, ref) : \A x \in Asked(rules, ref) : m >= x

\* A snapshot of the child.
Backed(s) ==
  /\ Read(s) /\ s.pr = "child" /\ s.base \in Refs
  /\ Ledger(s.reviews, s.runs)
  /\ s.rules \subseteq Rulings /\ Bounded(s.rules)

\* The property's conclusion, of the head the user expects.
Proven(s) ==
  \A r \in s.rules :
    Applies(r, s.base) =>
      /\ \A c \in r.checks : [head |-> args.head, by |-> c] \in ever
      /\ Cardinality({a \in Authors : [head |-> args.head, by |-> a] \in ever}) >= r.approvals

Merging ==
  LET s == snap["pull"]
  IN  /\ ~args.skip /\ role \in {"pull", "parent"}
      /\ snap = [r \in {"pull", "parent"} |-> snap[r]]
      /\ pc # "done" => queue = <<"child">>
      /\ pc \in {"rulesets", "ruleset", "compare"} => s # Unread
      /\ s = Unread \/ Backed(s)
      /\ role = "parent" => s # Unread /\ s.head = args.head /\ ~PolicyFails(s.rules, s.base)
      /\ pc \in {"final", "put"} \/ merged # NotMerged => s # Unread /\ Proven(s)
      /\ merged # NotMerged => merged.head = args.head

EInv ==
  /\ rulesets \in [RulesetIds -> Rulings] /\ listed \subseteq RulesetIds
  /\ Ledger(reviews, runs)
  /\ pc = "start" => snap = [pull |-> Unread, parent |-> Unread] /\ role = "pull"
  /\ args.command # "merge" => merged = NotMerged
  /\ args.command = "merge" => Merging /\ pc # "list"
-----------------------------------------------------------------------------
(* What rulesets ask for. *)

\* A rule that applies is one the tool counts, unless it cannot verify it.
LEMMA AppliesIsMatched ==
  ASSUME NEW rules, NEW r \in rules, NEW ref \in Refs,
         ~PolicyFails(rules, ref), Applies(r, ref)
  PROVE  r \in Matching(rules, ref)
<1>1. r.active /\ ~Unsupported(r, ref)
  BY DEF PolicyFails, Applies
<1>2. ref # "ALL" /\ ref # "DEFAULT"
  BY DEF Refs
<1>3. rule_matches_ref(r, ref)
  BY <1>1, <1>2 DEF Applies, Unsupported, rule_matches_ref
<1> QED BY <1>1, <1>3 DEF Matching

LEMMA AskedAreNat ==
  ASSUME NEW rules \in SUBSET Rulings, NEW ref
  PROVE  Asked(rules, ref) \subseteq Nat
  BY IntegrationAssumption DEF Asked, Matching

\* Reading one more ruleset leaves a maximum.
LEMMA OneMoreRule ==
  ASSUME NEW rules \in SUBSET Rulings, NEW r \in Rulings, Bounded(rules)
  PROVE  Bounded(rules \cup {r})
<1> SUFFICES ASSUME NEW ref
             PROVE  \E m \in Asked(rules \cup {r}, ref) :
                      \A x \in Asked(rules \cup {r}, ref) : m >= x
  BY DEF Bounded
<1>1. PICK m \in Asked(rules, ref) : \A x \in Asked(rules, ref) : m >= x
  BY DEF Bounded
<1>2. /\ Asked(rules, ref) \subseteq Asked(rules \cup {r}, ref)
      /\ \A x \in Asked(rules \cup {r}, ref) : x \in Asked(rules, ref) \/ x = r.approvals
  BY DEF Asked, Matching
<1>3. m \in Nat /\ r.approvals \in Nat /\ Asked(rules, ref) \subseteq Nat
  BY <1>1, AskedAreNat, IntegrationAssumption
<1>4. CASE r.approvals \in Asked(rules \cup {r}, ref) /\ r.approvals >= m
  BY <1>1, <1>2, <1>3, <1>4
<1>5. CASE r.approvals \notin Asked(rules \cup {r}, ref) \/ ~(r.approvals >= m)
  BY <1>1, <1>2, <1>3, <1>5
<1> QED BY <1>4, <1>5

LEMMA MaxBounds ==
  ASSUME NEW S \in SUBSET Nat, \E m \in S : \A x \in S : m >= x
  PROVE  Max(S) \in S /\ \A x \in S : Max(S) >= x
  BY DEF Max

\* What passes verify is proven.
LEMMA VerifiedIsProven ==
  ASSUME NEW s, NEW p, Backed(s), verify(s, p), ~args.skip, s.head = args.head,
         ~PolicyFails(s.rules, s.base)
  PROVE  Proven(s)
<1> SUFFICES ASSUME NEW r \in s.rules, Applies(r, s.base)
             PROVE  /\ \A c \in r.checks : [head |-> args.head, by |-> c] \in ever
                    /\ Cardinality({a \in Authors : [head |-> args.head, by |-> a] \in ever})
                         >= r.approvals
  BY DEF Proven
<1>1. r \in Matching(s.rules, s.base) /\ r \in Rulings
  BY AppliesIsMatched DEF Backed
<1>2. \A c \in r.checks : [head |-> args.head, by |-> c] \in ever
  <2> SUFFICES ASSUME NEW c \in r.checks PROVE [head |-> args.head, by |-> c] \in ever
    OBVIOUS
  <2>1. c \in RequiredChecks(s.rules, s.base)
    BY <1>1 DEF RequiredChecks
  <2>2. [check |-> c, head |-> s.head, success |-> TRUE] \in s.runs
    BY <2>1 DEF verify, ChecksReady
  <2> QED BY <2>2 DEF Backed, Ledger
<1> DEFINE required == RequiredApprovals(s.rules, s.base)
           exact == exact_head_approvals(s)
           known == {a \in Authors : [head |-> args.head, by |-> a] \in ever}
           least == IF s.decision = "APPROVED" THEN 1 ELSE 0
<1>3. required \in Nat /\ r.approvals \in Nat /\ required >= r.approvals
  <2>1. required = Max(Asked(s.rules, s.base))
    BY DEF RequiredApprovals, Asked
  <2>2. Asked(s.rules, s.base) \in SUBSET Nat
    BY AskedAreNat DEF Backed
  <2>3. \E m \in Asked(s.rules, s.base) : \A x \in Asked(s.rules, s.base) : m >= x
    BY DEF Backed, Bounded
  <2>4. r.approvals \in Asked(s.rules, s.base)
    BY <1>1 DEF Asked
  <2> QED BY <2>1, <2>2, <2>3, <2>4, MaxBounds
<1>4. exact \subseteq known
  BY DEF exact_head_approvals, Backed, Ledger, AReview
<1>5. IsFiniteSet(known)
  BY IntegrationAssumption, FS_Subset
<1>6. Cardinality(exact) \in Nat /\ Cardinality(known) \in Nat
      /\ Cardinality(known) >= Cardinality(exact)
  BY <1>4, <1>5, FS_Subset, FS_CardinalityType
<1>7. Cardinality(exact) >= Max({required, least})
  BY DEF verify, ReviewsReady
<1> HIDE DEF required, exact, known
<1>8. Max({required, least}) \in Nat /\ Max({required, least}) >= required
  <2>1. least \in Nat
    OBVIOUS
  <2> HIDE DEF least
  <2>2. {required, least} \in SUBSET Nat
        /\ \E m \in {required, least} : \A x \in {required, least} : m >= x
    BY <1>3, <2>1
  <2> QED BY <2>2, MaxBounds
<1>9. Cardinality(known) >= r.approvals
  BY <1>3, <1>6, <1>7, <1>8
<1> QED BY <1>2, <1>9 DEF known

-----------------------------------------------------------------------------
(* What others do. *)

\* What once happened stays so: evidence only grows.
LEMMA MergingKept ==
  ASSUME EInv, UNCHANGED tool, ever \subseteq ever', args.command = "merge"
  PROVE  Merging'
<1> DEFINE s == snap["pull"]
<1>1. UNCHANGED <<args, pc, queue, role, snap, merged>> /\ Merging
  BY DEF tool, EInv
<1>2. s # Unread => Backed(s)'
  BY <1>1 DEF Merging, Backed, Ledger, Bounded, Read
<1>3. s # Unread /\ Proven(s) => Proven(s)'
  <2> SUFFICES ASSUME s # Unread, Proven(s), NEW r \in s.rules, Applies(r, s.base)
               PROVE  /\ \A c \in r.checks : [head |-> args.head, by |-> c] \in ever'
                      /\ Cardinality({a \in Authors : [head |-> args.head, by |-> a] \in ever'})
                           >= r.approvals
    BY <1>1 DEF Proven, Applies
  <2> DEFINE known == {a \in Authors : [head |-> args.head, by |-> a] \in ever}
             later == {a \in Authors : [head |-> args.head, by |-> a] \in ever'}
  <2>1. \A c \in r.checks : [head |-> args.head, by |-> c] \in ever'
    BY DEF Proven
  <2>2. Cardinality(known) >= r.approvals
    BY DEF Proven
  <2>3. IsFiniteSet(known) /\ IsFiniteSet(later) /\ known \subseteq later
    BY IntegrationAssumption, FS_Subset
  <2>4. /\ Cardinality(known) \in Nat /\ Cardinality(later) \in Nat
        /\ Cardinality(known) <= Cardinality(later)
    BY <2>3, FS_Subset, FS_CardinalityType
  <2> HIDE DEF known, later
  <2>5. s.rules \subseteq Rulings
    BY <1>1 DEF Merging, Backed
  <2> QED BY <2>1, <2>2, <2>4, <2>5, IntegrationAssumption DEF later
<1> QED BY <1>1, <1>2, <1>3 DEF Merging, PolicyFails

\* What is reviewed and run goes into the ledger, and stays there.
LEMMA ReviewLedger ==
  ASSUME EInv, Types, NEW a \in Authors, NEW o \in {"APPROVED", "CHANGES_REQUESTED"},
         NEW push \in BOOLEAN, Review(a, o, push)
  PROVE  Ledger(reviews, runs)' /\ ever \subseteq ever'
<1> DEFINE new == Reviewed(a, prs["child"].head, o, push)
           Older(r) == [r EXCEPT !.effective = @ /\ r.author # a]
<1>1. /\ reviews' = {Older(r) : r \in reviews} \cup {new}
      /\ ever' = IF o = "APPROVED" /\ push
                 THEN ever \cup {[head |-> prs["child"].head, by |-> a]} ELSE ever
      /\ UNCHANGED runs
  BY DEF Review
<1>2. Ledger(reviews, runs)
  BY DEF EInv
<1>3. prs["child"].head \in Nat
  BY DEF Types, IsPR
<1>4. /\ new \in AReview /\ new.author = a /\ new.head = prs["child"].head
      /\ new.opinion = o /\ new.push = push
  BY <1>3 DEF Reviewed, AReview, Opinions
<1>5. \A r \in AReview : /\ Older(r) \in AReview /\ Older(r).author = r.author
                         /\ Older(r).head = r.head /\ Older(r).opinion = r.opinion
                         /\ Older(r).push = r.push
  BY DEF AReview
<1> HIDE DEF new, Older
<1>6. ever \subseteq ever'
  BY <1>1
<1>7. reviews' \subseteq AReview
  BY <1>1, <1>2, <1>4, <1>5 DEF Ledger
<1>8. ASSUME NEW r \in reviews', r.opinion = "APPROVED", r.push
      PROVE  [head |-> r.head, by |-> r.author] \in ever'
  <2>1. CASE r = new
    BY <1>1, <1>4, <1>8, <2>1
  <2>2. CASE \E q \in reviews : r = Older(q)
    <3>1. PICK q \in reviews : r = Older(q)
      BY <2>2
    <3>2. q \in AReview
      BY <1>2 DEF Ledger
    <3>3. q.opinion = "APPROVED" /\ q.push /\ q.head = r.head /\ q.author = r.author
      BY <1>5, <1>8, <3>1, <3>2
    <3> QED BY <1>2, <1>6, <3>3 DEF Ledger
  <2> QED BY <1>1, <2>1, <2>2
<1> QED BY <1>1, <1>2, <1>6, <1>7, <1>8 DEF Ledger

LEMMA DismissLedger ==
  ASSUME EInv, Dismiss
  PROVE  Ledger(reviews, runs)'
<1>1. PICK r \in reviews :
        reviews' = (reviews \ {r}) \cup {[r EXCEPT !.opinion = "DISMISSED"]}
  BY DEF Dismiss
<1>2. UNCHANGED <<runs, ever>> /\ Ledger(reviews, runs)
  BY DEF Dismiss, EInv
<1> DEFINE q == [r EXCEPT !.opinion = "DISMISSED"]
<1>3. q \in AReview /\ q.opinion = "DISMISSED"
  BY <1>2 DEF Ledger, AReview, Opinions
<1> HIDE DEF q
<1>4. reviews' = (reviews \ {r}) \cup {q}
  BY <1>1 DEF q
<1> QED BY <1>2, <1>3, <1>4 DEF Ledger

LEMMA CheckRunLedger ==
  ASSUME EInv, NEW check, NEW success \in BOOLEAN, CheckRun(check, success)
  PROVE  Ledger(reviews, runs)' /\ ever \subseteq ever'
<1> DEFINE head == prs["child"].head
           new == [check |-> check, head |-> head, success |-> success]
<1>1. /\ runs' = {r \in runs : r.check # check \/ r.head # head} \cup {new}
      /\ ever' = IF success THEN ever \cup {[head |-> head, by |-> check]} ELSE ever
      /\ UNCHANGED reviews
  BY DEF CheckRun
<1>2. Ledger(reviews, runs)
  BY DEF EInv
<1>3. \A c, h : [check |-> c, head |-> h, success |-> TRUE] = new =>
                  c = check /\ h = head /\ success
  OBVIOUS
<1> HIDE DEF head, new
<1> QED BY <1>1, <1>2, <1>3 DEF Ledger

LEMMA OthersKeepE ==
  ASSUME EInv, Types, Others
  PROVE  EInv'
<1>1. UNCHANGED tool
  BY DEF Others, Push, AdvanceMain, MergeParent, DeleteFeature, Toggle, Retarget, Restack,
         Dismiss, Review, CheckRun, Rule, Change
<1>2. /\ ever \subseteq ever' /\ Ledger(reviews, runs)'
      /\ rulesets' \in [RulesetIds -> Rulings]
  <2>0. rulesets \in [RulesetIds -> Rulings] /\ Ledger(reviews, runs)
    BY DEF EInv
  <2>1. CASE UNCHANGED <<reviews, runs, rulesets, ever>>
    BY <2>0, <2>1 DEF Ledger
  <2>2. CASE \E i \in RulesetIds, r \in Rulings : Rule(i, r)
    BY <2>0, <2>2 DEF Rule, Ledger
  <2>3. CASE Dismiss
    BY <2>0, <2>3, DismissLedger DEF Dismiss
  <2>4. CASE \E a \in Authors, o \in {"APPROVED", "CHANGES_REQUESTED"}, push \in BOOLEAN :
               Review(a, o, push)
    BY <2>0, <2>4, ReviewLedger DEF Review
  <2>5. CASE \E c \in Contexts, success \in BOOLEAN : CheckRun(c, success)
    BY <2>0, <2>5, CheckRunLedger DEF CheckRun
  <2> QED BY <2>1, <2>2, <2>3, <2>4, <2>5
          DEF Others, Push, AdvanceMain, MergeParent, DeleteFeature, Toggle, Retarget, Restack
<1>3. args'.command = "merge" => Merging'
  BY <1>1, <1>2, MergingKept DEF tool
<1> QED BY <1>1, <1>2, <1>3 DEF EInv, tool

-----------------------------------------------------------------------------
(* The tool. *)

\* A reading leaves GitHub and the ledger alone.
LEMMA ToolKeepsE ==
  ASSUME EInv, Keep, listed' \subseteq RulesetIds, pc' # "start",
         args'.command # "merge" => merged' = NotMerged,
         args'.command = "merge" => Merging' /\ pc' # "list"
  PROVE  EInv'
  BY DEF EInv, Keep, github, Ledger

\* IntegrationError ends the run as it is.
LEMMA ErrorKeepsE ==
  ASSUME EInv, Keep, Error
  PROVE  EInv'
<1>1. UNCHANGED <<args, role, queue, snap, listed, merged, ever>> /\ pc' = "done"
  BY DEF Error, End, Keep
<1>2. args.command = "merge" => Merging'
  <2> SUFFICES ASSUME args.command = "merge" PROVE Merging'
    OBVIOUS
  <2>1. Merging
    BY DEF EInv
  <2>2. snap["pull"] # Unread => Backed(snap["pull"])'
    BY <1>1, <2>1 DEF Merging, Backed, Ledger
  <2>3. merged' # NotMerged => Proven(snap["pull"])'
    BY <1>1, <2>1 DEF Merging, Proven
  <2> QED BY <1>1, <2>1, <2>2, <2>3 DEF Merging
<1> QED BY <1>1, <1>2, ToolKeepsE DEF EInv

LEMMA StartKeepsE ==
  ASSUME EInv, Place, Start
  PROVE  EInv'
<1>1. /\ Keep /\ UNCHANGED <<snap, role, listed, merged>> /\ pc' \in {"list", "query"}
      /\ snap = [pull |-> Unread, parent |-> Unread] /\ role = "pull"
      /\ merged = NotMerged /\ queue' = <<"child">>
      /\ args'.command = "merge" => ~args'.skip /\ pc' = "query"
  BY DEF Start, EInv, Place
<1>2. /\ snap' = [r \in {"pull", "parent"} |-> snap'[r]]
      /\ snap'["pull"] = Unread /\ snap'["parent"] = Unread
  BY <1>1
<1>3. args'.command = "merge" => Merging'
  BY <1>1, <1>2 DEF Merging
<1> QED BY <1>1, <1>3, ToolKeepsE DEF EInv

\* The child's query reads what is in the ledger.
LEMMA QueryKeepsE ==
  ASSUME EInv, Types, Place, Query, ~Error
  PROVE  EInv'
<1>1. /\ Keep /\ pc = "query" /\ pc' = "rulesets"
      /\ UNCHANGED <<args, queue, role, listed, merged>>
  BY DEF Query
<1>2. ASSUME args.command = "merge" PROVE Merging'
  <2> DEFINE p == IF role = "pull" THEN queue[1] ELSE "parent"
  <2>1. /\ Merging /\ queue = <<"child">> /\ snap = [r \in {"pull", "parent"} |-> snap[r]]
        /\ role \in {"pull", "parent"} /\ queue[1] = "child" /\ merged = NotMerged
        /\ Ledger(reviews, runs)
    BY <1>1, <1>2 DEF EInv, Merging, Place
  <2>2. PICK r : snap' = [snap EXCEPT ![role] = r] /\ QueryRead(r, p)
    BY QueryReads
  <2>3. /\ snap' = [x \in {"pull", "parent"} |-> snap'[x]]
        /\ snap'[role] = r /\ (role = "parent" => snap'["pull"] = snap["pull"])
    BY <2>1, <2>2
  <2>4. r # Unread
    <3>1. Unread.pr = "none"
      BY DEF Unread
    <3> QED BY <2>1, <2>2, <3>1 DEF QueryRead
  <2>5. UNCHANGED ever /\ prs["child"].base \in Refs
    BY <1>1 DEF Keep, Types, IsPR
  <2>6. ASSUME role = "pull" PROVE Backed(r)'
    <3>1. /\ Read(r) /\ r.pr = "child" /\ r.base \in Refs /\ r.rules = {}
          /\ r.reviews = reviews /\ r.runs \subseteq runs
      BY <2>1, <2>2, <2>5, <2>6 DEF QueryRead
    <3>2. Bounded({})
      <4> SUFFICES ASSUME NEW ref PROVE Asked({}, ref) = {0}
        BY DEF Bounded
      <4> QED BY DEF Asked, Matching
    <3>3. Ledger(r.reviews, r.runs)
      BY <2>1, <3>1 DEF Ledger
    <3> HIDE DEF p
    <3> QED BY <2>5, <3>1, <3>2, <3>3 DEF Backed, Ledger
  <2>7. role = "parent" => (snap["pull"] # Unread => Backed(snap["pull"])')
    BY <2>1, <2>3, <2>5 DEF Merging, Backed, Ledger
  <2> HIDE DEF p
  <2>8. CASE role = "pull"
    BY <1>1, <1>2, <2>1, <2>3, <2>4, <2>6, <2>8 DEF Merging
  <2>9. CASE role = "parent"
    <3>1. snap'["pull"] = snap["pull"] /\ snap["pull"] # Unread
      BY <2>1, <2>3, <2>9 DEF Merging
    <3> QED BY <1>1, <1>2, <2>1, <2>3, <2>7, <2>9, <3>1 DEF Merging
  <2> QED BY <2>1, <2>8, <2>9
<1> QED BY <1>1, <1>2, ToolKeepsE DEF EInv

LEMMA ListRulesetsKeepsE ==
  ASSUME EInv, Place, ListRulesets, ~Error
  PROVE  EInv'
<1>1. /\ Keep /\ listed' = RulesetIds /\ pc = "rulesets" /\ pc' \in {"ruleset", "compare"}
      /\ UNCHANGED <<args, queue, role, snap, merged, ever>>
  BY DEF ListRulesets, Keep
<1>2. ASSUME args.command = "merge" PROVE Merging'
  <2>1. Merging /\ merged = NotMerged
    BY <1>1, <1>2 DEF EInv, Place
  <2> QED BY <1>1, <2>1 DEF Merging, Backed, Ledger
<1> QED BY <1>1, <1>2, ToolKeepsE DEF EInv

\* One more ruleset of one of the snapshots.
LEMMA ReadRulesetKeepsE ==
  ASSUME EInv, Place, ReadRuleset, ~Error
  PROVE  EInv'
<1>1. PICK i \in listed : /\ listed' = listed \ {i}
                          /\ snap' = [snap EXCEPT ![role].rules = @ \cup {rulesets[i]}]
  BY DEF ReadRuleset
<1>2. /\ Keep /\ pc = "ruleset" /\ pc' \in {"ruleset", "compare"} /\ UNCHANGED ever
      /\ UNCHANGED <<args, queue, role, merged>> /\ rulesets[i] \in Rulings
  BY DEF ReadRuleset, Keep, EInv
<1>3. ASSUME args.command = "merge" PROVE Merging'
  <2> DEFINE s == snap["pull"]
             q == [snap[role] EXCEPT !.rules = @ \cup {rulesets[i]}]
  <2>1. /\ Merging /\ merged = NotMerged /\ snap = [r \in {"pull", "parent"} |-> snap[r]]
        /\ role \in {"pull", "parent"} /\ s # Unread
    BY <1>2, <1>3 DEF EInv, Place, Merging
  <2>2. /\ snap' = [r \in {"pull", "parent"} |-> snap'[r]]
        /\ \A r \in {"pull", "parent"} : snap'[r] = IF r = role THEN q ELSE snap[r]
    BY <1>1, <2>1
  <2>3. CASE role = "pull"
    <3>1. Backed(s)
      BY <2>1, <2>3 DEF Merging
    <3>2. /\ Read(q) /\ q.pr = "child" /\ q.base = s.base /\ q.reviews = s.reviews
          /\ q.runs = s.runs /\ q.rules = s.rules \cup {rulesets[i]}
      BY <2>3, <3>1 DEF Backed, Read
    <3>3. Bounded(s.rules \cup {rulesets[i]})
      BY <1>2, <3>1, OneMoreRule DEF Backed
    <3> HIDE DEF q
    <3>4. Backed(snap["pull"])'
      BY <1>2, <2>2, <2>3, <3>1, <3>2, <3>3 DEF Backed, Ledger
    <3>5. snap'["pull"] # Unread
      <4>1. Unread.pr = "none"
        BY DEF Unread
      <4> QED BY <2>2, <2>3, <3>2, <4>1
    <3> QED BY <1>2, <1>3, <2>1, <2>2, <2>3, <3>4, <3>5 DEF Merging
  <2>4. CASE role = "parent"
    <3>1. snap'["pull"] = s /\ s # Unread
      BY <2>1, <2>2, <2>4 DEF Merging
    <3>2. Backed(snap["pull"])'
      BY <1>2, <2>1, <3>1 DEF Merging, Backed, Ledger
    <3> QED BY <1>2, <1>3, <2>1, <2>2, <2>4, <3>1, <3>2 DEF Merging
  <2> QED BY <2>1, <2>3, <2>4
<1> QED BY <1>1, <1>2, <1>3, ToolKeepsE DEF EInv

\* A snapshot of the expected head is kept for the decision, and the decision to
\* merge proves it.
LEMMA CompareKeepsE ==
  ASSUME EInv, Place, Compare, ~Error
  PROVE  EInv'
<1> DEFINE s == snap["pull"]
<1>1. /\ Keep /\ pc = "compare" /\ UNCHANGED <<args, listed, merged, ever>>
      /\ ~PolicyFails(snap[role].rules, snap[role].base)
      /\ role = "pull" => Expected(s)
  BY DEF Compare, Keep
<1>2. pc' # "start" /\ pc' # "list"
  BY DEF Compare, Decide, End
<1>3. ASSUME args.command = "merge" PROVE Merging'
  <2>1. /\ Merging /\ merged = NotMerged /\ s # Unread /\ Backed(s)
        /\ role \in {"pull", "parent"}
    BY <1>1, <1>3 DEF EInv, Place, Merging
  <2>2. s.head = args.head /\ ~PolicyFails(s.rules, s.base)
    BY <1>1, <1>3, <2>1 DEF Merging, Expected
  <2>3. Backed(s) => (UNCHANGED snap => Backed(snap["pull"])')
    BY <1>1 DEF Backed, Ledger
  <2>4. CASE /\ role = "pull" /\ role' = "parent" /\ pc' = "query"
             /\ UNCHANGED <<queue, snap, verdict>>
    BY <1>1, <1>3, <2>1, <2>2, <2>3, <2>4 DEF Merging
  <2>5. CASE Decide
    <3>1. /\ IF verify(snap["pull"], snap["parent"]) THEN pc' = "final" ELSE pc' = "done"
          /\ UNCHANGED <<queue, role, snap>>
      BY <1>3, <2>5 DEF Decide, End
    <3>2. pc' = "final" => Proven(s)
      BY <2>1, <2>2, <3>1, VerifiedIsProven DEF Merging
    <3>3. Proven(s) => Proven(snap["pull"])'
      BY <1>1, <3>1 DEF Proven
    <3> QED BY <1>1, <2>1, <2>2, <2>3, <3>1, <3>2, <3>3 DEF Merging
  <2> QED BY <2>4, <2>5, Zenon DEF Compare
<1> QED BY <1>1, <1>2, <1>3, ToolKeepsE DEF EInv

\* The last reading and the request leave what is proven; GitHub merges only
\* the head that it is about.
LEMMA LastKeepsE ==
  ASSUME EInv, Place, Final \/ Put, ~Error
  PROVE  EInv'
<1>1. /\ Keep /\ pc \in {"final", "put"} /\ pc' \in {"put", "done"}
      /\ UNCHANGED <<args, queue, role, snap, listed, ever>>
      /\ merged' # merged => merged'.head = args.head
  BY DEF Final, Put, End, Keep
<1>2. args.command = "merge" /\ Merging /\ merged = NotMerged
  BY <1>1 DEF EInv, Place
<1>3. Backed(snap["pull"]) => Backed(snap["pull"])'
  BY <1>1 DEF Backed, Ledger
<1>4. Proven(snap["pull"]) => Proven(snap["pull"])'
  BY <1>1 DEF Proven
<1>5. Merging'
  BY <1>1, <1>2, <1>3, <1>4 DEF Merging
<1> QED BY <1>1, <1>2, <1>5, ToolKeepsE DEF EInv

LEMMA InitEInv == Init => EInv
<1> SUFFICES ASSUME Init PROVE EInv
  OBVIOUS
<1>1. Ledger(reviews, runs)
  <2>1. reviews \in {{}} \cup {{Reviewed(a, 1, "APPROVED", TRUE)} : a \in Authors}
    BY DEF Init
  <2>2. ever = {[head |-> 1, by |-> r.author] : r \in reviews} \cup
                 {[head |-> 1, by |-> r.check] : r \in runs}
    BY DEF Init
  <2>3. \A r \in reviews : r \in AReview /\ r.head = 1
    <3> SUFFICES ASSUME NEW r \in reviews PROVE r \in AReview /\ r.head = 1
      OBVIOUS
    <3>1. PICK a \in Authors : reviews = {Reviewed(a, 1, "APPROVED", TRUE)}
      BY <2>1, Zenon
    <3>2. r = Reviewed(a, 1, "APPROVED", TRUE)
      BY <3>1, Zenon
    <3> QED BY <3>2 DEF Reviewed, AReview, Opinions
  <2>4. runs \in {{}, {[check |-> c, head |-> 1, success |-> TRUE] : c \in Contexts}}
    BY DEF Init
  <2>5. \A c, h : [check |-> c, head |-> h, success |-> TRUE] \in runs => h = 1
    BY <2>4
  <2>6. \A r \in reviews : [head |-> r.head, by |-> r.author] \in ever
    BY <2>2, <2>3
  <2>7. ASSUME NEW c, NEW h, [check |-> c, head |-> h, success |-> TRUE] \in runs
        PROVE  [head |-> h, by |-> c] \in ever
    <3> DEFINE r == [check |-> c, head |-> h, success |-> TRUE]
    <3>1. r \in runs /\ r.check = c /\ h = 1
      BY <2>5, <2>7
    <3> HIDE DEF r
    <3> QED BY <2>2, <3>1
  <2> QED BY <2>3, <2>6, <2>7 DEF Ledger
<1>2. args.command = "none"
  BY DEF Init, NoArgs
<1> QED BY <1>1, <1>2 DEF Init, EInv

LEMMA StepEInv == EInv /\ IInv /\ [Next]_vars => EInv'
<1> SUFFICES ASSUME EInv, IInv, [Next]_vars PROVE EInv'
  OBVIOUS
<1>1. Types /\ Place
  BY DEF IInv
<1>2. CASE Others
  BY <1>1, <1>2, OthersKeepE
<1>3. CASE Keep /\ Error
  BY <1>3, ErrorKeepsE
<1>4. CASE Start
  BY <1>1, <1>4, StartKeepsE
<1>5. CASE ~Error /\ (Query \/ ListRulesets \/ ReadRuleset \/ Compare \/ Final \/ Put)
  BY <1>1, <1>5, QueryKeepsE, ListRulesetsKeepsE, ReadRulesetKeepsE, CompareKeepsE, LastKeepsE
<1>6. CASE ~Error /\ ListOpen
  <2>1. /\ Keep /\ UNCHANGED <<args, listed, merged>> /\ pc = "list" /\ pc' # "start"
    BY <1>6 DEF ListOpen, End
  <2>2. args.command # "merge"
    BY <2>1 DEF EInv
  <2> QED BY <2>1, <2>2, ToolKeepsE DEF EInv
<1>7. CASE UNCHANGED vars
  <2>1. UNCHANGED <<args, pc, queue, role, snap, merged, rulesets, listed, reviews, runs, ever>>
    BY <1>7 DEF vars, github, tool
  <2>2. args.command = "merge" => Merging'
    BY <2>1, <1>7, MergingKept DEF vars
  <2> QED BY <2>1, <2>2 DEF EInv, Ledger
<1>8. Query \/ ListRulesets \/ ReadRuleset \/ Compare \/ Final \/ Put \/ ListOpen => Keep
  BY Zenon DEF Query, ListRulesets, ReadRuleset, Compare, Final, Put, ListOpen
<1> QED BY <1>2, <1>3, <1>4, <1>5, <1>6, <1>7, <1>8, Zenon DEF Next

\* What is merged has, for this very head, the approvals and the successful runs
\* that every ruleset asks for that was in force when it was read (verify,
\* exact_head_approvals, the `sha' of the request).
THEOREM MergesOnlyProven == Spec => []EvidenceOfMergedHead
<1>1. EInv => EvidenceOfMergedHead
  BY DEF EInv, Merging, Proven, EvidenceOfMergedHead
<1>2. Spec => []EInv
  BY InitEInv, StepEInv, Inductive, PTL DEF Spec
<1> QED BY <1>1, <1>2, PTL
-----------------------------------------------------------------------------
(* The types.  The heads and the default branch are counted with the        *)
(* changes; and the queue is not empty while the tool reads.                *)

Pulls == {"child", "parent"}
Calls == {"start", "list", "query", "rulesets", "ruleset", "compare", "final", "put", "done"}

\* GitHub's part, after so many changes.
Counted(n) ==
  /\ main \in 1 .. 1 + n
  /\ \A p \in Pulls : prs[p].flags \subseteq Flags /\ prs[p].head \in 1 .. 1 + n

\* The tool's part.
Working ==
  /\ pc \in Calls /\ role \in {"pull", "parent"} /\ listed \subseteq RulesetIds
  /\ queue \in Seq(Pulls) /\ Len(queue) <= 2
  /\ pc \notin {"start", "done"} => queue # <<>>
  /\ verdict \in {"none", "READY", "BLOCKED", "ERROR"}
  /\ args.command = "merge" /\ pc # "done" => verdict = "none"

TInv == changes \in 0 .. MaxChanges /\ Counted(changes) /\ Working

\* Each change makes one commit at most of each branch.
LEMMA OthersCounted ==
  ASSUME TInv, IInv, Others
  PROVE  TInv'
<1>1. /\ changes \in Nat /\ MaxChanges \in Nat /\ changes < MaxChanges
      /\ changes' = changes + 1 /\ UNCHANGED tool
  BY IntegrationAssumption DEF TInv, Others, Push, AdvanceMain, MergeParent, DeleteFeature,
     Toggle, Retarget, Restack, Review, Dismiss, CheckRun, Rule, Change
<1>2. Working'
  BY <1>1 DEF TInv, Working, tool
<1>3. /\ main \in Nat /\ main >= 1 /\ main <= 1 + changes
      /\ \A p \in Pulls : /\ IsPR(prs[p]) /\ prs[p].flags \subseteq Flags
                          /\ prs[p].head \in Nat /\ prs[p].head >= 1
                          /\ prs[p].head <= 1 + changes
      /\ prs = [p \in Pulls |-> prs[p]]
  BY <1>1 DEF TInv, Counted, IInv, Types, Pulls
<1>4. ASSUME main' \in {main, main + 1},
             \A p \in Pulls : /\ prs'[p].flags \subseteq Flags
                              /\ prs'[p].head \in {prs[p].head, prs[p].head + 1}
      PROVE  TInv'
  <2>1. Counted(changes)'
    BY <1>1, <1>3, <1>4 DEF Counted
  <2> QED
    BY <1>1, <1>2, <2>1 DEF TInv
<1>5. ASSUME NEW p \in Pulls, NEW q, prs' = [prs EXCEPT ![p] = q], main' = main,
             q.flags \subseteq Flags, q.head \in {prs[p].head, prs[p].head + 1}
      PROVE  TInv'
  <2>1. \A r \in Pulls : prs'[r] = IF r = p THEN q ELSE prs[r]
    BY <1>3, <1>5
  <2> QED
    BY <1>3, <1>4, <1>5, <2>1
<1>6. ASSUME NEW p \in Pulls, Push(p)
      PROVE  TInv'
  <2>1. PICK has : prs' = [prs EXCEPT ![p].head = @ + 1, ![p].has = has]
    BY <1>6 DEF Push
  <2> DEFINE q == [prs[p] EXCEPT !.head = @ + 1, !.has = has]
  <2>2. prs' = [prs EXCEPT ![p] = q]
    BY <1>3, <2>1
  <2>3. q.head = prs[p].head + 1 /\ q.flags = prs[p].flags
    BY <1>3, EditedPR
  <2> HIDE DEF q
  <2> QED
    BY <1>3, <1>5, <1>6, <2>2, <2>3 DEF Push
<1>7. CASE AdvanceMain
  BY <1>3, <1>4, <1>7 DEF AdvanceMain
<1>8. CASE MergeParent
  <2>1. PICK base : prs' = [prs EXCEPT !["parent"].flags = {"CLOSED"}, !["child"].base = base]
    BY <1>8 DEF MergeParent
  <2>2. /\ prs'["parent"].flags = {"CLOSED"} /\ prs'["child"].flags = prs["child"].flags
        /\ \A p \in Pulls : prs'[p].head = prs[p].head
    BY <1>3, <2>1 DEF Pulls, IsPR
  <2> QED
    BY <1>3, <1>4, <1>8, <2>2 DEF MergeParent, Pulls, Flags
<1>9. CASE DeleteFeature
  <2>1. \A p \in Pulls : prs'[p] = IF p = "parent" \/ prs[p].base = "feature"
                                   THEN [prs[p] EXCEPT !.flags = @ \cup {"CLOSED"}] ELSE prs[p]
    BY <1>3, <1>9 DEF DeleteFeature
  <2>2. ASSUME NEW p \in Pulls
        PROVE  /\ prs'[p].head = prs[p].head
               /\ prs'[p].flags \subseteq prs[p].flags \cup {"CLOSED"}
    <3> DEFINE closed == [prs[p] EXCEPT !.flags = @ \cup {"CLOSED"}]
    <3>1. closed.head = prs[p].head /\ closed.flags = prs[p].flags \cup {"CLOSED"}
      BY <1>3, EditedPR
    <3> HIDE DEF closed
    <3>2. prs'[p] = closed \/ prs'[p] = prs[p]
      BY <2>1 DEF closed
    <3> QED
      BY <3>1, <3>2
  <2> QED
    BY <1>3, <1>4, <1>9, <2>2 DEF DeleteFeature, Flags
<1>10. ASSUME NEW p \in Pulls, NEW flag \in Flags, Toggle(p, flag)
       PROVE  TInv'
  <2> DEFINE q == [prs[p] EXCEPT !.flags = (@ \ {flag}) \cup ({flag} \ @)]
  <2>1. prs' = [prs EXCEPT ![p] = q]
    BY <1>3, <1>10 DEF Toggle
  <2>2. q.head = prs[p].head /\ q.flags \subseteq Flags
    <3>1. /\ q.head = prs[p].head
          /\ q.flags = (prs[p].flags \ {flag}) \cup ({flag} \ prs[p].flags)
      BY <1>3, EditedPR
    <3> QED
      BY <1>3, <3>1
  <2> HIDE DEF q
  <2> QED
    BY <1>5, <1>10, <2>1, <2>2 DEF Toggle
<1>11. CASE Retarget
  <2>1. PICK base \in Refs : prs' = [prs EXCEPT !["child"].base = base]
    BY <1>11 DEF Retarget
  <2> DEFINE q == [prs["child"] EXCEPT !.base = base]
  <2>2. prs' = [prs EXCEPT !["child"] = q] /\ "child" \in Pulls
    BY <1>3, <2>1 DEF Pulls
  <2>3. q.head = prs["child"].head /\ q.flags = prs["child"].flags
    BY <1>3, <2>2, EditedPR
  <2> HIDE DEF q
  <2> QED
    BY <1>3, <1>5, <1>11, <2>2, <2>3 DEF Retarget
<1>12. CASE Restack
  <2>1. PICK stack : prs' = [prs EXCEPT !["child"].stack = stack]
    BY <1>12 DEF Restack
  <2> DEFINE q == [prs["child"] EXCEPT !.stack = stack]
  <2>2. prs' = [prs EXCEPT !["child"] = q] /\ "child" \in Pulls
    BY <1>3, <2>1 DEF Pulls
  <2>3. q.head = prs["child"].head /\ q.flags = prs["child"].flags
    BY <1>3, <2>2, EditedPR
  <2> HIDE DEF q
  <2> QED
    BY <1>3, <1>5, <1>12, <2>2, <2>3 DEF Restack
<1>13. CASE UNCHANGED <<prs, main>>
  BY <1>3, <1>4, <1>13
<1> QED
  BY <1>6, <1>7, <1>8, <1>9, <1>10, <1>11, <1>12, <1>13
  DEF Others, Pulls, Dismiss, Review, CheckRun, Rule

\* The tool's steps leave GitHub as it is, but for a merge, which is not counted.
LEMMA ToolTyped ==
  ASSUME TInv, Keep, Working'
  PROVE  TInv'
<1>1. UNCHANGED <<prs, main, changes>>
  BY DEF Keep, github
<1> QED
  BY <1>1 DEF TInv, Counted

\* A call that fails ends the command.
LEMMA ErrorTyped ==
  ASSUME Working, Error
  PROVE  Working'
BY DEF Working, Error, End, Calls

\* The order in which GitHub lists the open pull requests.
LEMMA ListOpenTyped ==
  ASSUME TInv, ListOpen
  PROVE  Working'
<1>1. CASE Error
  BY <1>1, ErrorTyped DEF TInv
<1>2. CASE ~Error
  <2> DEFINE open == {p \in Pulls : "CLOSED" \notin prs[p].flags}
  <2>1. /\ queue' \in SetToSeqs(open) /\ pc = "list" /\ UNCHANGED <<args, role, listed>>
        /\ IF queue' = <<>> THEN End("READY") ELSE pc' = "query" /\ UNCHANGED verdict
    BY <1>2 DEF ListOpen, Pulls
  <2>2. IsFiniteSet(Pulls) /\ Cardinality(Pulls) = 2
    <3>1. IsFiniteSet({"child"}) /\ Cardinality({"child"}) = 1
      BY FS_Singleton
    <3>2. IsFiniteSet({"child"} \cup {"parent"}) /\ Cardinality({"child"} \cup {"parent"}) = 2
      BY <3>1, FS_AddElement
    <3>3. Pulls = {"child"} \cup {"parent"}
      BY DEF Pulls
    <3> QED
      BY <3>2, <3>3
  <2>3. open \in SUBSET Pulls
    OBVIOUS
  <2> HIDE DEF open
  <2>4. Cardinality(open) \in Nat /\ Cardinality(open) <= 2
    BY <2>2, <2>3, FS_Subset, FS_CardinalityType
  <2>5. queue' \in [1 .. Cardinality(open) -> Pulls]
    BY <2>1, <2>3 DEF SetToSeqs
  <2>6. queue' \in Seq(Pulls) /\ Len(queue') <= 2
    BY <2>4, <2>5
  <2>7. CASE queue' = <<>>
    BY <2>1, <2>6, <2>7 DEF TInv, Working, End, Calls
  <2>8. CASE queue' # <<>>
    BY <2>1, <2>6, <2>8 DEF TInv, Working, Calls
  <2> QED
    BY <2>7, <2>8
<1> QED
  BY <1>1, <1>2

\* A decision takes the pull request in hand from the queue.
LEMMA DecideTyped ==
  ASSUME TInv, pc = "compare", Decide, UNCHANGED <<args, listed>>
  PROVE  Working'
<1> DEFINE ready == verify(snap["pull"], snap["parent"])
<1>1. IF args.command = "merge"
      THEN /\ IF ready THEN pc' = "final" /\ UNCHANGED verdict ELSE End("ERROR")
           /\ UNCHANGED <<queue, role, snap>>
      ELSE /\ verdict' = IF ready /\ verdict # "BLOCKED" THEN "READY" ELSE "BLOCKED"
           /\ queue' = Tail(queue) /\ role' = "pull"
           /\ IF queue' = <<>> THEN pc' = "done" /\ UNCHANGED snap
              ELSE pc' = "query" /\ snap' = [pull |-> Unread, parent |-> Unread]
  BY Zenon DEF Decide
<1> HIDE DEF ready
<1>2. queue # <<>> /\ queue \in Seq(Pulls) /\ Len(queue) <= 2
  BY DEF TInv, Working
<1>3. CASE args.command = "merge"
  BY <1>1, <1>2, <1>3 DEF TInv, Working, End, Calls
<1>4. CASE args.command # "merge"
  <2>1. Tail(queue) \in Seq(Pulls) /\ Len(Tail(queue)) <= 2
    BY <1>2
  <2>2. verdict' \in {"READY", "BLOCKED"} /\ queue' = Tail(queue) /\ role' = "pull"
        /\ pc' \in {"done", "query"} /\ (pc' = "query" => queue' # <<>>)
    BY <1>1, <1>4
  <2> QED
    BY <1>4, <2>1, <2>2 DEF TInv, Working, Calls
<1> QED
  BY <1>3, <1>4

\* The calls that read, and the request.
LEMMA CallsTyped ==
  ASSUME TInv, IInv,
         Start \/ Query \/ ListRulesets \/ ReadRuleset \/ Compare \/ Final \/ Put
  PROVE  Working'
<1>1. CASE Error
  BY <1>1, ErrorTyped DEF TInv
<1>2. CASE Start
  <2>1. /\ pc = "start" /\ verdict = "none" /\ pc' \in {"list", "query"}
        /\ queue' = <<"child">> /\ UNCHANGED <<role, listed, verdict>>
    BY <1>2 DEF Start, IInv, Place
  <2>2. queue' \in Seq(Pulls) /\ Len(queue') = 1 /\ queue' # <<>>
    BY <2>1 DEF Pulls
  <2> QED
    BY <2>1, <2>2 DEF TInv, Working, Calls
<1>3. CASE Query /\ ~Error
  <2>1. pc = "query" /\ pc' = "rulesets" /\ UNCHANGED <<args, queue, role, listed, verdict>>
    BY <1>3 DEF Query
  <2> QED
    BY <2>1 DEF TInv, Working, Calls
<1>4. CASE ListRulesets /\ ~Error
  BY <1>4 DEF ListRulesets, TInv, Working, Calls
<1>5. CASE ReadRuleset /\ ~Error
  <2>1. pc = "ruleset" /\ pc' \in {"compare", "ruleset"} /\ listed' \subseteq listed
        /\ UNCHANGED <<args, queue, role, verdict>>
    BY <1>5 DEF ReadRuleset
  <2> QED
    BY <2>1 DEF TInv, Working, Calls
<1>6. CASE Compare /\ ~Error
  <2>1. /\ pc = "compare" /\ UNCHANGED <<args, listed>>
        /\ \/ Decide
           \/ role' = "parent" /\ pc' = "query" /\ UNCHANGED <<queue, verdict>>
    BY <1>6, Zenon DEF Compare
  <2>2. CASE Decide
    BY <2>1, <2>2, DecideTyped
  <2>3. CASE role' = "parent" /\ pc' = "query" /\ UNCHANGED <<queue, verdict>>
    BY <2>1, <2>3 DEF TInv, Working, Calls
  <2> QED
    BY <2>1, <2>2, <2>3
<1>7. CASE Final /\ ~Error
  BY <1>7 DEF Final, TInv, Working, Calls
<1>8. CASE Put /\ ~Error
  <2>1. pc' = "done" /\ verdict' \in {"READY", "ERROR"} /\ UNCHANGED <<args, queue, role, listed>>
    BY <1>8 DEF Put, End
  <2> QED
    BY <2>1 DEF TInv, Working, Calls
<1> QED
  BY <1>1, <1>2, <1>3, <1>4, <1>5, <1>6, <1>7, <1>8

LEMMA InitTInv == Init => TInv
<1> SUFFICES ASSUME Init PROVE TInv
  OBVIOUS
<1>1. PICK base \in Refs, stack \in {NoStack, StackOn(Commit("feature", 1))} :
        prs = [child |-> PullRequest(base, stack), parent |-> PullRequest("main", NoStack)]
  BY DEF Init
<1>2. \A p \in Pulls : prs[p].flags = {} /\ prs[p].head = 1
  BY <1>1 DEF Pulls, PullRequest
<1>3. Counted(changes) /\ changes \in 0 .. MaxChanges
  BY <1>2, IntegrationAssumption DEF Init, Counted
<1>4. <<>> \in Seq(Pulls) /\ Len(<<>>) = 0
  OBVIOUS
<1>5. Working
  BY <1>4 DEF Init, Working, Calls, NoArgs
<1> QED
  BY <1>3, <1>5 DEF TInv

LEMMA StepTInv == TInv /\ IInv /\ [Next]_vars => TInv'
<1> SUFFICES ASSUME TInv, IInv, [Next]_vars PROVE TInv'
  OBVIOUS
<1>1. CASE Others
  BY <1>1, OthersCounted
<1>2. CASE ListOpen
  BY <1>2, ListOpenTyped, ToolTyped DEF ListOpen
<1>3. CASE Start \/ Query \/ ListRulesets \/ ReadRuleset \/ Compare \/ Final \/ Put
  <2>1. Keep
    BY <1>3, Zenon DEF Start, Query, ListRulesets, ReadRuleset, Compare, Final, Put
  <2> QED
    BY <1>3, <2>1, CallsTyped, ToolTyped
<1>4. CASE UNCHANGED vars
  BY <1>4 DEF vars, github, tool, TInv, Counted, Working
<1> QED
  BY <1>1, <1>2, <1>3, <1>4 DEF Next

\* Every variable keeps its type through any number of changes on GitHub; a
\* last reading and a request are those of a merge that has no verdict yet, and
\* nothing follows what was merged (command_merge, command_report_open).
THEOREM WellTyped == Spec => []TypeOK
<1>1. TInv /\ IInv => TypeOK
  <2> SUFFICES ASSUME TInv, IInv PROVE TypeOK
    OBVIOUS
  <2>1. changes \in Nat /\ MaxChanges \in Nat /\ changes <= MaxChanges
    BY IntegrationAssumption DEF TInv
  <2>2. /\ main \in 1 .. 1 + MaxChanges /\ gone \subseteq {"feature"}
        /\ \A p \in Pulls : /\ prs[p].flags \subseteq Flags /\ prs[p].base \in Refs
                            /\ prs[p].head \in 1 .. 1 + MaxChanges
    BY <2>1 DEF TInv, Counted, IInv, Types, IsPR, Pulls
  <2> QED
    BY <2>2 DEF TInv, Working, Calls, IInv, Place, Pulls, TypeOK
<1>2. Spec => []TInv
  BY InitTInv, StepTInv, Inductive, PTL DEF Spec
<1> QED
  BY <1>1, <1>2, Inductive, PTL
=============================================================================
