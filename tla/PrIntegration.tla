---------------------------- MODULE PrIntegration ----------------------------
(***************************************************************************)
(* tools/pr_integration.py: the commands report, report-open and merge, on   *)
(* two pull requests of a repository that changes between any two of their   *)
(* reads.                                                                   *)
(*                                                                         *)
(* One call of `gh' is one step.  A decision is drawn from several of them:  *)
(* the query, the list of rulesets and each of them, the comparison, all of  *)
(* these again for the parent of a stacked pull request, and before a merge  *)
(* the base branch once more.  The merge itself is guarded by GitHub with    *)
(* the expected head only.                                                  *)
(***************************************************************************)
EXTENDS Naturals, Sequences, FiniteSets, SequencesExt

CONSTANTS
  Authors,    \* reviewers
  Contexts,   \* required checks: a context with the app it is bound to, if any
  Rulings,    \* rulesets a repository may have
  RulesetIds,
  MaxChanges  \* changes made on GitHub in a run of the tool

ASSUME IntegrationAssumption ==
  /\ IsFiniteSet(Authors) /\ MaxChanges \in Nat
  /\ \A r \in Rulings : r.approvals \in Nat /\ r.checks \subseteq Contexts

VARIABLES
  prs,      \* GitHub's pull requests
  main,     \* commits of the default branch
  gone,     \* branches that were deleted
  reviews,  \* of the child
  runs,     \* check runs on the child's heads
  rulesets, \* by id
  changes,  \* made so far
  args,     \* the command and what the user expects
  pc,       \* the next call of gh, or "done"
  queue,    \* pull requests to be looked at, the one in hand first
  role,     \* what is being read: the "pull" request or its "parent"
  snap,     \* live_snapshot of both
  listed,   \* rulesets still to be read
  verdict,  \* "none", "READY", "BLOCKED" or "ERROR"
  merged,   \* what the tool's request merged
  moved,    \* history: what moved although the tool had to notice
  ever      \* history: approvals and successful runs there have been

github == <<prs, main, gone, reviews, runs, rulesets, changes>>
tool == <<args, pc, queue, role, snap, listed, verdict, merged>>
vars == <<github, tool, moved, ever>>

Flags == {"CLOSED", "DRAFT", "CONFLICT", "THREADS"}
Refs == {"main", "feature"}

Commit(ref, n) == [ref |-> ref, n |-> n]
NoCommit == Commit("none", 0)
NoStack == [base |-> "none", tested |-> NoCommit]
Malformed == [base |-> "malformed", tested |-> NoCommit]
Unread == [pr |-> "none", stack |-> NoStack]
NotMerged == [head |-> 0, into |-> "none", onto |-> NoCommit]
NoArgs == [command |-> "none", skip |-> FALSE, draft |-> FALSE, head |-> 0,
           base |-> "none", sha |-> NoCommit]

\* The target of a branch; "feature" is the parent's head branch.
Tip(ref) ==
  CASE ref \in gone -> NoCommit
    [] ref = "main" /\ ref \notin gone -> Commit("main", main)
    [] OTHER -> Commit("feature", prs["parent"].head)

\* `has' names the newest commit of each branch that a head contains.
PullRequest(base, stack) ==
  [flags |-> {}, head |-> 1, base |-> base, stack |-> stack,
   has |-> [main |-> 1, feature |-> IF base = "feature" THEN 1 ELSE 0]]
StackOn(commit) == [base |-> "feature", tested |-> commit]
Reviewed(author, head, opinion, push) ==
  [author |-> author, head |-> head, opinion |-> opinion, push |-> push, effective |-> TRUE]

Init ==
  /\ \E base \in Refs :
       prs = [child |-> PullRequest(base, IF base = "main" THEN NoStack
                                          ELSE StackOn(Commit("feature", 1))),
              parent |-> PullRequest("main", NoStack)]
  /\ main = 1 /\ gone = {} /\ changes = 0
  /\ reviews \in {{}} \cup {{Reviewed(a, 1, "APPROVED", TRUE)} : a \in Authors}
  /\ runs \in {{}, {[check |-> c, head |-> 1, success |-> TRUE] : c \in Contexts}}
  /\ ever = {[head |-> 1, by |-> r.author] : r \in reviews} \cup
              {[head |-> 1, by |-> r.check] : r \in runs}
  /\ rulesets \in [RulesetIds -> Rulings]
  /\ args = NoArgs /\ pc = "start" /\ queue = <<>> /\ role = "pull"
  /\ snap = [pull |-> Unread, parent |-> Unread]
  /\ listed = {} /\ verdict = "none" /\ merged = NotMerged /\ moved = {}

-----------------------------------------------------------------------------
(* What others do on GitHub. *)

\* Until when the tool has to notice: of a merge, a moved head until it is
\* merged and a moved base until its last reading; of a report, a parent's push
\* between the child's reading and the parent's.
Watching(part) ==
  CASE args.command = "merge" ->
         pc \notin (IF part = "head" THEN {"done"} ELSE {"put", "done"})
    [] args.command \in {"report", "report-open"} ->
         part = "base" /\ snap["pull"].stack \notin {NoStack, Malformed}
           /\ snap["parent"] = Unread
    [] OTHER -> FALSE

\* A branch's target changes, or the branch is deleted.
Moved(refs) ==
  LET base == IF args.command = "merge" THEN args.base ELSE "feature"
  IN  moved' = moved \cup {p \in {"head", "base"} :
                 Watching(p) /\ (IF p = "head" THEN "topic" ELSE base) \in refs}

Change == changes < MaxChanges /\ pc # "done" /\ changes' = changes + 1 /\ UNCHANGED tool

\* A push to a head branch, which may rebase it.
Push(p) ==
  /\ Change
  /\ p = "parent" => "feature" \notin gone
  /\ LET rebased == [main |-> IF prs[p].base = "main" THEN main
                              ELSE prs["parent"].has["main"],
                     feature |-> IF prs[p].base = "main" THEN 0 ELSE prs["parent"].head]
     IN  \E has \in {prs[p].has, rebased} :
           prs' = [prs EXCEPT ![p].head = @ + 1, ![p].has = has]
  /\ Moved({IF p = "child" THEN "topic" ELSE "feature"})
  /\ UNCHANGED <<main, gone, reviews, runs, rulesets, ever>>

AdvanceMain ==
  /\ Change
  /\ main' = main + 1
  /\ Moved({"main"})
  /\ UNCHANGED <<prs, gone, reviews, runs, rulesets, ever>>

\* The parent is merged; when its branch is deleted, the child is retargeted.
MergeParent ==
  /\ Change
  /\ "CLOSED" \notin prs["parent"].flags
  /\ main' = main + 1
  /\ \E deleted \in BOOLEAN :
       /\ gone' = gone \cup (IF deleted THEN {"feature"} ELSE {})
       /\ prs' = [prs EXCEPT !["parent"].flags = {"CLOSED"},
                             !["child"].base = IF deleted THEN "main" ELSE @]
       /\ Moved({"main"} \cup (IF deleted THEN {"feature"} ELSE {}))
  /\ UNCHANGED <<reviews, runs, rulesets, ever>>

\* The parent's branch is deleted, which closes what is based on it.
DeleteFeature ==
  /\ Change
  /\ "feature" \notin gone /\ gone' = {"feature"}
  /\ prs' = [p \in DOMAIN prs |->
               IF p = "parent" \/ prs[p].base = "feature"
               THEN [prs[p] EXCEPT !.flags = @ \cup {"CLOSED"}] ELSE prs[p]]
  /\ Moved({"feature"})
  /\ UNCHANGED <<main, reviews, runs, rulesets, ever>>

\* Edits of a pull request: its state, its base and its body.
Toggle(p, flag) ==
  /\ Change
  /\ p = "parent" => flag = "CLOSED"
  /\ flag = "CLOSED" => gone = {}
  /\ prs' = [prs EXCEPT ![p].flags = (@ \ {flag}) \cup ({flag} \ @)]
  /\ UNCHANGED <<main, gone, reviews, runs, rulesets, moved, ever>>

Retarget ==
  /\ Change
  /\ \E base \in Refs \ (gone \cup {prs["child"].base}) :
       prs' = [prs EXCEPT !["child"].base = base]
  /\ UNCHANGED <<main, gone, reviews, runs, rulesets, moved, ever>>

Restack ==
  /\ Change
  /\ \E stack \in {NoStack, Malformed} \cup
                  (IF "feature" \in gone THEN {} ELSE {StackOn(Tip("feature"))}) :
       prs' = [prs EXCEPT !["child"].stack = stack]
  /\ UNCHANGED <<main, gone, reviews, runs, rulesets, moved, ever>>

\* An author's later review is the effective one; the earlier one stays listed.
Review(author, opinion, push) ==
  /\ Change
  /\ reviews' =
       {[r EXCEPT !.effective = @ /\ r.author # author] : r \in reviews} \cup
         {Reviewed(author, prs["child"].head, opinion, push)}
  /\ ever' = IF opinion = "APPROVED" /\ push
             THEN ever \cup {[head |-> prs["child"].head, by |-> author]} ELSE ever
  /\ UNCHANGED <<prs, main, gone, runs, rulesets, moved>>

Dismiss ==
  /\ Change
  /\ \E r \in reviews :
       /\ r.opinion # "DISMISSED"
       /\ reviews' = (reviews \ {r}) \cup {[r EXCEPT !.opinion = "DISMISSED"]}
  /\ UNCHANGED <<prs, main, gone, runs, rulesets, moved, ever>>

\* A check is run, or run again, on the live head.
CheckRun(check, success) ==
  /\ Change
  /\ runs' = {r \in runs : r.check # check \/ r.head # prs["child"].head} \cup
               {[check |-> check, head |-> prs["child"].head, success |-> success]}
  /\ ever' = IF success THEN ever \cup {[head |-> prs["child"].head, by |-> check]} ELSE ever
  /\ UNCHANGED <<prs, main, gone, reviews, rulesets, moved>>

Rule(id, ruling) ==
  /\ Change
  /\ rulesets[id] # ruling /\ rulesets' = [rulesets EXCEPT ![id] = ruling]
  /\ UNCHANGED <<prs, main, gone, reviews, runs, moved, ever>>

-----------------------------------------------------------------------------
(* The policy, from the rulesets read.  Classic protection, which comes with  *)
(* the query, is one more of them.                                          *)

\* What GitHub means; "ALL" stands for every pattern the tool does not know.
Applies(r, ref) ==
  LET Matches(patterns) == \/ {"ALL", ref} \cap patterns # {}
                           \/ "DEFAULT" \in patterns /\ ref = "main"
  IN  r.active /\ Matches(r.include) /\ ~Matches(r.exclude)

\* Is a pattern of the ruleset of another form?
Unsupported(r, ref) ==
  r.include # {} /\ ~(r.include \cup r.exclude \subseteq {"DEFAULT", ref})

rule_matches_ref(r, ref) ==
  /\ ref \in r.include \/ ("DEFAULT" \in r.include /\ ref = "main")
  /\ ref \notin r.exclude

\* required_policy_from_rulesets, which looks at active branch rulesets only.
Matching(rules, ref) == {r \in rules : r.active /\ rule_matches_ref(r, ref)}
RequiredChecks(rules, ref) == UNION {r.checks : r \in Matching(rules, ref)}
RequiredApprovals(rules, ref) == Max({0} \cup {r.approvals : r \in Matching(rules, ref)})

\* The policy is not complete, or beyond what can be verified.
PolicyFails(rules, ref) ==
  \E r \in rules :
    r.active /\ (~r.complete \/ Unsupported(r, ref) \/ (rule_matches_ref(r, ref) /\ r.identity))

-----------------------------------------------------------------------------
(* verify *)

\* Mutant of exact_head_approvals: an approval of any head.
AnyHeadApprovals(s) ==
  {r.author : r \in {q \in s.reviews : q.opinion = "APPROVED" /\ q.push}}

exact_head_approvals(s) ==
  {r.author : r \in {q \in s.reviews : q.opinion = "APPROVED" /\ q.push /\ q.head = s.head}}

\* GitHub's decision, which asks for as many approvals as the policy says, of
\* any head.
Decision(approvals) ==
  LET Of(opinion) == {r \in reviews : r.effective /\ r.push /\ r.opinion = opinion}
  IN  CASE Of("CHANGES_REQUESTED") # {} -> "CHANGES_REQUESTED"
        [] Of("CHANGES_REQUESTED") = {} /\ Cardinality(Of("APPROVED")) < approvals ->
             "REVIEW_REQUIRED"
        [] OTHER -> IF Of("APPROVED") = {} THEN "none" ELSE "APPROVED"

ReviewsReady(s) ==
  LET required == RequiredApprovals(s.rules, s.base)
  IN  /\ s.decision \notin {"CHANGES_REQUESTED", "REVIEW_REQUIRED"}
      /\ required > 0 => s.decision = "APPROVED"
      /\ Cardinality(exact_head_approvals(s)) >=
           Max({required, IF s.decision = "APPROVED" THEN 1 ELSE 0})

ChecksReady(s) ==
  \A c \in RequiredChecks(s.rules, s.base) :
    [check |-> c, head |-> s.head, success |-> TRUE] \in s.runs

\* Mutant of BaseReady: the tested base is the child's, whatever the parent's is.
BaseReadyUnparented(s, p) ==
  IF s.stack = NoStack
  THEN s.base = "main" /\ s.mergeBase = s.baseOid
  ELSE /\ p # Unread /\ "CLOSED" \notin p.flags
       /\ s.base = s.stack.base /\ p.headRef = s.stack.base
       /\ s.stack.tested = s.baseOid /\ s.mergeBase = s.baseOid

\* The base: live, and for a stacked pull request its parent's live head.
BaseReady(s, p) ==
  IF s.stack = NoStack
  THEN s.base = "main" /\ s.mergeBase = s.baseOid
  ELSE /\ p # Unread /\ "CLOSED" \notin p.flags
       /\ s.base = s.stack.base /\ p.headRef = s.stack.base
       /\ s.baseOid = p.headOid /\ s.stack.tested = s.baseOid
       /\ s.mergeBase = s.baseOid

verify(s, p) ==
  /\ s.flags \subseteq (IF args.draft THEN {"DRAFT"} ELSE {})
  /\ ReviewsReady(s)
  /\ args.skip \/ ChecksReady(s)
  /\ BaseReady(s, p)

-----------------------------------------------------------------------------
(* The tool. *)

Keep == UNCHANGED <<github, moved, ever>>
End(v) == verdict' = v /\ pc' = "done"

\* IntegrationError, and whatever gh itself fails with.
Error == End("ERROR") /\ UNCHANGED <<args, queue, role, snap, listed, merged>>

\* main.  What a merge expects was copied from a report.
Start ==
  /\ pc = "start"
  /\ args' \in [command : {"report", "report-open", "merge"}, skip : BOOLEAN,
                draft : BOOLEAN, head : {prs["child"].head}, base : {prs["child"].base},
                sha : {Tip(prs["child"].base)}]
  /\ args'.command # "report" => ~args'.skip /\ ~args'.draft
  /\ pc' = IF args'.command = "report-open" THEN "list" ELSE "query"
  /\ queue' = <<"child">>
  /\ UNCHANGED <<role, snap, listed, verdict, merged>> /\ Keep

\* command_report_open
ListOpen ==
  /\ pc = "list"
  /\ \/ Error
     \/ /\ queue' \in SetToSeqs({p \in {"child", "parent"} : "CLOSED" \notin prs[p].flags})
        /\ IF queue' = <<>> THEN End("READY") ELSE pc' = "query" /\ UNCHANGED verdict
        /\ UNCHANGED <<args, role, snap, listed, merged>>
  /\ Keep

\* live_snapshot, the GraphQL query; mergeBase is what the comparison will say
\* of the two commits.  The base may be gone, there may be more of something
\* than fits a page.
Query ==
  /\ pc = "query"
  /\ LET p == IF role = "pull" THEN queue[1] ELSE "parent"
         pr == prs[p]
         child == p = "child"
         enforced == {r \in {rulesets[i] : i \in RulesetIds} : Applies(r, pr.base)}
     IN  \/ Error
         \/ /\ Tip(pr.base) # NoCommit
            /\ snap' = [snap EXCEPT ![role] =
                 [pr |-> p, flags |-> pr.flags, base |-> pr.base, baseOid |-> Tip(pr.base),
                  mergeBase |-> Commit(pr.base, pr.has[pr.base]), stack |-> pr.stack,
                  head |-> pr.head, rules |-> {},
                  headRef |-> IF child THEN "topic" ELSE "feature",
                  headOid |-> Commit(IF child THEN "topic" ELSE "feature", pr.head),
                  reviews |-> IF child THEN reviews ELSE {},
                  runs |-> IF child THEN {r \in runs : r.head = pr.head} ELSE {},
                  decision |-> IF child
                               THEN Decision(Max({0} \cup {r.approvals : r \in enforced}))
                               ELSE "none"]]
            /\ pc' = "rulesets"
            /\ UNCHANGED <<args, queue, role, listed, verdict, merged>>
  /\ Keep

\* live_rulesets, the list, then each of the rulesets on it.
ListRulesets ==
  /\ pc = "rulesets"
  /\ \/ Error
     \/ /\ listed' = RulesetIds /\ pc' = IF RulesetIds = {} THEN "compare" ELSE "ruleset"
        /\ UNCHANGED <<args, queue, role, snap, verdict, merged>>
  /\ Keep

ReadRuleset ==
  /\ pc = "ruleset"
  /\ \/ Error
     \/ \E i \in listed :
          /\ listed' = listed \ {i}
          /\ snap' = [snap EXCEPT ![role].rules = @ \cup {rulesets[i]}]
          /\ pc' = IF listed' = {} THEN "compare" ELSE "ruleset"
          /\ UNCHANGED <<args, queue, role, verdict, merged>>
  /\ Keep

\* command_merge compares what was read with what the user expects.
Expected(s) ==
  args.command = "merge" =>
    s.head = args.head /\ s.base = args.base /\ s.baseOid = args.sha

\* report, report-open and merge, once both snapshots are there.
Decide ==
  LET ready == verify(snap["pull"], snap["parent"])
  IN  IF args.command = "merge"
      THEN /\ IF ready THEN pc' = "final" /\ UNCHANGED verdict ELSE End("ERROR")
           /\ UNCHANGED <<queue, role, snap>>
      ELSE /\ verdict' = IF ready /\ verdict # "BLOCKED" THEN "READY" ELSE "BLOCKED"
           /\ queue' = Tail(queue) /\ role' = "pull"
           /\ IF queue' = <<>> THEN pc' = "done" /\ UNCHANGED snap
              ELSE pc' = "query" /\ snap' = [pull |-> Unread, parent |-> Unread]

\* live_snapshot, from the policy to its return; a stack needs its parent.
Compare ==
  /\ pc = "compare"
  /\ LET s == snap[role]
         fails == \/ PolicyFails(s.rules, s.base) \/ s.stack = Malformed
                  \/ role = "pull" /\ ~Expected(s)
     IN  \/ Error
         \/ /\ ~fails
            /\ IF role = "pull" /\ s.stack # NoStack
               THEN /\ role' = "parent" /\ pc' = "query"
                    /\ UNCHANGED <<queue, snap, verdict>>
               ELSE Decide
            /\ UNCHANGED <<args, listed, merged>>
  /\ Keep

\* Mutant of Final: the base is resolved but not compared.
FinalUncompared ==
  /\ pc = "final"
  /\ \/ Error
     \/ pc' = "put" /\ UNCHANGED <<args, queue, role, snap, listed, verdict, merged>>
  /\ Keep

\* live_ref_oid, after every other read.
Final ==
  /\ pc = "final"
  /\ \/ Error
     \/ /\ Tip(args.base) = args.sha
        /\ pc' = "put" /\ UNCHANGED <<args, queue, role, snap, listed, verdict, merged>>
  /\ Keep

\* Mutant of Put: without an answer the request is made again.
PutAgain ==
  /\ pc = "put"
  /\ \/ Error
     \/ LET pr == prs["child"]
        IN  /\ pr.head = args.head /\ {"CLOSED", "DRAFT", "CONFLICT"} \cap pr.flags = {}
            /\ merged' = [head |-> pr.head, into |-> pr.base, onto |-> Tip(pr.base)]
            /\ End("READY") \/ UNCHANGED <<pc, verdict>>
            /\ UNCHANGED <<args, queue, role, snap, listed>>
  /\ Keep

\* The request, with the expected head: GitHub merges, or refuses, and the
\* answer may be lost.
Put ==
  /\ pc = "put"
  /\ \/ Error
     \/ LET pr == prs["child"]
        IN  /\ pr.head = args.head /\ {"CLOSED", "DRAFT", "CONFLICT"} \cap pr.flags = {}
            /\ merged' = [head |-> pr.head, into |-> pr.base, onto |-> Tip(pr.base)]
            /\ End("READY") \/ End("ERROR")
            /\ UNCHANGED <<args, queue, role, snap, listed>>
  /\ Keep

Others ==
  \/ \E p \in {"child", "parent"} : Push(p)
  \/ AdvanceMain \/ MergeParent \/ DeleteFeature
  \/ \E p \in {"child", "parent"}, flag \in Flags : Toggle(p, flag)
  \/ Retarget \/ Restack \/ Dismiss
  \/ \E a \in Authors, o \in {"APPROVED", "CHANGES_REQUESTED"}, push \in BOOLEAN :
       Review(a, o, push)
  \/ \E c \in Contexts, success \in BOOLEAN : CheckRun(c, success)
  \/ \E i \in RulesetIds, r \in Rulings : Rule(i, r)

Next ==
  \/ Others
  \/ Start \/ ListOpen \/ Query \/ ListRulesets \/ ReadRuleset
  \/ Compare \/ Final \/ Put

Spec == Init /\ [][Next]_vars

-----------------------------------------------------------------------------
(* Properties. *)

\* Every variable keeps its type; a final reading and a request are a merge's,
\* and nothing follows what was merged.
TypeOK ==
  /\ \A p \in {"child", "parent"} :
       /\ prs[p].flags \subseteq Flags /\ prs[p].head \in 1 .. 1 + MaxChanges
       /\ prs[p].base \in Refs
  /\ main \in 1 .. 1 + MaxChanges /\ gone \subseteq {"feature"}
  /\ pc \in {"start", "list", "query", "rulesets", "ruleset", "compare", "final", "put", "done"}
  /\ Len(queue) <= 2 /\ role \in {"pull", "parent"} /\ listed \subseteq RulesetIds
  /\ verdict \in {"none", "READY", "BLOCKED", "ERROR"}
  /\ pc \in {"final", "put"} => args.command = "merge" /\ verdict = "none"
  /\ merged # NotMerged => pc = "done"

\* What was merged has, for this very head, as many approvals by reviewers who
\* can push as every ruleset asks that was in force when it was read, and a
\* successful run of each of its checks: whatever was pushed, reviewed and run
\* between the reads (verify, exact_head_approvals, the `sha' of the request).
EvidenceOfMergedHead ==
  merged # NotMerged =>
    \A r \in snap["pull"].rules :
      Applies(r, snap["pull"].base) =>
        /\ \A c \in r.checks : [head |-> merged.head, by |-> c] \in ever
        /\ Cardinality({a \in Authors : [head |-> merged.head, by |-> a] \in ever})
             >= r.approvals

\* Nothing is merged when, since the user's report, the head was pushed to at
\* any time or the expected base advanced or disappeared before its last
\* reading.
StaleIsBlocked == merged # NotMerged => moved = {}

\* A stacked pull request is ready only when its parent's branch was the same
\* at both readings, the child's and the parent's.
ReadyOnLiveParent ==
  args.command = "report" /\ verdict = "READY" /\ snap["pull"].stack # NoStack => moved = {}

\* What is merged goes into the base the user named, which the last reading
\* "guards" as GitHub guards the head (docs/pull-request-integration.md).
MergedIntoExpectedBase == merged # NotMerged => merged.into = args.base
=============================================================================
