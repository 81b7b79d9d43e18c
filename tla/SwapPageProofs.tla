--------------------------- MODULE SwapPageProofs ---------------------------
(***************************************************************************)
(* What the page of a swap keeps for any swaps and notionals, whatever the *)
(* order its queries are answered in, and whoever else acts.               *)
(***************************************************************************)
EXTENDS SwapPage, TLAPS

-----------------------------------------------------------------------------
(* Queries under way.                                                      *)

LEMMA AddToBag ==
  ASSUME NEW B, NEW x
  PROVE  BagToSet(BagAdd(B, x)) = BagToSet(B) \union {x}
BY DEF BagToSet, BagAdd

LEMMA RemoveFromBag ==
  ASSUME NEW B, NEW x
  PROVE  /\ BagToSet(BagRemove(B, x)) \subseteq BagToSet(B)
         /\ BagToSet(B) \ {x} \subseteq BagToSet(BagRemove(B, x))
BY DEF BagToSet, BagRemove

LEMMA NothingAsked == BagToSet(EmptyBag) = {}
BY DEF BagToSet, EmptyBag, SetToBag

\* The query for workflows that a run of the effect asks.
WorkflowQuery(status, notional) ==
  Query("workflow", IF status = "Active" THEN notional ELSE None)

LEMMA AskAdds ==
  ASSUME NEW q, NEW status, NEW notional
  PROVE  BagToSet(Ask(q, status, notional)) =
           BagToSet(q) \union {WorkflowQuery(status, notional), Query("unwind", None)}
<1> DEFINE w == Query("workflow", IF status = "Active" THEN notional ELSE None)
<1>1. BagToSet(BagAdd(q, w)) = BagToSet(q) \union {w}
  BY AddToBag
<1>2. BagToSet(BagAdd(BagAdd(q, w), Query("unwind", None))) =
        BagToSet(BagAdd(q, w)) \union {Query("unwind", None)}
  BY AddToBag
<1> QED
  BY <1>1, <1>2 DEF Ask, WorkflowQuery

\* A run of the effect adds two queries, and there is one when the status changed.
LEMMA RerunAdds ==
  ASSUME NEW q, NEW refetch, Reruns(q, refetch)
  PROVE  /\ BagToSet(q) \subseteq BagToSet(asked')
         /\ BagToSet(asked') \subseteq
              BagToSet(q) \union {WorkflowQuery(swapStatus', legs'.notional), Query("unwind", None)}
         /\ swapStatus' # swapStatus =>
              WorkflowQuery(swapStatus', legs'.notional) \in BagToSet(asked')
BY AskAdds DEF Reruns

\* Whatever is asked was asked before, is asked by a run of the effect, or has
\* become an answer.
Explained(x) ==
  \/ x \in BagToSet(asked)
  \/ x \in {WorkflowQuery(swapStatus', legs'.notional), Query("unwind", None)}
  \/ \E q \in BagToSet(asked) : ~q.answered /\ \E a \in Answers(q) : x = Answered(q, a)

LEMMA StepsExplained ==
  ASSUME [Next]_vars
  PROVE  \A x \in BagToSet(asked') : Explained(x)
<1>1. ASSUME UNCHANGED asked
      PROVE  \A x \in BagToSet(asked') : Explained(x)
  BY <1>1 DEF Explained
<1>2. ASSUME NEW refetch, Reruns(asked, refetch)
      PROVE  \A x \in BagToSet(asked') : Explained(x)
  BY <1>2, RerunAdds DEF Explained
<1>3. ASSUME NEW q \in BagToSet(asked), QueryAnswered(q)
      PROVE  \A x \in BagToSet(asked') : Explained(x)
  <2>1. PICK a \in Answers(q) : asked' = BagAdd(BagRemove(asked, q), Answered(q, a))
    BY <1>3 DEF QueryAnswered
  <2>2. BagToSet(asked') \subseteq BagToSet(asked) \union {Answered(q, a)}
    BY <2>1, AddToBag, RemoveFromBag
  <2>3. ~q.answered
    BY <1>3 DEF QueryAnswered
  <2> QED
    BY <2>2, <2>3 DEF Explained
<1>4. ASSUME NEW q \in BagToSet(asked), ShowWorkflow(q) \/ ShowUnwind(q) \/ QueryFails(q)
      PROVE  \A x \in BagToSet(asked') : Explained(x)
  <2>1. Reruns(BagRemove(asked, q), FALSE) \/ asked' = BagRemove(asked, q)
    BY <1>4 DEF ShowWorkflow, ShowUnwind, QueryFails
  <2> QED
    BY <2>1, RerunAdds, RemoveFromBag DEF Explained
<1>5. ASSUME Returns
      PROVE  \A x \in BagToSet(asked') : Explained(x)
  BY <1>2, <1>5 DEF Returns, Accepted, Declined, Refetches
<1> QED
  BY <1>1, <1>2, <1>3, <1>4, <1>5
  DEF Next, vars, HydrateWorkflow, RoleAnswered, ShowProposal, EnterWhatIf, EditNotional,
      ToggleDirection, ExitWhatIf,
      Click, Lands, Refused, Elsewhere

-----------------------------------------------------------------------------
(* Type correctness.                                                       *)

LEMMA InitTypeOK == Init => TypeOK
<1> SUFFICES ASSUME Init PROVE TypeOK
  OBVIOUS
<1>1. BagToSet(asked) = {WorkflowQuery("Proposed", DefaultNotional), Query("unwind", None)}
  BY AskAdds, NothingAsked DEF Init
<1>2. AskedTyped
  BY <1>1 DEF AskedTyped, WorkflowQuery, Query, Queries, Notionals
<1>3. ViewTyped /\ CallTyped
  BY PageAssumption DEF Init, ViewTyped, CallTyped, NoCall, Legs, Notionals, Unwinding
<1> QED
  BY <1>2, <1>3, PageAssumption DEF Init, TypeOK

LEMMA LegsTyped == \A s \in Swaps : LegsOf(s) \in Legs /\ ProposalLegs(s) \in Legs
BY DEF LegsOf, ProposalLegs, Legs, Notionals

\* What the ledger answers.
LEMMA AnswersTyped ==
  ASSUME TypeOK, NEW q
  PROVE  Answers(q) \subseteq (IF q.kind = "workflow" THEN Swaps ELSE Unwinds) \union {None}
<1>1. \A notional : Match(notional) \subseteq Swaps
  BY DEF Match, Alike, Live
<1>2. unwinds \subseteq Unwinds
  BY DEF TypeOK
<1> QED
  BY <1>1, <1>2 DEF Answers, Found

LEMMA NextViewTyped ==
  ASSUME TypeOK, [Next]_vars
  PROVE  ViewTyped'
<1> USE DEF TypeOK, ViewTyped
<1>1. ASSUME NEW q \in BagToSet(asked), ShowWorkflow(q) PROVE ViewTyped'
  <2>1. q.answer \in Swaps \union {None}
    BY <1>1 DEF AskedTyped, ShowWorkflow
  <2> QED
    BY <1>1, <2>1 DEF ShowWorkflow, Resolve, view
<1>2. ASSUME NEW q \in BagToSet(asked), ShowUnwind(q) PROVE ViewTyped'
  <2>1. q.answer \in Unwinds \union {None}
    BY <1>2 DEF AskedTyped, ShowUnwind
  <2> QED
    BY <1>2, <2>1 DEF ShowUnwind
<1>3. ASSUME NEW q \in BagToSet(asked), QueryFails(q) PROVE ViewTyped'
  BY <1>3 DEF QueryFails
<1>4. CASE HydrateWorkflow
  BY <1>4, LegsTyped DEF HydrateWorkflow, Hydrated
<1>5. CASE ShowProposal
  BY <1>5, LegsTyped DEF ShowProposal, Hydrated
<1>6. CASE EnterWhatIf
  BY <1>6 DEF EnterWhatIf
<1>7. ASSUME NEW n \in Notionals, EditNotional(n) PROVE ViewTyped'
  BY <1>7 DEF EditNotional, Legs
<1>8. CASE ToggleDirection
  <2>1. \A l \in Legs : [l EXCEPT !.flipped = ~l.flipped] \in Legs
    BY DEF Legs
  <2> QED
    BY <1>8, <2>1 DEF ToggleDirection
<1>9. CASE ExitWhatIf
  BY <1>9 DEF ExitWhatIf
<1>10. CASE Returns
  <2>1. call.choice = "accept" => call.on \in Swaps
    BY DEF CallTyped
  <2> QED
    BY <1>10, <2>1, PageAssumption DEF Returns, Accepted, Declined, Refetches
<1>11. ASSUME UNCHANGED view PROVE ViewTyped'
  BY <1>11 DEF view
<1> QED
  BY <1>1, <1>2, <1>3, <1>4, <1>5, <1>6, <1>7, <1>8, <1>9, <1>10, <1>11
  DEF Next, vars, QueryAnswered, RoleAnswered, Click, Lands, Refused, Elsewhere

LEMMA NextAskedTyped ==
  ASSUME TypeOK, ViewTyped', [Next]_vars
  PROVE  AskedTyped'
<1> SUFFICES ASSUME NEW x \in BagToSet(asked')
             PROVE  /\ x \in Queries
                    /\ x.answer \in (IF x.kind = "workflow" THEN Swaps ELSE Unwinds) \union {None}
  BY DEF AskedTyped, Queries, Unwinds, Notionals
<1>1. Explained(x)
  BY StepsExplained
<1>2. CASE x \in BagToSet(asked)
  BY <1>2 DEF TypeOK, AskedTyped
<1>3. CASE x \in {WorkflowQuery(swapStatus', legs'.notional), Query("unwind", None)}
  <2>1. \A kind \in {"workflow", "unwind"}, match \in Notionals \union {0, None} :
          Query(kind, match) \in Queries /\ Query(kind, match).answer = None
    BY DEF Query, Queries
  <2>2. legs'.notional \in Notionals \union {0}
    BY DEF ViewTyped, Legs
  <2> QED
    BY <1>3, <2>1, <2>2 DEF WorkflowQuery
<1>4. CASE \E q \in BagToSet(asked) : ~q.answered /\ \E a \in Answers(q) : x = Answered(q, a)
  <2>1. PICK q \in BagToSet(asked) : \E a \in Answers(q) : x = Answered(q, a)
    BY <1>4
  <2>2. PICK a \in Answers(q) : x = Answered(q, a)
    BY <2>1
  <2>3. q.kind \in {"workflow", "unwind"}
    BY DEF TypeOK, AskedTyped, Queries
  <2>4. a \in (IF q.kind = "workflow" THEN Swaps ELSE Unwinds) \union {None}
    BY AnswersTyped
  <2> QED
    BY <2>2, <2>3, <2>4 DEF Answered, Query, Queries
<1> QED
  BY <1>1, <1>2, <1>3, <1>4 DEF Explained

LEMMA NextTypeOK == TypeOK /\ [Next]_vars => TypeOK'
<1> SUFFICES ASSUME TypeOK, [Next]_vars PROVE TypeOK'
  OBVIOUS
<1>1. ViewTyped' /\ AskedTyped'
  BY NextViewTyped, NextAskedTyped
<1>2. CallTyped'
  <2>1. ASSUME NEW choice, Click(choice) PROVE CallTyped'
    <3>1. choice \in Offered /\ call' = [choice |-> choice, on |-> Target(choice), answer |-> "none"]
      BY <2>1 DEF Click
    <3>2. CASE pendingUnwind # None
      BY <3>1, <3>2 DEF Offered, Target, Unwinding, CallTyped, TypeOK, ViewTyped
    <3>3. CASE pendingUnwind = None
      BY <3>1, <3>3 DEF Offered, Target, Unwinding, CallTyped, TypeOK, ViewTyped
    <3> QED
      BY <3>2, <3>3
  <2>2. CASE Lands
    BY <2>2 DEF Lands, CallTyped, TypeOK
  <2>3. CASE call' = NoCall
    BY <2>3 DEF NoCall, CallTyped, Unwinding
  <2>4. CASE UNCHANGED call
    BY <2>4 DEF CallTyped, TypeOK
  <2> QED
    BY <2>1, <2>2, <2>3, <2>4
    DEF Next, vars, QueryAnswered, ShowWorkflow, ShowUnwind, QueryFails, HydrateWorkflow, RoleAnswered,
        ShowProposal, EnterWhatIf, EditNotional, ToggleDirection, ExitWhatIf, Refused, Returns,
        Elsewhere
<1>3. life' \in [Swaps -> {"open", "live", "over"}] /\ unwinds' \subseteq Unwinds
  <2> USE DEF TypeOK
  <2>1. ASSUME Lands PROVE life' \in [Swaps -> {"open", "live", "over"}] /\ unwinds' \subseteq Unwinds
    BY <2>1 DEF Lands, Exercised, Becomes, ledger, CallTyped, Unwinds
  <2>2. ASSUME Elsewhere PROVE life' \in [Swaps -> {"open", "live", "over"}] /\ unwinds' \subseteq Unwinds
    BY <2>2 DEF Elsewhere, Becomes
  <2>3. ASSUME UNCHANGED ledger PROVE life' \in [Swaps -> {"open", "live", "over"}] /\ unwinds' \subseteq Unwinds
    BY <2>3 DEF ledger
  <2> QED
    BY <2>1, <2>2, <2>3
    DEF Next, vars, QueryAnswered, ShowWorkflow, ShowUnwind, QueryFails, HydrateWorkflow, RoleAnswered,
        ShowProposal, EnterWhatIf, EditNotional, ToggleDirection, ExitWhatIf, Click, Refused, Returns
<1>4. UNCHANGED address
  BY DEF Next, vars, QueryAnswered, ShowWorkflow, ShowUnwind, QueryFails, HydrateWorkflow, RoleAnswered,
         ShowProposal, EnterWhatIf, EditNotional, ToggleDirection, ExitWhatIf, Click, Lands, Refused,
         Returns, Elsewhere
<1>5. roleQuery' \in {"sent", "found", "over"}
  BY DEF TypeOK, Next, vars, QueryAnswered, ShowWorkflow, ShowUnwind, QueryFails, HydrateWorkflow,
         RoleAnswered, ShowProposal, EnterWhatIf, EditNotional, ToggleDirection, ExitWhatIf, Click,
         Lands, Refused,
         Returns, Elsewhere
<1>6. reviewed' \in BOOLEAN
  BY DEF TypeOK, Next, vars, QueryAnswered, ShowWorkflow, ShowUnwind, QueryFails, HydrateWorkflow,
         RoleAnswered, ShowProposal, EnterWhatIf, EditNotional, ToggleDirection, ExitWhatIf, Click,
         Lands, Exercised,
         Refused, Returns, Elsewhere
<1>7. events' \subseteq {"failure", "edit", "flip", "scenario", "other"}
  BY DEF TypeOK, Next, vars, QueryAnswered, ShowWorkflow, ShowUnwind, QueryFails, HydrateWorkflow,
         RoleAnswered, ShowProposal, EnterWhatIf, EditNotional, ToggleDirection, ExitWhatIf, Click,
         Lands, Refused,
         Returns, Elsewhere, Happens
<1> QED
  BY <1>1, <1>2, <1>3, <1>4, <1>5, <1>6, <1>7 DEF TypeOK, address

\* Each of the page's variables keeps its type, whatever is answered and by whom
\* the ledger is changed.
THEOREM TypeCorrect == Spec => []TypeOK
BY InitTypeOK, NextTypeOK, PTL DEF Spec

-----------------------------------------------------------------------------
(* How far the page is.                                                    *)

Deciding == {"accept", "reject", "withdraw"}

\* A role is found, and a decision sent, on a proposal's page before its status
\* changes; until that is Active such a page looks for no workflow.
Phases ==
  /\ roleQuery # "over" => byProposal /\ proposalRole = None /\ swapStatus = "Proposed"
  /\ proposalRole # None => byProposal /\ swapStatus = "Proposed" /\ roleQuery = "over"
  /\ call.choice \in Deciding =>
       byProposal /\ swapStatus = "Proposed" /\ roleQuery = "over" /\ call.on = opened
  /\ ~byProposal => swapStatus # "Terminated"
  /\ byProposal /\ swapStatus # "Active" =>
       \A q \in BagToSet(asked) : q.kind = "workflow" => q.match = None /\ q.answer = None
  /\ resolvedWorkflow # None => swapStatus = "Active" /\ workflowContractId = resolvedWorkflow
  /\ swapStatus = "Active" /\ ~byProposal => resolvedWorkflow # None
  /\ lastHydratedKey # None => resolvedWorkflow # None

LEMMA InitPhases == Init => Phases
<1> SUFFICES ASSUME Init PROVE Phases
  OBVIOUS
<1>1. BagToSet(asked) = {WorkflowQuery("Proposed", DefaultNotional), Query("unwind", None)}
  BY AskAdds, NothingAsked DEF Init
<1>2. \A q \in BagToSet(asked) : q.kind = "workflow" => q.match = None /\ q.answer = None
  BY <1>1 DEF WorkflowQuery, Query
<1> QED
  BY <1>2 DEF Init, Phases, NoCall, Deciding

\* A page of a proposal that is not Active gets no answer about workflows.
LEMMA NoWorkflowSought ==
  ASSUME Phases, byProposal, swapStatus # "Active", NEW q \in BagToSet(asked), q.kind = "workflow"
  PROVE  Answers(q) = {None}
<1>1. q.match = None
  BY DEF Phases
<1>2. Match(None) = {}
  BY DEF Match
<1> QED
  BY <1>1, <1>2 DEF Answers, Found

LEMMA NextPhases ==
  ASSUME TypeOK, Phases, [Next]_vars
  PROVE  Phases'
<1> USE DEF Phases
<1> DEFINE Sought == byProposal /\ swapStatus # "Active" =>
                       \A q \in BagToSet(asked) :
                         q.kind = "workflow" => q.match = None /\ q.answer = None
           Rest == /\ roleQuery # "over" => byProposal /\ proposalRole = None /\ swapStatus = "Proposed"
                   /\ proposalRole # None => byProposal /\ swapStatus = "Proposed" /\ roleQuery = "over"
                   /\ call.choice \in Deciding =>
                        byProposal /\ swapStatus = "Proposed" /\ roleQuery = "over" /\ call.on = opened
                   /\ ~byProposal => swapStatus # "Terminated"
                   /\ resolvedWorkflow # None =>
                        swapStatus = "Active" /\ workflowContractId = resolvedWorkflow
                   /\ swapStatus = "Active" /\ ~byProposal => resolvedWorkflow # None
                   /\ lastHydratedKey # None => resolvedWorkflow # None
<1>1. UNCHANGED address
  BY DEF Next, vars, QueryAnswered, ShowWorkflow, ShowUnwind, QueryFails, HydrateWorkflow, RoleAnswered,
         ShowProposal, EnterWhatIf, EditNotional, ToggleDirection, ExitWhatIf, Click, Lands, Refused,
         Returns, Elsewhere
<1>2. Rest'
  <2> USE <1>1 DEF address
  <2>1. ASSUME NEW q \in BagToSet(asked), ShowWorkflow(q) PROVE Rest'
    <3>1. CASE q.answer = None
      BY <2>1, <3>1 DEF ShowWorkflow, view
    <3>2. CASE q.answer # None
      <4>1. q.kind = "workflow" /\ ~(byProposal /\ swapStatus # "Active")
        BY <2>1, <3>2 DEF ShowWorkflow
      <4>2. q.answer \in Swaps /\ Resolve(q.answer) /\ UNCHANGED <<roleQuery, call>>
        BY <2>1, <3>2, <4>1 DEF ShowWorkflow, TypeOK, AskedTyped
      <4>3. roleQuery = "over" /\ call.choice \notin Deciding
        BY <4>1
      <4> QED
        BY <4>2, <4>3, <3>2 DEF Resolve
    <3> QED
      BY <3>1, <3>2
  <2>2. ASSUME NEW q, ShowUnwind(q) \/ QueryFails(q) PROVE Rest'
    BY <2>2 DEF ShowUnwind, QueryFails
  <2>3. CASE HydrateWorkflow
    BY <2>3 DEF HydrateWorkflow
  <2>4. CASE RoleAnswered
    BY <2>4 DEF RoleAnswered, view
  <2>5. CASE ShowProposal
    BY <2>5 DEF ShowProposal
  <2>6. ASSUME NEW n, EnterWhatIf \/ EditNotional(n) \/ ToggleDirection \/ ExitWhatIf PROVE Rest'
    BY <2>6 DEF EnterWhatIf, EditNotional, ToggleDirection, ExitWhatIf
  <2>7. ASSUME NEW choice, Click(choice) PROVE Rest'
    <3>1. choice \in Deciding => proposalRole # None /\ Target(choice) = opened
      BY <2>7, PageAssumption DEF Click, Deciding, Offered, Target
    <3> QED
      BY <2>7, <3>1 DEF Click, view
  <2>8. CASE Lands
    BY <2>8 DEF Lands, view
  <2>9. CASE Refused
    BY <2>9 DEF Refused, view, NoCall, Deciding
  <2>10. CASE Returns
    <3>1. resolvedWorkflow' = resolvedWorkflow /\ lastHydratedKey' = lastHydratedKey
          /\ roleQuery' = roleQuery /\ call' = NoCall
      BY <2>10 DEF Returns
    <3>2. call'.choice \notin Deciding
      BY <3>1 DEF NoCall, Deciding
    <3>3. CASE call.choice \in Deciding
      <4>1. resolvedWorkflow = None /\ roleQuery = "over" /\ byProposal
        BY <3>3
      <4>2. proposalRole' = None
        BY <2>10, <3>3 DEF Returns, Deciding
      <4> QED
        BY <3>1, <3>2, <4>1, <4>2
    <3>4. CASE call.choice \notin Deciding
      <4>1. UNCHANGED <<swapStatus, workflowContractId, proposalRole>>
        BY <2>10, <3>4 DEF Returns, Deciding, Accepted, Declined, Refetches
      <4> QED
        BY <3>1, <3>2, <4>1
    <3> QED
      BY <3>3, <3>4
  <2>11. ASSUME UNCHANGED <<view, roleQuery, call>> PROVE Rest'
    BY <2>11 DEF view
  <2> QED
    BY <2>1, <2>2, <2>3, <2>4, <2>5, <2>6, <2>7, <2>8, <2>9, <2>10, <2>11
    DEF Next, vars, QueryAnswered, Elsewhere
<1>3. Sought'
  <2> SUFFICES ASSUME byProposal, swapStatus' # "Active", NEW x \in BagToSet(asked'), x.kind = "workflow"
               PROVE  x.match = None /\ x.answer = None
    BY <1>1 DEF address
  <2>1. swapStatus # "Active"
    BY DEF Next, vars, view, QueryAnswered, ShowWorkflow, Resolve, ShowUnwind, QueryFails,
           HydrateWorkflow, RoleAnswered, ShowProposal, EnterWhatIf, EditNotional, ToggleDirection,
           ExitWhatIf, Click,
           Lands, Refused, Returns, Accepted, Declined, Refetches, Elsewhere, Deciding
  <2>2. Explained(x)
    BY StepsExplained
  <2>3. CASE x \in BagToSet(asked)
    BY <2>1, <2>3
  <2>4. CASE x \in {WorkflowQuery(swapStatus', legs'.notional), Query("unwind", None)}
    BY <2>4 DEF WorkflowQuery, Query
  <2>5. ASSUME NEW q \in BagToSet(asked), NEW a \in Answers(q), x = Answered(q, a)
        PROVE  x.match = None /\ x.answer = None
    <3>1. q.kind = "workflow" /\ x.match = None /\ x.answer = a
      BY <2>5 DEF Answered, Query
    <3> QED
      BY <2>1, <2>5, <3>1, NoWorkflowSought
  <2> QED
    BY <2>2, <2>3, <2>4, <2>5 DEF Explained
<1> QED
  BY <1>2, <1>3

-----------------------------------------------------------------------------
(* What the page shows.                                                    *)

\* The legs of the page but for the scenario.
Base == IF mode = "whatif" THEN whatIfOriginal ELSE legs

\* Unless the last terms came during What-If, they are there.
Shown ==
  ~missed =>
    /\ proposalRole # None /\ opened \notin Xccy => Base \in Faces(opened)
    /\ lastHydratedKey # None => Base \in Faces(lastHydratedKey) /\ legs.of = lastHydratedKey

LEMMA InitShown == Init => Shown
BY DEF Init, Shown

LEMMA FacesStay ==
  ASSUME [Next]_vars, NEW s
  PROVE  Faces(s) \subseteq Faces(s)'
<1>1. events \subseteq events'
  BY DEF Next, vars, QueryAnswered, ShowWorkflow, ShowUnwind, QueryFails, HydrateWorkflow, RoleAnswered,
         ShowProposal, EnterWhatIf, EditNotional, ToggleDirection, ExitWhatIf, Click, Lands, Refused,
         Returns, Elsewhere, Happens
<1> QED
  BY <1>1 DEF Faces, LegsOf

\* A face has two sides, of the same swap.
LEMMA FacesTurn ==
  ASSUME NEW s, NEW face \in Faces(s)
  PROVE  /\ face.of = s
         /\ [face EXCEPT !.flipped = ~face.flipped] \in
              {LegsOf(s), [LegsOf(s) EXCEPT !.flipped = TRUE]}
<1>1. CASE face = LegsOf(s)
  BY <1>1 DEF LegsOf
<1>2. CASE face = [LegsOf(s) EXCEPT !.flipped = TRUE]
  <2>1. face = [of |-> s, notional |-> Notional[s], flipped |-> TRUE]
    BY <1>2 DEF LegsOf
  <2>2. [face EXCEPT !.flipped = ~face.flipped] = [of |-> s, notional |-> Notional[s], flipped |-> ~TRUE]
    BY <2>1
  <2>3. [face EXCEPT !.flipped = ~face.flipped] = LegsOf(s)
    BY <2>2 DEF LegsOf
  <2> QED
    BY <2>1, <2>3
<1> QED
  BY <1>1, <1>2 DEF Faces

LEMMA NextShown ==
  ASSUME TypeOK, Phases, Shown, [Next]_vars
  PROVE  Shown'
<1> DEFINE Same == UNCHANGED <<missed, proposalRole, lastHydratedKey>>
<1>1. UNCHANGED opened
  BY DEF address, Next, vars, QueryAnswered, ShowWorkflow, ShowUnwind, QueryFails, HydrateWorkflow,
         RoleAnswered, ShowProposal, EnterWhatIf, EditNotional, ToggleDirection, ExitWhatIf, Click,
         Lands,
         Refused, Returns, Elsewhere
<1>2. CASE HydrateWorkflow
  <2>1. proposalRole' = None
    BY <1>2 DEF HydrateWorkflow, Phases
  <2>2. /\ lastHydratedKey' = resolvedWorkflow /\ missed' = (mode = "whatif") /\ mode' = mode
        /\ legs' = Hydrated(LegsOf(resolvedWorkflow))
    BY <1>2 DEF HydrateWorkflow
  <2>3. /\ LegsOf(resolvedWorkflow) \in Faces(resolvedWorkflow)'
        /\ LegsOf(resolvedWorkflow).of = resolvedWorkflow
    BY <1>2 DEF HydrateWorkflow, Faces, LegsOf
  <2>4. ~missed' => {Base', legs'} = {LegsOf(resolvedWorkflow)}
    BY <2>2 DEF Hydrated, Base
  <2>5. Faces(lastHydratedKey)' = Faces(resolvedWorkflow)'
    BY <1>2 DEF HydrateWorkflow, Faces, LegsOf
  <2> QED
    BY <2>1, <2>2, <2>3, <2>4, <2>5 DEF Shown
<1>3. CASE ShowProposal
  <2>1. lastHydratedKey' = None
    BY <1>3 DEF ShowProposal, Phases
  <2>2. legs' = Hydrated(ProposalLegs(opened)) /\ mode' = mode /\ missed' = (mode = "whatif")
    BY <1>3 DEF ShowProposal
  <2>3. ~missed' /\ opened \notin Xccy => Base' = LegsOf(opened)
    BY <2>2 DEF Hydrated, Base, ProposalLegs
  <2>4. LegsOf(opened) \in Faces(opened)'
    BY <1>1 DEF Faces, LegsOf
  <2> QED
    BY <1>1, <2>1, <2>3, <2>4 DEF Shown
<1>4. ASSUME UNCHANGED <<Base, missed, lastHydratedKey>>, proposalRole' \in {None, proposalRole},
             lastHydratedKey # None /\ ~missed => legs'.of = legs.of
      PROVE  Shown'
  <2>1. \A s \in {opened, lastHydratedKey} : Faces(s) \subseteq Faces(s)'
    BY <1>1, <1>4, FacesStay
  <2> QED
    BY <1>1, <1>4, <2>1 DEF Shown
<1>5. CASE EnterWhatIf
  <2>1. Base' = Base /\ legs' = legs
    BY <1>5 DEF EnterWhatIf, Base
  <2> QED
    BY <1>4, <1>5, <2>1 DEF EnterWhatIf
<1>6. ASSUME NEW n, EditNotional(n) PROVE Shown'
  <2>1. legs'.of = legs.of /\ Base' = Base
    BY <1>6 DEF EditNotional, TypeOK, ViewTyped, Legs, Base
  <2> QED
    BY <1>4, <1>6, <2>1 DEF EditNotional
<1>7. CASE ToggleDirection
  <2>1. legs'.of = legs.of /\ Same /\ mode' = mode /\ whatIfOriginal' = whatIfOriginal
    BY <1>7 DEF ToggleDirection, TypeOK, ViewTyped, Legs
  <2>2. CASE mode = "whatif"
    <3>1. Base' = Base
      BY <2>1, <2>2 DEF Base
    <3> QED
      BY <1>4, <2>1, <3>1
  <2>3. CASE mode # "whatif"
    <3>1. Base = legs /\ Base' = [legs EXCEPT !.flipped = ~legs.flipped] /\ "flip" \in events'
      BY <1>7, <2>1, <2>3 DEF ToggleDirection, Happens, Base
    <3>2. \A s : Base \in Faces(s) => Base' \in {LegsOf(s), [LegsOf(s) EXCEPT !.flipped = TRUE]}
      BY <3>1, FacesTurn
    <3>3. Faces(opened)' = {LegsOf(opened), [LegsOf(opened) EXCEPT !.flipped = TRUE]}
      BY <1>1, <3>1 DEF Faces, LegsOf
    <3>4. Faces(lastHydratedKey)' =
            {LegsOf(lastHydratedKey), [LegsOf(lastHydratedKey) EXCEPT !.flipped = TRUE]}
      BY <2>1, <3>1 DEF Faces, LegsOf
    <3> QED
      BY <1>1, <2>1, <3>2, <3>3, <3>4 DEF Shown
  <2> QED
    BY <2>2, <2>3
<1>8. CASE ExitWhatIf
  <2>1. mode = "whatif" /\ mode' = "active" /\ legs' = whatIfOriginal /\ Same
    BY <1>8 DEF ExitWhatIf
  <2>2. Base = whatIfOriginal /\ Base' = whatIfOriginal
    BY <2>1 DEF Base
  <2>3. ASSUME lastHydratedKey # None, ~missed PROVE legs'.of = legs.of
    <3>1. Base \in Faces(lastHydratedKey) /\ legs.of = lastHydratedKey
      BY <2>3 DEF Shown
    <3>2. Base.of = lastHydratedKey
      BY <3>1, FacesTurn
    <3> QED
      BY <2>1, <2>2, <3>1, <3>2
  <2> QED
    BY <1>4, <2>1, <2>2, <2>3
<1>9. ASSUME UNCHANGED <<mode, legs, whatIfOriginal, missed, lastHydratedKey>>,
             proposalRole' \in {None, proposalRole}
      PROVE  Shown'
  BY <1>4, <1>9 DEF Base
<1>10. ASSUME NEW q \in BagToSet(asked), ShowWorkflow(q) PROVE Shown'
  BY <1>9, <1>10 DEF ShowWorkflow, Resolve, view
<1>11. CASE Returns
  BY <1>9, <1>11 DEF Returns
<1> QED
  BY <1>2, <1>3, <1>5, <1>6, <1>7, <1>8, <1>9, <1>10, <1>11
  DEF Next, vars, view, QueryAnswered, ShowUnwind, QueryFails, RoleAnswered, Click, Lands, Refused,
      Elsewhere

\* With What-If off, the page shows what its buttons act on.
THEOREM ActsOnWhatItShows == Spec => []ShowsWhatItActsOn
<1>1. TypeOK /\ Phases /\ Shown => ShowsWhatItActsOn
  <2> SUFFICES ASSUME TypeOK, Phases, Shown, NEW choice \in Offered \ Unwinding, mode = "active",
                      choice = "propose" => lastHydratedKey = resolvedWorkflow,
                      choice # "propose" => opened \notin Xccy, ~missed
               PROVE  legs \in Faces(Target(choice))
    BY DEF ShowsWhatItActsOn
  <2>1. pendingUnwind = None
    BY DEF Offered, Unwinding
  <2>2. CASE proposalRole # None
    <3>1. Target(choice) = opened /\ choice # "propose"
      BY <2>1, <2>2 DEF Offered, Target, Phases
    <3> QED
      BY <2>2, <3>1 DEF Shown, Base
  <2>3. CASE proposalRole = None
    <3>1. choice = "propose" /\ resolvedWorkflow # None
      BY <2>1, <2>3, PageAssumption DEF Offered
    <3>2. Target(choice) = lastHydratedKey /\ lastHydratedKey # None
      BY <3>1 DEF Target, Phases
    <3> QED
      BY <3>2 DEF Shown, Base
  <2> QED
    BY <2>2, <2>3
<1> QED
  BY <1>1, InitTypeOK, NextTypeOK, InitPhases, NextPhases, InitShown, NextShown, PTL DEF Spec

-----------------------------------------------------------------------------
(* Whose workflow the page finds.                                          *)

\* What StaysWithItsSwap excuses.
Excused ==
  /\ byProposal
  /\ \/ \E s \in Swaps \ {opened} : Notional[s] \in {Notional[opened], DefaultNotional}
     \/ "edit" \in events
     \/ reviewed

\* What legs of the page may have without a scenario, 0 for an XCCY proposal.
Own == {DefaultNotional, Notional[opened], 0}

\* The page of a proposal looks for notionals that only its swap has, that of a
\* workflow for its contract id; neither while there is none.
Kept ==
  life[opened] # "over" /\ ~Excused =>
    /\ resolvedWorkflow \in {None, opened}
    /\ \A q \in BagToSet(asked) : q.kind = "workflow" => q.answer \in {None, opened}
    /\ byProposal =>
         /\ \A q \in BagToSet(asked) : q.kind = "workflow" => q.match \in Own \union {None}
         /\ legs.notional \in Own
         /\ mode = "whatif" => whatIfOriginal.notional \in Own
         /\ swapStatus = "Active" => life[opened] = "live"
         /\ call.choice = "accept" /\ call.answer = "ok" => life[opened] = "live"
    /\ ~byProposal => life[opened] = "live"

\* A swap goes from proposal to workflow to its end, and the address stays.
LEMMA LifeGoesOn ==
  ASSUME TypeOK, [Next]_vars, NEW s \in Swaps
  PROVE  /\ life[s] = "over" => life'[s] = "over"
         /\ life[s] = "live" => life'[s] # "open"
<1> USE DEF TypeOK
<1>1. CASE Lands
  <2>1. Exercised /\ Possible
    BY <1>1 DEF Lands
  <2>2. CASE UNCHANGED life
    BY <2>2
  <2>3. CASE call.choice \in Deciding
    BY <2>1, <2>3 DEF Exercised, Possible, Becomes, Deciding, ledger
  <2>4. CASE call.choice = "TpAccept"
    BY <2>1, <2>4 DEF Exercised, Possible, Live
  <2> QED
    BY <2>1, <2>2, <2>3, <2>4 DEF Exercised, Deciding, ledger
<1>2. CASE Elsewhere
  BY <1>2 DEF Elsewhere, Becomes, Live
<1>3. CASE UNCHANGED life
  BY <1>3
<1> QED
  BY <1>1, <1>2, <1>3
  DEF Next, vars, ledger, QueryAnswered, ShowWorkflow, ShowUnwind, QueryFails, HydrateWorkflow,
      RoleAnswered, ShowProposal, EnterWhatIf, EditNotional, ToggleDirection, ExitWhatIf, Click,
      Refused, Returns

LEMMA AddressStays ==
  ASSUME [Next]_vars
  PROVE  UNCHANGED address
BY DEF Next, vars, QueryAnswered, ShowWorkflow, ShowUnwind, QueryFails, HydrateWorkflow, RoleAnswered,
       ShowProposal, EnterWhatIf, EditNotional, ToggleDirection, ExitWhatIf, Click, Lands, Refused,
       Returns, Elsewhere

\* An excuse stays one.
LEMMA ExcusesStay ==
  ASSUME [Next]_vars, Excused
  PROVE  Excused'
<1>1. UNCHANGED address
  BY AddressStays
<1>2. events \subseteq events'
  BY DEF Next, vars, QueryAnswered, ShowWorkflow, ShowUnwind, QueryFails, HydrateWorkflow, RoleAnswered,
         ShowProposal, EnterWhatIf, EditNotional, ToggleDirection, ExitWhatIf, Click, Lands, Refused,
         Returns, Elsewhere,
         Happens
<1>3. reviewed => reviewed'
  BY DEF Next, vars, QueryAnswered, ShowWorkflow, ShowUnwind, QueryFails, HydrateWorkflow, RoleAnswered,
         ShowProposal, EnterWhatIf, EditNotional, ToggleDirection, ExitWhatIf, Click, Lands,
         Exercised, Refused, Returns,
         Elsewhere
<1> QED
  BY <1>1, <1>2, <1>3 DEF Excused, address

\* What is found for a notional that only the page's own swap has.
LEMMA FindsItsOwn ==
  ASSUME TypeOK, life[opened] = "live", NEW notional,
         byProposal => notional \in Own \union {None},
         byProposal => \A s \in Swaps \ {opened} : Notional[s] \notin Own
  PROVE  Match(notional) \subseteq {opened}
<1> USE DEF TypeOK
<1>1. opened \in Live
  BY DEF Live
<1>2. CASE ~byProposal
  BY <1>1, <1>2 DEF Match
<1>3. CASE byProposal
  <2>1. CASE notional = None
    BY <1>3, <2>1 DEF Match
  <2>2. CASE notional \in Own
    <3>1. {s \in Live : Notional[s] = notional} \subseteq {opened}
      BY <1>3, <2>2 DEF Live
    <3>2. \A s : Live = {s} => Live = {opened}
      BY <1>1
    <3>3. Alike(notional) \subseteq {opened}
      BY <3>1, <3>2 DEF Alike
    <3> QED
      BY <1>3, <3>3 DEF Match
  <2> QED
    BY <1>3, <2>1, <2>2
<1> QED
  BY <1>2, <1>3

LEMMA InitKept == Init => Kept
<1> SUFFICES ASSUME Init, life[opened] # "over", ~Excused PROVE Kept
  BY DEF Kept
<1>1. BagToSet(asked) = {WorkflowQuery("Proposed", DefaultNotional), Query("unwind", None)}
  BY AskAdds, NothingAsked DEF Init
<1>2. \A q \in BagToSet(asked) : q.kind = "workflow" => q.match = None /\ q.answer = None
  BY <1>1 DEF WorkflowQuery, Query
<1> QED
  BY <1>2 DEF Init, Kept, Own, NoCall

LEMMA NextKept ==
  ASSUME TypeOK, TypeOK', Phases, Kept, [Next]_vars
  PROVE  Kept'
<1> SUFFICES ASSUME life'[opened] # "over", ~Excused'
             PROVE  /\ resolvedWorkflow' \in {None, opened}
                    /\ \A x \in BagToSet(asked') : x.kind = "workflow" =>
                         /\ x.answer \in {None, opened}
                         /\ byProposal => x.match \in Own \union {None}
                    /\ byProposal =>
                         /\ legs'.notional \in Own
                         /\ mode' = "whatif" => whatIfOriginal'.notional \in Own
                         /\ swapStatus' = "Active" => life'[opened] = "live"
                         /\ call'.choice = "accept" /\ call'.answer = "ok" => life'[opened] = "live"
                    /\ ~byProposal => life'[opened] = "live"
  <2>1. UNCHANGED address /\ Own' = Own
    BY AddressStays DEF address, Own
  <2> QED
    BY <2>1 DEF Kept, address
<1>1. UNCHANGED address /\ opened \in Swaps
  BY AddressStays DEF TypeOK
<1>2. life[opened] # "over" /\ ~Excused
  <2>1. life[opened] # "over"
    BY <1>1, LifeGoesOn DEF TypeOK, address
  <2> QED
    BY <2>1, ExcusesStay
<1>3. /\ resolvedWorkflow \in {None, opened}
      /\ \A q \in BagToSet(asked) : q.kind = "workflow" => q.answer \in {None, opened}
      /\ byProposal =>
           /\ \A q \in BagToSet(asked) : q.kind = "workflow" => q.match \in Own \union {None}
           /\ legs.notional \in Own
           /\ mode = "whatif" => whatIfOriginal.notional \in Own
           /\ swapStatus = "Active" => life[opened] = "live"
           /\ call.choice = "accept" /\ call.answer = "ok" => life[opened] = "live"
      /\ ~byProposal => life[opened] = "live"
  BY <1>2 DEF Kept
<1>4. life[opened] = "live" => life'[opened] = "live"
  BY <1>1, LifeGoesOn DEF TypeOK
<1>5. byProposal => /\ ~reviewed' /\ "edit" \notin events'
                    /\ \A s \in Swaps \ {opened} : Notional[s] \notin Own
  BY <1>1, PageAssumption DEF Excused, Own, address
<1>6. resolvedWorkflow' \in {None, opened}
  <2>1. ASSUME NEW q \in BagToSet(asked), ShowWorkflow(q) PROVE resolvedWorkflow' \in {None, opened}
    BY <1>3, <2>1 DEF ShowWorkflow, Resolve, view
  <2>2. CASE UNCHANGED resolvedWorkflow
    BY <1>3, <2>2
  <2> QED
    BY <2>1, <2>2
    DEF Next, vars, view, QueryAnswered, ShowUnwind, QueryFails, HydrateWorkflow, RoleAnswered,
        ShowProposal, EnterWhatIf, EditNotional, ToggleDirection, ExitWhatIf, Click, Lands, Refused,
        Returns, Elsewhere
<1>7. byProposal => /\ legs'.notional \in Own
                    /\ mode' = "whatif" => whatIfOriginal'.notional \in Own
  <2> SUFFICES ASSUME byProposal
               PROVE  legs'.notional \in Own /\ (mode' = "whatif" => whatIfOriginal'.notional \in Own)
    OBVIOUS
  <2>1. LegsOf(opened).notional \in Own /\ ProposalLegs(opened).notional \in Own
    BY DEF LegsOf, ProposalLegs, Own
  <2>2. CASE HydrateWorkflow
    <3>1. resolvedWorkflow = opened
      BY <1>3, <2>2 DEF HydrateWorkflow
    <3> QED
      BY <1>3, <2>1, <2>2, <3>1 DEF HydrateWorkflow, Hydrated
  <2>3. CASE ShowProposal
    BY <1>3, <2>1, <2>3 DEF ShowProposal, Hydrated
  <2>4. CASE EnterWhatIf \/ ExitWhatIf
    BY <1>3, <2>4 DEF EnterWhatIf, ExitWhatIf
  <2>5. ASSUME NEW n, EditNotional(n) PROVE FALSE
    BY <1>5, <2>5 DEF EditNotional, Happens
  <2>6. CASE ToggleDirection
    <3>1. legs'.notional = legs.notional
      BY <2>6 DEF ToggleDirection, TypeOK, ViewTyped, Legs
    <3> QED
      BY <1>3, <2>6, <3>1 DEF ToggleDirection
  <2>7. CASE UNCHANGED <<legs, mode, whatIfOriginal>>
    BY <1>3, <2>7
  <2> QED
    BY <2>2, <2>3, <2>4, <2>5, <2>6, <2>7
    DEF Next, vars, view, QueryAnswered, ShowWorkflow, Resolve, ShowUnwind, QueryFails, RoleAnswered,
        Click, Lands, Refused, Returns, Elsewhere
<1>8. byProposal /\ call'.choice = "accept" /\ call'.answer = "ok" => life'[opened] = "live"
  <2> SUFFICES ASSUME byProposal, call'.choice = "accept", call'.answer = "ok"
               PROVE  life'[opened] = "live"
    OBVIOUS
  <2>1. CASE Lands
    <3>1. call.choice = "accept" /\ call.on = opened /\ Exercised
      BY <2>1 DEF Lands, TypeOK, CallTyped, Phases, Deciding
    <3>2. Becomes(opened, "live")
      BY <1>5, <3>1 DEF Exercised
    <3> QED
      BY <1>1, <3>2 DEF Becomes, TypeOK
  <2>2. ASSUME NEW choice, Click(choice) PROVE FALSE
    BY <2>2 DEF Click
  <2>3. CASE call' = NoCall
    BY <2>3 DEF NoCall
  <2>4. CASE UNCHANGED call
    BY <1>3, <1>4, <2>4
  <2> QED
    BY <2>1, <2>2, <2>3, <2>4
    DEF Next, vars, QueryAnswered, ShowWorkflow, ShowUnwind, QueryFails, HydrateWorkflow, RoleAnswered,
        ShowProposal, EnterWhatIf, EditNotional, ToggleDirection, ExitWhatIf, Refused, Returns,
        Elsewhere
<1>9. byProposal /\ swapStatus' = "Active" => life'[opened] = "live"
  <2> SUFFICES ASSUME byProposal, swapStatus' = "Active", swapStatus # "Active"
               PROVE  life'[opened] = "live"
    BY <1>3, <1>4
  <2>1. ASSUME NEW q \in BagToSet(asked), ShowWorkflow(q) PROVE FALSE
    BY <2>1 DEF ShowWorkflow, Phases, view
  <2>2. CASE Returns
    BY <1>3, <1>4, <2>2 DEF Returns, Accepted, Declined, Refetches
  <2> QED
    BY <2>1, <2>2
    DEF Next, vars, view, QueryAnswered, ShowUnwind, QueryFails, HydrateWorkflow, RoleAnswered,
        ShowProposal, EnterWhatIf, EditNotional, ToggleDirection, ExitWhatIf, Click, Lands, Refused,
        Elsewhere
<1>10. ASSUME NEW x \in BagToSet(asked'), x.kind = "workflow"
       PROVE  x.answer \in {None, opened} /\ (byProposal => x.match \in Own \union {None})
  <2>1. Explained(x)
    BY StepsExplained
  <2>2. CASE x \in BagToSet(asked)
    BY <1>3, <1>10, <2>2
  <2>3. CASE x \in {WorkflowQuery(swapStatus', legs'.notional), Query("unwind", None)}
    BY <1>7, <1>10, <2>3 DEF WorkflowQuery, Query
  <2>4. ASSUME NEW q \in BagToSet(asked), ~q.answered, NEW a \in Answers(q), x = Answered(q, a)
        PROVE  x.answer \in {None, opened} /\ (byProposal => x.match \in Own \union {None})
    <3>1. x.match = None /\ x.answer = a /\ q.kind = "workflow"
      BY <1>10, <2>4 DEF Answered, Query
    <3>2. CASE byProposal /\ swapStatus # "Active"
      BY <3>1, <3>2, NoWorkflowSought
    <3>3. CASE ~byProposal \/ swapStatus = "Active"
      <4>1. life[opened] = "live"
        BY <1>3, <3>3
      <4>2. Match(q.match) \subseteq {opened}
        BY <1>3, <1>5, <3>1, <4>1, FindsItsOwn
      <4> QED
        BY <3>1, <4>2 DEF Answers, Found
    <3> QED
      BY <3>2, <3>3
  <2> QED
    BY <2>1, <2>2, <2>3, <2>4 DEF Explained
<1> QED
  BY <1>3, <1>4, <1>6, <1>7, <1>8, <1>9, <1>10

\* While its swap is there the page's buttons act on no other, but where the
\* property excuses it.
THEOREM StaysByItsSwap == Spec => []StaysWithItsSwap
<1>1. TypeOK /\ Phases /\ Kept => StaysWithItsSwap
  <2> SUFFICES ASSUME TypeOK, Phases, Kept, life[opened] # "over", NEW choice \in Offered \ Unwinding,
                      ~Excused
               PROVE  Target(choice) = opened
    BY DEF StaysWithItsSwap, Excused
  <2>1. CASE choice = "propose"
    <3>1. resolvedWorkflow # None /\ Target(choice) = workflowContractId
      BY <2>1 DEF Offered, Unwinding, Target
    <3> QED
      BY <3>1 DEF Kept, Phases
  <2>2. CASE choice # "propose"
    BY <2>2 DEF Offered, Unwinding, Target
  <2> QED
    BY <2>1, <2>2
<1> QED
  BY <1>1, InitTypeOK, NextTypeOK, InitPhases, NextPhases, InitKept, NextKept, PTL DEF Spec

-----------------------------------------------------------------------------
(* Where the page comes to rest.                                           *)

\* The page of a workflow that is there goes on looking for it until it is found.
Pursued ==
  ~byProposal /\ life[opened] = "live" /\ "failure" \notin events =>
    /\ swapStatus # "Active" => \E q \in BagToSet(asked) : q.kind = "workflow"
    /\ \A q \in BagToSet(asked) : q.kind = "workflow" /\ q.answered => q.answer = opened

LEMMA InitPursued == Init => Pursued
<1> SUFFICES ASSUME Init PROVE Pursued
  OBVIOUS
<1>1. BagToSet(asked) = {WorkflowQuery("Proposed", DefaultNotional), Query("unwind", None)}
  BY AskAdds, NothingAsked DEF Init
<1>2. \A q \in BagToSet(asked) : ~q.answered
  BY <1>1 DEF WorkflowQuery, Query
<1>3. WorkflowQuery("Proposed", DefaultNotional).kind = "workflow"
  BY DEF WorkflowQuery, Query
<1> QED
  BY <1>1, <1>2, <1>3 DEF Pursued

LEMMA NextPursued ==
  ASSUME TypeOK, Phases, Kept, Pursued, [Next]_vars
  PROVE  Pursued'
<1> DEFINE Looks == \E q \in BagToSet(asked) : q.kind = "workflow"
<1> SUFFICES ASSUME ~byProposal, life'[opened] = "live", "failure" \notin events'
             PROVE  /\ swapStatus' # "Active" => Looks'
                    /\ \A x \in BagToSet(asked') : x.kind = "workflow" /\ x.answered => x.answer = opened
  BY AddressStays DEF Pursued, address
<1>1. "failure" \notin events /\ \A q : ~QueryFails(q)
  <2>1. events \subseteq events'
    BY DEF Next, vars, QueryAnswered, ShowWorkflow, ShowUnwind, QueryFails, HydrateWorkflow,
           RoleAnswered,
           ShowProposal, EnterWhatIf, EditNotional, ToggleDirection, ExitWhatIf, Click, Lands,
           Refused, Returns, Elsewhere,
           Happens
  <2> QED
    BY <2>1 DEF QueryFails, Happens
<1>2. life[opened] = "live"
  BY LifeGoesOn DEF TypeOK, Kept, Excused
<1>3. /\ swapStatus # "Active" => Looks
      /\ \A q \in BagToSet(asked) : q.kind = "workflow" /\ q.answered => q.answer = opened
  BY <1>1, <1>2 DEF Pursued
<1>4. ASSUME NEW x \in BagToSet(asked'), x.kind = "workflow", x.answered
      PROVE  x.answer = opened
  <2>1. Explained(x)
    BY StepsExplained
  <2>2. CASE x \in BagToSet(asked)
    BY <1>3, <1>4, <2>2
  <2>3. CASE x \in {WorkflowQuery(swapStatus', legs'.notional), Query("unwind", None)}
    BY <1>4, <2>3 DEF WorkflowQuery, Query
  <2>4. ASSUME NEW q \in BagToSet(asked), NEW a \in Answers(q), x = Answered(q, a)
        PROVE  x.answer = opened
    <3>1. x.answer = a /\ q.kind = "workflow"
      BY <1>4, <2>4 DEF Answered, Query
    <3>2. Match(q.match) = {opened}
      BY <1>2 DEF Match, Live, TypeOK
    <3> QED
      BY <3>1, <3>2, <2>4 DEF Answers, Found
  <2> QED
    BY <2>1, <2>2, <2>3, <2>4 DEF Explained
<1>5. ASSUME swapStatus' # "Active" PROVE Looks'
  <2>1. ASSUME NEW q \in BagToSet(asked), ShowWorkflow(q) PROVE Looks'
    <3>1. q.answer = opened /\ opened # None
      BY <1>3, <2>1, PageAssumption DEF ShowWorkflow, TypeOK
    <3> QED
      BY <1>5, <2>1, <3>1 DEF ShowWorkflow, Resolve
  <2>2. CASE Returns
    <3>1. UNCHANGED swapStatus /\ \E refetch : Reruns(asked, refetch)
      BY <1>5, <2>2 DEF Returns, Accepted, Declined, Refetches, Phases, Deciding
    <3> QED
      BY <1>3, <1>5, <3>1, RerunAdds
  <2>3. ASSUME UNCHANGED swapStatus PROVE Looks
    BY <1>3, <1>5, <2>3
  <2>4. ASSUME NEW q \in BagToSet(asked), QueryAnswered(q) PROVE Looks'
    <3>1. Looks
      BY <2>3, <2>4 DEF QueryAnswered, view
    <3>2. PICK a : asked' = BagAdd(BagRemove(asked, q), Answered(q, a))
      BY <2>4 DEF QueryAnswered
    <3>3. /\ BagToSet(asked) \ {q} \subseteq BagToSet(asked')
          /\ Answered(q, a) \in BagToSet(asked')
      BY <3>2, AddToBag, RemoveFromBag
    <3>4. Answered(q, a).kind = q.kind
      BY DEF Answered, Query
    <3> QED
      BY <3>1, <3>3, <3>4
  <2>5. ASSUME NEW q \in BagToSet(asked), ShowUnwind(q) PROVE Looks'
    <3>1. Looks /\ q.kind = "unwind" /\ asked' = BagRemove(asked, q)
      BY <2>3, <2>5 DEF ShowUnwind
    <3> QED
      BY <3>1, RemoveFromBag
  <2>6. ASSUME NEW n, HydrateWorkflow \/ ShowProposal \/ EditNotional(n) \/ ExitWhatIf PROVE Looks'
    <3>1. UNCHANGED swapStatus /\ Reruns(asked, FALSE)
      BY <2>6 DEF HydrateWorkflow, ShowProposal, EditNotional, ToggleDirection, ExitWhatIf
    <3> QED
      BY <2>3, <3>1, RerunAdds
  <2>7. ASSUME UNCHANGED <<swapStatus, asked>> PROVE Looks'
    BY <2>3, <2>7
  <2> QED
    BY <1>1, <2>1, <2>2, <2>4, <2>5, <2>6, <2>7
    DEF Next, vars, view, RoleAnswered, EnterWhatIf, ToggleDirection, Click, Lands, Refused, Elsewhere
<1> QED
  BY <1>4, <1>5

\* A page that was opened for a live swap comes to rest on it.
THEOREM ComesToRestOnItsSwap == Spec => []RestsOnItsSwap
<1>1. TypeOK /\ Phases /\ Shown /\ Kept /\ Pursued => RestsOnItsSwap
  <2> SUFFICES ASSUME TypeOK, Phases, Shown, Kept, Pursued, asked = EmptyBag, ~byProposal,
                      life[opened] = "live", "failure" \notin events
               PROVE  /\ swapStatus = "Active"
                      /\ {workflowContractId, resolvedWorkflow} = {opened}
                      /\ lastHydratedKey = opened => legs.of = opened \/ missed
    BY DEF RestsOnItsSwap
  <2>1. swapStatus = "Active"
    BY NothingAsked DEF Pursued
  <2>2. resolvedWorkflow = opened /\ workflowContractId = opened
    BY <2>1 DEF Phases, Kept, Excused
  <2>3. lastHydratedKey = opened => legs.of = opened \/ missed
    BY PageAssumption DEF Shown, TypeOK
  <2> QED
    BY <2>1, <2>2, <2>3
<1> QED
  BY <1>1, InitTypeOK, NextTypeOK, InitPhases, NextPhases, InitShown, NextShown, InitKept, NextKept,
     InitPursued, NextPursued, PTL DEF Spec

=============================================================================
