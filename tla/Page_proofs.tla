---------------------------- MODULE Page_proofs -----------------------------
(* Safety of the page: its panels of workspaces and workflows, its runs, and *)
(* the dialog that sets a provider up, whatever replies and frames are late, *)
(* lost or out of order. PanelsInv, PageInv and DialogInv are inductive.     *)
EXTENDS Panels, WebPage, SetupDialog, WellFoundedInduction, TLAPS

(* The panels of workspaces and workflows.                                   *)

Steps == {"asked", "done", "refused"}
FlowCall == [kind : {"none", "run", "save", "copy", "fill"}, flow : Drafted \cup {NoFlow},
             base : Drafted \cup {NoFlow}, content : FlowContent, seen : FlowContent,
             list : [Drafted -> FlowContent], step : Steps]
FormCall == [kind : {"none", "create", "update"}, site : Sites \cup {NoSite},
             list : SUBSET Sites, was : Sites \cup {NoSite}, step : Steps]
Removal  == [kind : {"delete"}, site : Sites, list : SUBSET Sites,
             was : Sites \cup {NoSite}, step : Steps]

CallsTyped ==
    /\ action \in FlowCall
    /\ form \in FormCall /\ (form.kind # "none" => form.site \in Sites)
    /\ removals \subseteq Removal
    /\ edits \in 0..MaxEdits

(* Before the first lists there is nothing the user could have done.         *)
NothingYet ==
    ~loaded => /\ workflows = [f \in Drafted |-> 0] /\ unseen = {} /\ action.kind = "none"
               /\ chosen = NoSite /\ sites = {} /\ form.kind = "none" /\ removals = {}

(* A workflow whose content in the list is not the one stored was changed by *)
(* another client, or by a call of which the page has no good reply; then    *)
(* its draft is still there, so that a run is not asked for by id alone.     *)
ListedIsStored ==
    /\ meddled \cup unseen \subseteq Customs
    /\ loaded => \A f \in Drafted : workflows[f] = stored[f] \/ f \in meddled \cup unseen
    /\ \A f \in unseen : drafts[f] # 0 \/ workflows[f] = 0 \/ f \in meddled

(* What a call in flight relies on.                                          *)
ActionStands ==
    /\ action.kind # "none" => /\ action.flow \in Drafted /\ action.base \in Drafted
                               /\ loaded /\ action.list = workflows
    /\ action.kind = "run" => IF action.content # 0 THEN action.seen = action.content
                              ELSE action.seen = stored[action.flow] \/ action.flow \in meddled
    /\ action.kind = "save" => /\ action.flow \in Customs /\ action.base = action.flow
                               /\ drafts[action.flow] # 0
    /\ action.kind \in {"copy", "fill"} => action.base \in Builtins
    /\ action.kind = "fill" \/ (action.kind = "copy" /\ action.step = "done")
           => action.flow \in Customs \cap unseen
    /\ action.kind \in {"save", "fill"} /\ action.step = "done"
           => stored[action.flow] = action.content \/ action.flow \in meddled

(* Unless calls about workspaces overlapped, there is one at a time, made    *)
(* with the list that the page still has.                                    *)
SitesStand ==
    ~tangled =>
        /\ form.kind # "none" => removals = {}
        /\ \A c, d \in removals : c = d
        /\ loaded /\ ~SitesBusy => sites = there
        /\ form.kind # "none" =>
               /\ form.list = sites
               /\ there = IF form.kind = "create" /\ form.step = "done"
                          THEN sites \cup {form.site} ELSE sites
        /\ \A c \in removals :
               /\ c.list = sites /\ (chosen = c.site => c.was = c.site)
               /\ there = IF c.step = "done" THEN sites \ {c.site} ELSE sites
        /\ loaded => chosen \in IF sites = {} THEN {NoSite} ELSE sites

FlowInv == ListedIsStored /\ ActionStands /\ RunsAsShown
PanelsInv == PanelsTypeOK /\ CallsTyped /\ NothingYet /\ FlowInv /\ SitesStand

LEMMA PanelsStart == PanelsInit => PanelsInv
<1> SUFFICES ASSUME PanelsInit PROVE PanelsInv
  OBVIOUS
<1>0. 0 \in FlowContent /\ 1 \in FlowContent /\ MaxEdits \in Nat
  BY PanelsAssumption DEF FlowContent
<1>1. PanelsTypeOK
  <2>1. stored \in [Drafted -> FlowContent] /\ [f \in Drafted |-> 0] \in [Drafted -> FlowContent]
    BY <1>0 DEF PanelsInit
  <2>2. /\ action.kind = "none" /\ form.kind = "none" /\ form.step = "asked"
        /\ removals = {} /\ loaded = FALSE /\ tangled = FALSE
    BY DEF PanelsInit, Rest, RestForm
  <2>3. /\ there \subseteq Sites /\ sites = {} /\ chosen = NoSite /\ flow = NoFlow
        /\ ran = {} /\ meddled = {} /\ unseen = {}
        /\ workflows \in [Drafted -> FlowContent] /\ drafts \in [Drafted -> FlowContent]
    BY <2>1, PanelsAssumption DEF PanelsInit
  <2> QED
    BY <2>1, <2>2, <2>3 DEF PanelsTypeOK
<1>2. CallsTyped
  BY <1>0 DEF PanelsInit, CallsTyped, FlowCall, FormCall, Rest, RestForm, Steps
<1>3. NothingYet /\ FlowInv /\ SitesStand
  BY DEF PanelsInit, NothingYet, FlowInv, ListedIsStored, ActionStands, RunsAsShown,
         SitesStand, Rest, RestForm
<1> QED
  BY <1>1, <1>2, <1>3 DEF PanelsInv

(* What keeps the calls about workspaces and the lists of the page as they   *)
(* are, or about as they are, keeps what is said of them.                    *)
LEMMA SitesRest ==
    ASSUME PanelsInv,
           UNCHANGED <<there, loaded, sites, chosen, form, removals, tangled>>
    PROVE  SitesStand'
  BY DEF PanelsInv, SitesStand, SitesBusy

LEMMA FlowsRest ==
    ASSUME PanelsInv, loaded' = loaded \/ loaded',
           UNCHANGED <<stored, ran, workflows, action, meddled, unseen>>,
           \A f \in Customs : drafts[f] # 0 => drafts'[f] # 0,
           loaded' => loaded
    PROVE  FlowInv'
<1>1. ListedIsStored'
  BY DEF PanelsInv, FlowInv, ListedIsStored
<1>2. ActionStands'
  BY DEF PanelsInv, FlowInv, ActionStands
<1>3. RunsAsShown'
  BY DEF PanelsInv, FlowInv, RunsAsShown
<1> QED
  BY <1>1, <1>2, <1>3 DEF FlowInv

(* A change of the workspace drops the drafts of shipped workflows only.     *)
LEMMA ChooseTypes ==
    ASSUME PanelsInv, NEW w \in Sites \cup {NoSite}, ChooseSite(w),
           workflows' \in [Drafted -> FlowContent]
    PROVE  /\ chosen' = w
           /\ drafts' \in [Drafted -> FlowContent] /\ flow' \in Drafted \cup {NoFlow}
           /\ \A f \in Customs : drafts'[f] = drafts[f]
<1>1. 0 \in FlowContent
  BY PanelsAssumption DEF FlowContent
<1>2. drafts \in [Drafted -> FlowContent] /\ flow \in Drafted \cup {NoFlow}
  BY DEF PanelsInv, PanelsTypeOK
<1>3. \A v, list : Preselected(v, list) \subseteq Drafted
  BY PanelsAssumption DEF Preselected, Drafted
<1>4. CASE w = chosen
  BY <1>2, <1>4 DEF ChooseSite
<1>5. CASE w # chosen
  <2>1. /\ chosen' = w /\ flow' \in Drafted
        /\ drafts' = [f \in Drafted |-> IF f \in Builtins THEN 0 ELSE drafts[f]]
    BY <1>3, <1>5 DEF ChooseSite
  <2> QED
    BY <1>1, <1>2, <2>1, PanelsAssumption DEF Drafted
<1> QED
  BY <1>4, <1>5

(* The first lists, and what other clients do.                               *)
LEMMA LoadKeeps == ASSUME PanelsInv, LoadLists PROVE PanelsInv'
<1>0. /\ ~loaded /\ loaded' /\ workflows' = stored /\ sites' = there
      /\ UNCHANGED <<Server, action, form, removals, edits, actions, losses, meddled,
                     unseen, tangled>>
  BY DEF LoadLists
<1>1. /\ unseen = {} /\ action.kind = "none" /\ chosen = NoSite
      /\ form.kind = "none" /\ removals = {}
  BY <1>0 DEF PanelsInv, NothingYet
<1>2. /\ chosen' \in IF there = {} THEN {NoSite} ELSE there
      /\ drafts' \in [Drafted -> FlowContent] /\ flow' \in Drafted \cup {NoFlow}
  <2>1. CASE there = {}
    BY <1>0, <1>1, <2>1, PanelsAssumption DEF LoadLists, Preselected, PanelsInv, PanelsTypeOK
  <2>2. CASE there # {}
    <3>1. PICK w \in there : ChooseSite(w)
      BY <2>2 DEF LoadLists
    <3> QED
      BY <1>0, <2>2, <3>1, ChooseTypes DEF PanelsInv, PanelsTypeOK
  <2> QED
    BY <2>1, <2>2
<1>3. PanelsTypeOK' /\ CallsTyped' /\ NothingYet'
  BY <1>0, <1>2, PanelsAssumption
     DEF PanelsInv, PanelsTypeOK, CallsTyped, NothingYet, Server
<1>4. ListedIsStored' /\ ActionStands' /\ RunsAsShown'
  BY <1>0, <1>1
     DEF PanelsInv, FlowInv, ListedIsStored, ActionStands, RunsAsShown, Server
<1>5. SitesStand'
  BY <1>0, <1>1, <1>2 DEF SitesStand, Server
<1> QED
  BY <1>3, <1>4, <1>5 DEF PanelsInv, FlowInv

LEMMA MeddleKeeps == ASSUME PanelsInv, NEW f \in Customs, Meddle(f) PROVE PanelsInv'
<1>0. /\ UNCHANGED <<ran, loaded, workflows, drafts, flow, chosen, action, unseen, Siting>>
      /\ meddled' = meddled \cup {f} /\ edits' \in 0..MaxEdits
      /\ stored' \in [Drafted -> FlowContent]
      /\ \A g \in Drafted \ {f} : stored'[g] = stored[g]
  BY PanelsAssumption
     DEF Meddle, PanelsInv, CallsTyped, PanelsTypeOK, FlowContent
<1>1. PanelsTypeOK' /\ CallsTyped' /\ NothingYet'
  BY <1>0 DEF PanelsInv, PanelsTypeOK, CallsTyped, NothingYet, Siting, Drafted
<1>2. ListedIsStored' /\ ActionStands' /\ RunsAsShown'
  BY <1>0 DEF PanelsInv, FlowInv, ListedIsStored, ActionStands, RunsAsShown
<1>3. SitesStand'
  BY <1>0, SitesRest DEF Siting
<1> QED
  BY <1>1, <1>2, <1>3 DEF PanelsInv, FlowInv

-----------------------------------------------------------------------------
(* The workflow panel.                                                       *)
LEMMA SelectFlowKeeps ==
    ASSUME PanelsInv, NEW f \in Drafted, SelectFlow(f) PROVE PanelsInv'
<1>0. /\ UNCHANGED <<Flowing, Siting, loaded, chosen>> /\ flow' = f
  BY DEF SelectFlow
<1>1. PanelsTypeOK' /\ CallsTyped' /\ NothingYet'
  BY <1>0 DEF PanelsInv, PanelsTypeOK, CallsTyped, NothingYet, Siting, Flowing
<1> QED
  BY <1>0, <1>1, FlowsRest, SitesRest DEF PanelsInv, Siting, Flowing

LEMMA EditKeeps == ASSUME PanelsInv, EditDraft PROVE PanelsInv'
<1>0. /\ UNCHANGED <<stored, ran, loaded, workflows, flow, chosen, action, meddled,
                     unseen, Siting>>
      /\ edits' \in 0..MaxEdits /\ 2 + edits \in FlowContent /\ 2 + edits # 0
      /\ drafts' = [drafts EXCEPT ![flow] = 2 + edits]
  BY PanelsAssumption
     DEF EditDraft, ReduceWorkflowEdit, PanelsInv, CallsTyped, FlowContent
<1>1. /\ drafts' \in [Drafted -> FlowContent]
      /\ \A f \in Customs : drafts[f] # 0 => drafts'[f] # 0
  BY <1>0 DEF PanelsInv, PanelsTypeOK, Drafted
<1>2. PanelsTypeOK' /\ CallsTyped' /\ NothingYet'
  BY <1>0, <1>1 DEF PanelsInv, PanelsTypeOK, CallsTyped, NothingYet, Siting
<1> QED
  BY <1>0, <1>1, <1>2, FlowsRest, SitesRest DEF PanelsInv, Siting

(* A workflow that is listed is shown as it is stored, or with its draft, or *)
(* another client has changed it.                                            *)
LEMMA PressKeeps ==
    ASSUME PanelsInv, NEW kind \in {"run", "save", "copy"}, NEW content \in FlowContent,
           Press(kind, content),
           kind = "run" => content = drafts[flow],
           kind = "save" => flow \in Customs /\ drafts[flow] # 0,
           kind = "copy" => flow \in Builtins
    PROVE  PanelsInv'
<1>0. /\ UNCHANGED <<stored, ran, loaded, workflows, drafts, flow, chosen, edits,
                     meddled, unseen, Siting>>
      /\ flow \in Drafted /\ workflows[flow] # 0
      /\ action' = [kind |-> kind, flow |-> flow, base |-> flow, content |-> content,
                    seen |-> Shown(flow), list |-> workflows, step |-> "asked"]
  BY DEF Press, Workflows
<1>1. loaded
  BY <1>0 DEF PanelsInv, NothingYet
<1>2. Shown(flow) \in FlowContent
  BY <1>0 DEF Shown, PanelsInv, PanelsTypeOK
<1>3. action' \in FlowCall
  BY <1>0, <1>2 DEF FlowCall, Steps, PanelsInv, PanelsTypeOK
<1>4. PanelsTypeOK' /\ CallsTyped' /\ NothingYet'
  BY <1>0, <1>1, <1>3 DEF PanelsInv, PanelsTypeOK, CallsTyped, NothingYet, Siting
<1>5. ListedIsStored' /\ RunsAsShown'
  BY <1>0 DEF PanelsInv, FlowInv, ListedIsStored, RunsAsShown
<1>6. kind = "run" => IF content # 0 THEN Shown(flow) = content
                      ELSE Shown(flow) = stored[flow] \/ flow \in meddled
  BY <1>0, <1>1 DEF PanelsInv, FlowInv, ListedIsStored, Shown
<1>7. ActionStands'
  BY <1>0, <1>1, <1>6 DEF ActionStands
<1> QED
  BY <1>0, <1>4, <1>5, <1>7, SitesRest DEF PanelsInv, FlowInv, Siting

LEMMA ButtonsKeep ==
    ASSUME PanelsInv, AskRun \/ SaveCustom \/ DuplicateBuiltin PROVE PanelsInv'
<1>1. drafts[flow] \in FlowContent \/ flow \notin Drafted
  BY DEF PanelsInv, PanelsTypeOK
<1>2. \A kind, content : Press(kind, content) => flow \in Drafted
  BY DEF Press, Workflows
<1> QED
  BY <1>1, <1>2, PressKeeps DEF AskRun, CreateRunRequest, SaveCustom, DuplicateBuiltin

(* The server and the answers: what the panel lists and edits stays.         *)
LEMMA ServeRunKeeps == ASSUME PanelsInv, ServeRun PROVE PanelsInv'
<1> DEFINE content == IF action.content # 0 THEN action.content ELSE stored[action.flow]
<1>0. /\ UNCHANGED <<stored, unseen, loaded, workflows, drafts, flow, chosen, edits,
                     meddled, Siting>>
      /\ action.kind = "run"
      /\ \E step \in {"done", "refused"} : action' = [action EXCEPT !.step = step]
  BY DEF ServeRun, Handled
<1>1. /\ ran' \subseteq
             ran \cup {[flow |-> action.flow, seen |-> action.seen, content |-> content]}
  BY DEF ServeRun
<1>2. action.flow \in Drafted /\ action \in FlowCall /\ content \in FlowContent
  BY <1>0 DEF PanelsInv, FlowInv, ActionStands, CallsTyped, FlowCall, PanelsTypeOK
<1>3. action.seen = content \/ action.flow \in meddled
  BY <1>0 DEF PanelsInv, FlowInv, ActionStands
<1> HIDE DEF content
<1>4. action' \in FlowCall
  BY <1>0, <1>2 DEF FlowCall, Steps
<1>5. ran' \subseteq [flow : Drafted, seen : FlowContent, content : FlowContent]
  BY <1>1, <1>2 DEF FlowCall, PanelsInv, PanelsTypeOK
<1>6. PanelsTypeOK' /\ CallsTyped' /\ NothingYet'
  BY <1>0, <1>2, <1>4, <1>5
     DEF PanelsInv, PanelsTypeOK, CallsTyped, NothingYet, Siting, FlowCall
<1>7. RunsAsShown'
  BY <1>0, <1>1, <1>3 DEF PanelsInv, FlowInv, RunsAsShown
<1>8. ListedIsStored' /\ ActionStands'
  BY <1>0, <1>2 DEF PanelsInv, FlowInv, ListedIsStored, ActionStands, FlowCall
<1> QED
  BY <1>0, <1>6, <1>7, <1>8, SitesRest DEF PanelsInv, FlowInv, Siting

(* What is stored by a call that the page hears nothing good of is listed as *)
(* it was, so that its draft must be kept.                                   *)
LEMMA ServeSaveKeeps == ASSUME PanelsInv, ServeSave PROVE PanelsInv'
<1> DEFINE f == action.flow
<1>0. /\ UNCHANGED <<ran, loaded, workflows, drafts, flow, chosen, edits, meddled, Siting>>
      /\ action.kind \in {"save", "fill"} /\ action.step = "asked"
      /\ \E step \in {"done", "refused"} : action' = [action EXCEPT !.step = step]
  BY DEF ServeSave, Handled
<1>1. /\ action.flow \in Customs /\ action.base \in Drafted /\ action.list = workflows
      /\ action.content \in FlowContent /\ loaded /\ action \in FlowCall
      /\ action.kind = "save" => drafts[action.flow] # 0
      /\ action.flow \in Drafted
  BY <1>0 DEF PanelsInv, FlowInv, ActionStands, CallsTyped, FlowCall
<1>2. action' \in FlowCall
  BY <1>0, <1>1 DEF FlowCall, Steps
<1>3. CASE /\ stored' = [stored EXCEPT ![f] = action.content]
           /\ unseen' = unseen \cup {f}
           /\ action' = [action EXCEPT !.step = "done"]
  <2>1. PanelsTypeOK' /\ CallsTyped' /\ NothingYet'
    BY <1>0, <1>1, <1>2, <1>3
       DEF PanelsInv, PanelsTypeOK, CallsTyped, NothingYet, Siting, FlowCall
  <2>2. action.kind = "fill" => f \in unseen
    BY <1>0, <1>1 DEF PanelsInv, FlowInv, ActionStands
  <2>3. ListedIsStored'
    BY <1>0, <1>1, <1>3, <2>2 DEF PanelsInv, PanelsTypeOK, FlowInv, ListedIsStored
  <2>4. ActionStands' /\ RunsAsShown'
    BY <1>0, <1>1, <1>3
       DEF PanelsInv, PanelsTypeOK, FlowInv, ActionStands, RunsAsShown, FlowCall
  <2> QED
    BY <1>0, <2>1, <2>3, <2>4, SitesRest DEF PanelsInv, FlowInv, Siting
<1>4. CASE UNCHANGED <<stored, unseen>> /\ action' = [action EXCEPT !.step = "refused"]
  <2>1. PanelsTypeOK' /\ CallsTyped' /\ NothingYet'
    BY <1>0, <1>1, <1>2, <1>4
       DEF PanelsInv, PanelsTypeOK, CallsTyped, NothingYet, Siting, FlowCall
  <2>2. ListedIsStored' /\ ActionStands' /\ RunsAsShown'
    BY <1>0, <1>1, <1>4
       DEF PanelsInv, FlowInv, ListedIsStored, ActionStands, RunsAsShown, FlowCall
  <2> QED
    BY <1>0, <2>1, <2>2, SitesRest DEF PanelsInv, FlowInv, Siting
<1> QED
  BY <1>3, <1>4 DEF ServeSave, Handled

LEMMA ServeCopyKeeps == ASSUME PanelsInv, ServeCopy PROVE PanelsInv'
<1>0. /\ UNCHANGED <<ran, loaded, workflows, drafts, flow, chosen, edits, meddled, Siting>>
      /\ action.kind = "copy" /\ action.step = "asked"
  BY DEF ServeCopy, Handled
<1>1. PICK f \in Customs : /\ stored[f] = 0
                           /\ stored' = [stored EXCEPT ![f] = stored[action.base]]
                           /\ unseen' = unseen \cup {f}
                           /\ action' = [action EXCEPT !.flow = f, !.step = "done"]
  BY DEF ServeCopy, Handled
<1>2. /\ action.base \in Builtins /\ loaded /\ action.list = workflows /\ action \in FlowCall
      /\ action.base \in Drafted /\ f \in Drafted
  BY <1>0 DEF PanelsInv, FlowInv, ActionStands, CallsTyped, Drafted
<1>3. action' \in FlowCall
  BY <1>1, <1>2 DEF FlowCall, Steps
<1>4. PanelsTypeOK' /\ CallsTyped' /\ NothingYet'
  BY <1>0, <1>1, <1>2, <1>3
     DEF PanelsInv, PanelsTypeOK, CallsTyped, NothingYet, Siting, FlowCall
<1>5. workflows[f] = 0 \/ f \in meddled \/ f \in unseen
  BY <1>1, <1>2 DEF PanelsInv, FlowInv, ListedIsStored
<1>6. ListedIsStored'
  BY <1>0, <1>1, <1>2, <1>5 DEF PanelsInv, PanelsTypeOK, FlowInv, ListedIsStored
<1>7. ActionStands' /\ RunsAsShown'
  BY <1>0, <1>1, <1>2 DEF PanelsInv, FlowInv, ActionStands, RunsAsShown, FlowCall
<1> QED
  BY <1>0, <1>4, <1>6, <1>7, SitesRest DEF PanelsInv, FlowInv, Siting

(* A call that fails, on its way or at the server, or that goes on.          *)
LEMMA CallChanges ==
    ASSUME PanelsInv, action' \in FlowCall,
           UNCHANGED <<stored, ran, loaded, workflows, drafts, flow, chosen, edits,
                       meddled, unseen, Siting>>,
           ActionStands', action'.kind # "none" => action.kind # "none"
    PROVE  PanelsInv'
<1>1. PanelsTypeOK' /\ CallsTyped' /\ NothingYet'
  BY DEF PanelsInv, PanelsTypeOK, CallsTyped, NothingYet, Siting, FlowCall
<1>2. ListedIsStored' /\ RunsAsShown'
  BY DEF PanelsInv, FlowInv, ListedIsStored, RunsAsShown
<1> QED
  BY <1>1, <1>2, SitesRest DEF PanelsInv, FlowInv, Siting

LEMMA CallEndsKeep ==
    ASSUME PanelsInv, LoseAction \/ FillCopy \/ ActionFailed PROVE PanelsInv'
<1>0. action \in FlowCall
  BY DEF PanelsInv, CallsTyped
<1>1. CASE LoseAction
  <2>1. action' = [action EXCEPT !.step = "refused"]
    BY <1>1 DEF LoseAction
  <2>2. action' \in FlowCall /\ ActionStands'
    BY <1>0, <1>1, <2>1
       DEF LoseAction, FlowCall, Steps, PanelsInv, FlowInv, ActionStands
  <2> QED
    BY <1>1, <2>2, CallChanges DEF LoseAction, FlowCall
<1>2. CASE FillCopy
  <2>1. action' = [action EXCEPT !.kind = "fill", !.step = "asked"] /\ action.kind = "copy"
    BY <1>2 DEF FillCopy, Handled
  <2>2. action' \in FlowCall /\ ActionStands'
    BY <1>0, <1>2, <2>1
       DEF FillCopy, Handled, FlowCall, Steps, PanelsInv, FlowInv, ActionStands
  <2> QED
    BY <1>2, <2>1, <2>2, CallChanges DEF FillCopy, Handled
<1>3. CASE ActionFailed
  <2>1. action' \in FlowCall /\ action'.kind = "none"
    BY <1>3, PanelsAssumption DEF ActionFailed, Handled, Rest, FlowCall, Steps, FlowContent
  <2>2. ActionStands'
    BY <2>1 DEF ActionStands
  <2> QED
    BY <1>3, <2>1, <2>2, CallChanges DEF ActionFailed, Handled
<1> QED
  BY <1>1, <1>2, <1>3

(* The reply is good: what was sent is listed, and its draft may go.         *)
LEMMA ActionDoneKeeps == ASSUME PanelsInv, ActionDone PROVE PanelsInv'
<1> DEFINE f == action.flow
<1>0. /\ UNCHANGED <<stored, ran, loaded, chosen, edits, meddled, Siting>>
      /\ action.kind \in {"run", "save", "fill"} /\ action.step = "done" /\ action' = Rest
  BY DEF ActionDone
<1>1. action' \in FlowCall /\ action'.kind = "none"
  BY <1>0, PanelsAssumption DEF Rest, FlowCall, Steps, FlowContent
<1>2. ActionStands'
  BY <1>1 DEF ActionStands
<1>3. /\ f \in Drafted /\ action.base \in Drafted /\ loaded /\ action.list = workflows
      /\ action.content \in FlowContent
  BY <1>0 DEF PanelsInv, FlowInv, ActionStands, CallsTyped, FlowCall
<1>4. CASE UNCHANGED <<workflows, drafts, flow, unseen>>
  BY <1>0, <1>1, <1>2, <1>4, CallChanges
<1>5. CASE /\ action.kind \in {"save", "fill"}
           /\ workflows' = [workflows EXCEPT ![f] = action.content]
           /\ drafts' = [drafts EXCEPT ![action.base] = 0, ![f] = 0]
           /\ flow' \in {f, flow} /\ unseen' = unseen \ {f}
  <2>1. stored[f] = action.content \/ f \in meddled
    BY <1>0, <1>5 DEF PanelsInv, FlowInv, ActionStands
  <2>2. action.base = f \/ action.base \notin unseen
    BY <1>5, PanelsAssumption DEF PanelsInv, FlowInv, ActionStands, ListedIsStored
  <2>3. 0 \in FlowContent
    BY PanelsAssumption DEF FlowContent
  <2>4. PanelsTypeOK' /\ CallsTyped' /\ NothingYet'
    BY <1>0, <1>1, <1>3, <1>5, <2>3
       DEF PanelsInv, PanelsTypeOK, CallsTyped, NothingYet, Siting, FlowCall
  <2>5. ListedIsStored'
    BY <1>0, <1>3, <1>5, <2>1, <2>2
       DEF PanelsInv, PanelsTypeOK, FlowInv, ListedIsStored, Drafted
  <2>6. RunsAsShown'
    BY <1>0 DEF PanelsInv, FlowInv, RunsAsShown
  <2> QED
    BY <1>0, <1>2, <2>4, <2>5, <2>6, SitesRest DEF PanelsInv, FlowInv, Siting
<1> QED
  BY <1>0, <1>3, <1>4, <1>5 DEF ActionDone

-----------------------------------------------------------------------------
(* The workspace panel.                                                      *)
LEMMA SelectSiteKeeps == ASSUME PanelsInv, NEW w \in Sites, SelectSite(w) PROVE PanelsInv'
<1>0. /\ w \in sites /\ ChooseSite(w)
      /\ tangled' = (tangled \/ \E c \in removals : c.site = w)
      /\ UNCHANGED <<Server, loaded, sites, action, form, removals, edits, meddled,
                     unseen, workflows>>
  BY DEF SelectSite
<1>1. /\ chosen' = w /\ drafts' \in [Drafted -> FlowContent] /\ flow' \in Drafted \cup {NoFlow}
      /\ \A f \in Customs : drafts'[f] = drafts[f]
  BY <1>0, ChooseTypes DEF PanelsInv, PanelsTypeOK
<1>2. PanelsTypeOK' /\ CallsTyped' /\ NothingYet'
  BY <1>0, <1>1 DEF PanelsInv, PanelsTypeOK, CallsTyped, NothingYet, Server
<1>3. FlowInv'
  BY <1>0, <1>1, FlowsRest DEF Server
<1>4. SitesStand'
  BY <1>0, <1>1 DEF PanelsInv, SitesStand, SitesBusy, Server
<1> QED
  BY <1>2, <1>3, <1>4 DEF PanelsInv

(* A call leaves: alone, or the lists are tangled from then on.              *)
LEMMA SubmitKeeps ==
    ASSUME PanelsInv, NEW kind \in {"create", "update"}, NEW w \in Sites, Submit(kind, w)
    PROVE  PanelsInv'
<1>0. /\ form.kind = "none" /\ loaded /\ tangled' = (tangled \/ SitesBusy)
      /\ UNCHANGED <<Flowing, loaded, flow, chosen, there, sites, removals>>
      /\ form' = [kind |-> kind, site |-> w, list |-> sites, was |-> chosen, step |-> "asked"]
  BY DEF Submit, Asks
<1>1. form' \in FormCall /\ form'.site \in Sites
  BY <1>0 DEF FormCall, Steps, PanelsInv, PanelsTypeOK
<1>2. PanelsTypeOK' /\ CallsTyped' /\ NothingYet'
  BY <1>0, <1>1 DEF PanelsInv, PanelsTypeOK, CallsTyped, NothingYet, Flowing, SitesBusy
<1>3. FlowInv'
  BY <1>0, FlowsRest DEF Flowing
<1>4. SitesStand'
  BY <1>0 DEF PanelsInv, SitesStand, SitesBusy
<1> QED
  BY <1>2, <1>3, <1>4 DEF PanelsInv

LEMMA RemoveSiteKeeps == ASSUME PanelsInv, NEW w \in Sites, RemoveSite(w) PROVE PanelsInv'
<1> DEFINE c == [kind |-> "delete", site |-> w, list |-> sites, was |-> chosen,
                 step |-> "asked"]
<1>0. /\ loaded /\ tangled' = (tangled \/ SitesBusy)
      /\ UNCHANGED <<Flowing, loaded, flow, chosen, there, sites, form>>
      /\ removals' = removals \cup {c}
  BY DEF RemoveSite, Asks
<1>1. c \in Removal /\ c.list = sites /\ c.site = w /\ c.was = chosen /\ c.step = "asked"
  BY DEF Removal, Steps, PanelsInv, PanelsTypeOK
<1> HIDE DEF c
<1>2. PanelsTypeOK' /\ CallsTyped' /\ NothingYet'
  BY <1>0, <1>1
     DEF PanelsInv, PanelsTypeOK, CallsTyped, NothingYet, Flowing, SitesBusy
<1>3. FlowInv'
  BY <1>0, FlowsRest DEF Flowing
<1>4. SitesStand'
  BY <1>0, <1>1 DEF PanelsInv, SitesStand, SitesBusy
<1> QED
  BY <1>2, <1>3, <1>4 DEF PanelsInv

(* The server carries a call out or refuses it, or its reply is lost.        *)
LEMMA SteppedTypes ==
    ASSUME PanelsInv, NEW c \in removals \cup {form}, NEW step \in Steps, c.kind # "none",
           Stepped(c, step), UNCHANGED <<Flowing, loaded, flow, chosen, sites>>,
           there' \subseteq Sites, tangled' \in BOOLEAN
    PROVE  /\ PanelsTypeOK' /\ CallsTyped' /\ NothingYet'
           /\ FlowInv'
           /\ \/ c = form /\ form' = [form EXCEPT !.step = step] /\ removals' = removals
              \/ /\ c \in removals /\ form' = form
                 /\ removals' = (removals \ {c}) \cup {[c EXCEPT !.step = step]}
<1>1. CASE c = form
  <2>1. form' = [form EXCEPT !.step = step] /\ removals' = removals
    BY <1>1 DEF Stepped
  <2>2. form' \in FormCall /\ form'.kind = form.kind /\ form'.site = form.site /\ loaded
    BY <1>1, <2>1 DEF FormCall, PanelsInv, CallsTyped, NothingYet
  <2>3. PanelsTypeOK' /\ CallsTyped' /\ NothingYet'
    BY <2>1, <2>2
       DEF PanelsInv, PanelsTypeOK, CallsTyped, NothingYet, Flowing, FormCall, Steps
  <2> QED
    BY <1>1, <2>1, <2>3, FlowsRest DEF Flowing
<1>2. CASE c # form
  <2>1. /\ c \in removals /\ form' = form
        /\ removals' = (removals \ {c}) \cup {[c EXCEPT !.step = step]}
    BY <1>2 DEF Stepped
  <2>2. [c EXCEPT !.step = step] \in Removal /\ loaded
    BY <2>1 DEF Removal, PanelsInv, CallsTyped, NothingYet
  <2>3. PanelsTypeOK' /\ CallsTyped' /\ NothingYet'
    BY <2>1, <2>2
       DEF PanelsInv, PanelsTypeOK, CallsTyped, NothingYet, Flowing, Removal, Steps
  <2> QED
    BY <2>1, <2>3, FlowsRest DEF Flowing
<1> QED
  BY <1>1, <1>2

LEMMA ServeSiteKeeps ==
    ASSUME PanelsInv, NEW c \in removals \cup {form}, ServeSite(c) PROVE PanelsInv'
<1>0. /\ c.kind # "none" /\ c.step = "asked"
      /\ UNCHANGED <<Flowing, loaded, flow, chosen, sites, tangled>>
  BY DEF ServeSite
<1>1. PICK step \in {"done", "refused"} :
          /\ Stepped(c, step)
          /\ IF step = "refused" THEN there' = there
             ELSE /\ c.kind = "create" \/ c.site \in there
                  /\ there' = CASE c.kind = "create" -> there \cup {c.site}
                                [] c.kind = "delete" -> there \ {c.site}
                                [] OTHER -> there
  BY DEF ServeSite
<1>2. step \in Steps /\ c.site \in Sites /\ there \subseteq Sites /\ tangled \in BOOLEAN
  BY <1>0 DEF PanelsInv, PanelsTypeOK, CallsTyped, Steps, Removal
<1>3. there' \subseteq Sites
  BY <1>1, <1>2
<1>4. /\ PanelsTypeOK' /\ CallsTyped' /\ NothingYet' /\ FlowInv'
      /\ \/ c = form /\ form' = [form EXCEPT !.step = step] /\ removals' = removals
         \/ /\ c \in removals /\ form' = form
            /\ removals' = (removals \ {c}) \cup {[c EXCEPT !.step = step]}
  BY <1>0, <1>1, <1>2, <1>3, SteppedTypes
<1>5. CASE tangled
  BY <1>0, <1>4, <1>5 DEF PanelsInv, SitesStand
<1>6. CASE ~tangled /\ c = form /\ form' = [form EXCEPT !.step = step] /\ removals' = removals
  <2>1. /\ form'.kind = form.kind /\ form'.site = form.site /\ form'.list = form.list
        /\ form'.step = step /\ form.kind \in {"create", "update"}
    BY <1>0, <1>6 DEF PanelsInv, CallsTyped, FormCall
  <2>2. removals = {} /\ form.list = sites /\ there = sites
    BY <1>0, <1>6 DEF PanelsInv, SitesStand
  <2>3. there' = IF form.kind = "create" /\ step = "done" THEN sites \cup {form.site} ELSE sites
    BY <1>1, <1>6, <2>1, <2>2
  <2> QED
    BY <1>0, <1>4, <1>6, <2>1, <2>2, <2>3 DEF PanelsInv, SitesStand, SitesBusy
<1>7. CASE /\ ~tangled /\ c \in removals /\ form' = form
           /\ removals' = (removals \ {c}) \cup {[c EXCEPT !.step = step]}
  <2> DEFINE d == [c EXCEPT !.step = step]
  <2>1. /\ c.kind = "delete" /\ d.site = c.site /\ d.list = c.list /\ d.was = c.was
        /\ d.step = step
    BY <1>7 DEF PanelsInv, CallsTyped, Removal
  <2>2. /\ removals = {c} /\ form.kind = "none" /\ c.list = sites /\ there = sites
        /\ chosen = c.site => c.was = c.site
    BY <1>0, <1>7 DEF PanelsInv, SitesStand
  <2>3. removals' = {d} /\ there' = IF step = "done" THEN sites \ {c.site} ELSE sites
    BY <1>1, <1>7, <2>1, <2>2
  <2> HIDE DEF d
  <2> QED
    BY <1>0, <1>4, <1>7, <2>1, <2>2, <2>3 DEF PanelsInv, SitesStand, SitesBusy
<1> QED
  BY <1>4, <1>5, <1>6, <1>7 DEF PanelsInv

LEMMA LoseSiteKeeps ==
    ASSUME PanelsInv, NEW c \in removals \cup {form}, LoseSite(c) PROVE PanelsInv'
<1>0. /\ c.kind # "none" /\ c.step # "refused" /\ Stepped(c, "refused")
      /\ tangled' = (tangled \/ c.step = "done")
      /\ UNCHANGED <<Flowing, loaded, flow, chosen, sites, there>>
  BY DEF LoseSite
<1>1. "refused" \in Steps /\ tangled' \in BOOLEAN /\ there' \subseteq Sites
  BY <1>0 DEF PanelsInv, PanelsTypeOK, Steps
<1>2. /\ PanelsTypeOK' /\ CallsTyped' /\ NothingYet' /\ FlowInv'
      /\ \/ c = form /\ form' = [form EXCEPT !.step = "refused"] /\ removals' = removals
         \/ /\ c \in removals /\ form' = form
            /\ removals' = (removals \ {c}) \cup {[c EXCEPT !.step = "refused"]}
  BY <1>0, <1>1, SteppedTypes
<1>3. CASE tangled'
  <2>1. SitesStand'
    BY <1>3 DEF SitesStand
  <2> QED
    BY <1>2, <2>1 DEF PanelsInv
<1>4. CASE /\ ~tangled' /\ c = form /\ form' = [form EXCEPT !.step = "refused"]
           /\ removals' = removals
  <2>1. /\ form'.kind = form.kind /\ form'.site = form.site /\ form'.list = form.list
        /\ form'.step = "refused" /\ form.step = "asked"
    BY <1>0, <1>4 DEF PanelsInv, CallsTyped, FormCall, Steps
  <2>2. removals = {} /\ form.list = sites /\ there = sites
    BY <1>0, <1>4, <2>1 DEF PanelsInv, SitesStand
  <2> QED
    BY <1>0, <1>2, <1>4, <2>1, <2>2 DEF PanelsInv, SitesStand, SitesBusy
<1>5. CASE /\ ~tangled' /\ c \in removals /\ form' = form
           /\ removals' = (removals \ {c}) \cup {[c EXCEPT !.step = "refused"]}
  <2> DEFINE d == [c EXCEPT !.step = "refused"]
  <2>1. /\ d.site = c.site /\ d.list = c.list /\ d.was = c.was
        /\ d.step = "refused" /\ c.step = "asked"
    BY <1>0, <1>5 DEF PanelsInv, CallsTyped, Removal, Steps
  <2>2. /\ removals = {c} /\ form.kind = "none" /\ c.list = sites /\ there = sites
        /\ chosen = c.site => c.was = c.site
    BY <1>0, <1>5, <2>1 DEF PanelsInv, SitesStand
  <2>3. removals' = {d}
    BY <1>5, <2>2
  <2> HIDE DEF d
  <2> QED
    BY <1>0, <1>2, <1>5, <2>1, <2>2, <2>3 DEF PanelsInv, SitesStand, SitesBusy
<1> QED
  BY <1>2, <1>3, <1>4, <1>5 DEF PanelsInv

(* The panel goes on with the reply.                                         *)
LEMMA FormDoneKeeps == ASSUME PanelsInv, FormDone PROVE PanelsInv'
<1>0. /\ form.kind # "none" /\ form.step # "asked" /\ form' = RestForm
      /\ UNCHANGED <<Server, workflows, loaded, action, removals, edits, meddled, unseen,
                     tangled>>
  BY DEF FormDone
<1>1. /\ form \in FormCall /\ form.site \in Sites /\ form.list \subseteq Sites /\ loaded
      /\ workflows' \in [Drafted -> FlowContent]
  BY <1>0 DEF PanelsInv, PanelsTypeOK, CallsTyped, FormCall, NothingYet
<1>2. form' \in FormCall /\ form'.kind = "none" /\ form'.step = "asked"
  BY <1>0 DEF RestForm, FormCall, Steps
<1>3. /\ sites' \subseteq Sites /\ chosen' \in Sites \cup {NoSite}
      /\ drafts' \in [Drafted -> FlowContent] /\ flow' \in Drafted \cup {NoFlow}
      /\ \A f \in Customs : drafts'[f] = drafts[f]
  <2>1. CASE form.step = "done" /\ form.kind = "create"
    <3>1. sites' = form.list \cup {form.site} /\ ChooseSite(form.site)
      BY <2>1 DEF FormDone
    <3>2. /\ chosen' = form.site
          /\ drafts' \in [Drafted -> FlowContent] /\ flow' \in Drafted \cup {NoFlow}
          /\ \A f \in Customs : drafts'[f] = drafts[f]
      BY <1>1, <3>1, ChooseTypes
    <3> QED
      BY <1>1, <3>1, <3>2
  <2>2. CASE ~(form.step = "done" /\ form.kind = "create")
    BY <1>1, <2>2 DEF FormDone, PanelsInv, PanelsTypeOK
  <2> QED
    BY <2>1, <2>2
<1>4. PanelsTypeOK' /\ CallsTyped' /\ NothingYet'
  BY <1>0, <1>1, <1>2, <1>3 DEF PanelsInv, PanelsTypeOK, CallsTyped, NothingYet, Server
<1>5. FlowInv'
  BY <1>0, <1>3, FlowsRest DEF Server
<1>6. SitesStand'
  <2> SUFFICES ASSUME ~tangled PROVE SitesStand'
    BY <1>0 DEF SitesStand
  <2>1. /\ removals = {} /\ form.list = sites
        /\ there = IF form.kind = "create" /\ form.step = "done"
                   THEN sites \cup {form.site} ELSE sites
        /\ chosen \in IF sites = {} THEN {NoSite} ELSE sites
    BY <1>0, <1>1 DEF PanelsInv, SitesStand
  <2>2. there' = sites' /\ chosen' \in IF sites' = {} THEN {NoSite} ELSE sites'
    BY <1>0, <2>1 DEF FormDone, ChooseSite, Server
  <2> QED
    BY <1>0, <1>2, <2>1, <2>2 DEF SitesStand
<1> QED
  BY <1>4, <1>5, <1>6 DEF PanelsInv

LEMMA RemoveDoneKeeps ==
    ASSUME PanelsInv, NEW c \in removals, RemoveDone(c) PROVE PanelsInv'
<1> DEFINE remaining == c.list \ {c.site}
<1>0. /\ c.step # "asked" /\ removals' = removals \ {c}
      /\ UNCHANGED <<Server, workflows, loaded, action, form, edits, meddled, unseen,
                     tangled>>
  BY DEF RemoveDone
<1>1. /\ c \in Removal /\ c.site \in Sites /\ remaining \subseteq Sites /\ loaded
      /\ workflows' \in [Drafted -> FlowContent]
  BY <1>0 DEF PanelsInv, PanelsTypeOK, CallsTyped, Removal, NothingYet
<1>2. \/ UNCHANGED <<sites, chosen, drafts, flow>> /\ c.step # "done"
      \/ /\ UNCHANGED <<chosen, drafts, flow>> /\ c.was # c.site
         /\ sites' = remaining /\ c.step = "done"
      \/ /\ sites' = remaining /\ c.step = "done"
         /\ \E w \in IF remaining = {} THEN {NoSite} ELSE remaining : ChooseSite(w)
  BY DEF RemoveDone
<1> HIDE DEF remaining
<1>3. /\ sites' \subseteq Sites /\ chosen' \in Sites \cup {NoSite}
      /\ drafts' \in [Drafted -> FlowContent] /\ flow' \in Drafted \cup {NoFlow}
      /\ \A f \in Customs : drafts'[f] = drafts[f]
  <2>1. CASE UNCHANGED <<chosen, drafts, flow>> /\ sites' \in {sites, remaining}
    BY <1>1, <2>1 DEF PanelsInv, PanelsTypeOK
  <2>2. ASSUME sites' = remaining,
               NEW w \in IF remaining = {} THEN {NoSite} ELSE remaining, ChooseSite(w)
        PROVE  /\ sites' \subseteq Sites /\ chosen' \in Sites \cup {NoSite}
               /\ drafts' \in [Drafted -> FlowContent] /\ flow' \in Drafted \cup {NoFlow}
               /\ \A f \in Customs : drafts'[f] = drafts[f]
    <3>1. w \in Sites \cup {NoSite}
      BY <1>1
    <3>2. /\ chosen' = w
          /\ drafts' \in [Drafted -> FlowContent] /\ flow' \in Drafted \cup {NoFlow}
          /\ \A f \in Customs : drafts'[f] = drafts[f]
      BY <1>1, <2>2, <3>1, ChooseTypes
    <3> QED
      BY <1>1, <2>2, <3>1, <3>2
  <2> QED
    BY <1>2, <2>1, <2>2
<1>4. PanelsTypeOK' /\ CallsTyped' /\ NothingYet'
  BY <1>0, <1>1, <1>3 DEF PanelsInv, PanelsTypeOK, CallsTyped, NothingYet, Server
<1>5. FlowInv'
  BY <1>0, <1>3, FlowsRest DEF Server
<1>6. SitesStand'
  <2> SUFFICES ASSUME ~tangled PROVE SitesStand'
    BY <1>0 DEF SitesStand
  <2>1. /\ removals = {c} /\ form.kind = "none" /\ c.list = sites
        /\ chosen = c.site => c.was = c.site
        /\ there = IF c.step = "done" THEN sites \ {c.site} ELSE sites
        /\ chosen \in IF sites = {} THEN {NoSite} ELSE sites
        /\ form.kind # "none" => form.list = sites
    BY <1>1 DEF PanelsInv, SitesStand
  <2>2. there' = sites' /\ chosen' \in IF sites' = {} THEN {NoSite} ELSE sites'
    BY <1>0, <1>2, <2>1 DEF ChooseSite, Server, remaining
  <2>3. removals' = {} /\ form'.kind = "none"
    BY <1>0, <2>1
  <2> QED
    BY <1>0, <2>2, <2>3 DEF SitesStand
<1> QED
  BY <1>4, <1>5, <1>6 DEF PanelsInv

LEMMA PanelsRest == ASSUME PanelsInv, UNCHANGED panelsVars PROVE PanelsInv'
<1>1. PanelsTypeOK' /\ CallsTyped' /\ NothingYet'
  BY DEF PanelsInv, PanelsTypeOK, CallsTyped, NothingYet, panelsVars
<1>2. FlowInv' /\ SitesStand'
  BY FlowsRest, SitesRest DEF panelsVars
<1> QED
  BY <1>1, <1>2 DEF PanelsInv

LEMMA PanelsStep == ASSUME PanelsInv, [PanelsNext]_panelsVars PROVE PanelsInv'
<1>1. CASE FlowPanel
  BY <1>1, EditKeeps, ButtonsKeep, CallEndsKeep, ActionDoneKeeps, SelectFlowKeeps
     DEF FlowPanel
<1>2. CASE SitePanel
  <2>1. CASE \E w \in sites : Submit("update", w)
    <3>1. sites \subseteq Sites
      BY DEF PanelsInv, PanelsTypeOK
    <3> QED
      BY <2>1, <3>1, SubmitKeeps
  <2> QED
    BY <1>2, <2>1, FormDoneKeeps, SelectSiteKeeps, RemoveSiteKeeps, SubmitKeeps,
       RemoveDoneKeeps DEF SitePanel
<1>3. CASE Answers
  BY <1>3, ServeRunKeeps, ServeSaveKeeps, ServeCopyKeeps, CallEndsKeep, ServeSiteKeeps,
     LoseSiteKeeps DEF Answers
<1> QED
  BY <1>1, <1>2, <1>3, LoadKeeps, MeddleKeeps, PanelsRest DEF PanelsNext

(* A run is made of the workflow as the page showed it, and the lists of the *)
(* page follow those of the server, whatever replies are lost (startRun,     *)
(* saveCustom, duplicateBuiltin, submitWorkspace, deleteWorkspace).          *)
THEOREM PanelsFollowHolds == PanelsSpec => []PanelsFollow
<1>1. PanelsInv => PanelsFollow
  <2> SUFFICES ASSUME PanelsInv PROVE PanelsFollow
    OBVIOUS
  <2>1. ListsFollow
    BY DEF PanelsInv, FlowInv, ListedIsStored, SitesStand, ListsFollow
  <2> QED
    BY <2>1 DEF PanelsInv, FlowInv, PanelsFollow
<1>2. PanelsInv /\ [PanelsNext]_panelsVars => PanelsInv'
  BY PanelsStep
<1> QED
  BY <1>1, <1>2, PanelsStart, PTL DEF PanelsSpec

---------------------------------------------------------------------------
(* The runs on the page. A feed is a queue of frames about runs with given   *)
(* revisions: it is in order, and says nothing that is not so.               *)
Frames(fr) == 1..Len(fr)
Feed(rv, fr) ==
    /\ rv \in [Items -> Nat] /\ fr \in Seq(Items \X Nat)
    /\ \A i \in Frames(fr) : fr[i][2] <= rv[fr[i][1]]
    /\ \A i, j \in Frames(fr) : i < j /\ fr[i][1] = fr[j][1] => fr[i][2] < fr[j][2]

OneWorks(rv, w) == \A r, s \in RunsOf(w) : Working(rv[r]) /\ Working(rv[s]) => r = s

Sent(fr, r, v) == \E i \in Frames(fr) : fr[i] = <<r, v>>

(* The page knows revisions k of the runs of workspace w, and what is under  *)
(* way will bring the rest: every later revision, and after each of these    *)
(* the start of the run that works.                                          *)
Coming(rv, fr, w, k) ==
    /\ \A r \in RunsOf(w) : \A v \in (k[r] + 1)..rv[r] : Sent(fr, r, v)
    /\ \A i \in Frames(fr) : Owner[fr[i][1]] = w /\ fr[i][2] > k[fr[i][1]] =>
           \A u \in RunsOf(w) : Working(rv[u]) =>
               \E j \in Frames(fr) : i <= j /\ fr[j] = <<u, rv[u]>>

(* It has a as the active run, and what is under way will bring the end of   *)
(* a, unless it works, and the start of what works, unless it is a.          *)
Good(rv, fr, w, k, a) ==
    /\ Coming(rv, fr, w, k)
    /\ a # 0 => a \in RunsOf(w) /\ (Working(rv[a]) \/ Sent(fr, a, rv[a]))
    /\ \A u \in RunsOf(w) : Working(rv[u]) /\ u # a => Sent(fr, u, rv[u])

LEMMA ItemsAre == Items = 1..Len(Owner) /\ Len(Owner) \in Nat /\ 0 \notin Items
  BY PageAssumption DEF Items

LEMMA Parity == \A v \in Nat : Working(v + 1) <=> ~Working(v)
  BY DEF Working

LEMMA RunsAre ==
    \A w : RunsOf(w) \subseteq Items /\ \A r \in Items : r \in RunsOf(w) <=> Owner[r] = w
  BY DEF RunsOf

(* A change of run s joins the feed: its start, if no other works, or its end. *)
LEMMA FeedGrows ==
    ASSUME NEW rv, NEW fr, Feed(rv, fr), NEW s \in Items
    PROVE  /\ Feed([rv EXCEPT ![s] = @ + 1], Append(fr, <<s, rv[s] + 1>>))
           /\ \A r, v : Sent(fr, r, v) => Sent(Append(fr, <<s, rv[s] + 1>>), r, v)
           /\ Sent(Append(fr, <<s, rv[s] + 1>>), s, rv[s] + 1)
<1> DEFINE f == <<s, rv[s] + 1>>
           fr2 == Append(fr, f)
           rv2 == [rv EXCEPT ![s] = @ + 1]
<1>1. rv \in [Items -> Nat] /\ fr \in Seq(Items \X Nat) /\ f \in Items \X Nat
  BY DEF Feed
<1>2. /\ fr2 \in Seq(Items \X Nat) /\ Len(fr2) = Len(fr) + 1 /\ Len(fr) \in Nat
      /\ \A i \in 1..Len(fr) : fr2[i] = fr[i]
      /\ fr2[Len(fr) + 1] = f
  BY <1>1
<1>3. /\ rv2 \in [Items -> Nat] /\ rv2[s] = rv[s] + 1
      /\ \A r \in Items : rv[r] \in Nat /\ rv[r] <= rv2[r] /\ rv2[r] \in Nat
  BY <1>1
<1>4. f[1] = s /\ f[2] = rv[s] + 1
  OBVIOUS
<1>5. \A i \in Frames(fr) : fr[i] \in Items \X Nat /\ fr[i][1] \in Items /\ fr[i][2] \in Nat
  BY <1>1 DEF Frames
<1> HIDE DEF f, fr2, rv2
<1>6. \A i \in Frames(fr2) : fr2[i][2] <= rv2[fr2[i][1]]
  <2> SUFFICES ASSUME NEW i \in Frames(fr2) PROVE fr2[i][2] <= rv2[fr2[i][1]]
    OBVIOUS
  <2>1. CASE i \in 1..Len(fr)
    <3>1. fr2[i] = fr[i] /\ fr[i][2] <= rv[fr[i][1]] /\ fr[i][1] \in Items /\ fr[i][2] \in Nat
      BY <1>2, <1>5, <2>1 DEF Feed, Frames
    <3>2. rv[fr[i][1]] \in Nat /\ rv[fr[i][1]] <= rv2[fr[i][1]] /\ rv2[fr[i][1]] \in Nat
      BY <1>1, <1>3, <3>1
    <3> QED
      BY <3>1, <3>2
  <2>2. CASE i = Len(fr) + 1
    BY <1>1, <1>2, <1>3, <1>4, <2>2
  <2> QED
    BY <1>2, <2>1, <2>2 DEF Frames
<1>7. \A i, j \in Frames(fr2) : i < j /\ fr2[i][1] = fr2[j][1] => fr2[i][2] < fr2[j][2]
  <2> SUFFICES ASSUME NEW i \in Frames(fr2), NEW j \in Frames(fr2), i < j,
                      fr2[i][1] = fr2[j][1]
               PROVE  fr2[i][2] < fr2[j][2]
    OBVIOUS
  <2>0. i \in Frames(fr) /\ i \in 1..Len(fr)
    BY <1>2 DEF Frames
  <2>1. fr2[i] = fr[i] /\ fr[i][2] <= rv[fr[i][1]] /\ fr[i][2] \in Nat
    BY <1>2, <1>5, <2>0 DEF Feed
  <2>2. CASE j \in 1..Len(fr)
    <3>1. fr2[j] = fr[j] /\ i \in Frames(fr) /\ j \in Frames(fr)
      BY <1>2, <2>0, <2>2 DEF Frames
    <3>2. fr[i][1] = fr[j][1]
      BY <2>1, <3>1
    <3>3. fr[i][2] < fr[j][2]
      BY <3>1, <3>2 DEF Feed
    <3> QED
      BY <2>1, <3>1, <3>3
  <2>3. CASE j = Len(fr) + 1
    <3>1. fr[i][1] = s /\ rv[s] \in Nat /\ fr2[j][2] = rv[s] + 1
      BY <1>1, <1>2, <1>4, <2>1, <2>3
    <3>2. fr2[i][2] <= rv[s] /\ fr2[i][2] \in Nat
      BY <2>1, <3>1
    <3> QED
      BY <3>1, <3>2
  <2>4. Len(fr) \in Nat /\ j \in 1..(Len(fr) + 1)
    BY <1>2 DEF Frames
  <2>5. j \in 1..Len(fr) \/ j = Len(fr) + 1
    BY <2>4
  <2> QED
    BY <2>2, <2>3, <2>5
<1>8. Feed(rv2, fr2)
  BY <1>2, <1>3, <1>6, <1>7 DEF Feed
<1>9. ASSUME NEW r, NEW v, Sent(fr, r, v) PROVE Sent(fr2, r, v)
  <2>1. PICK i \in 1..Len(fr) : fr[i] = <<r, v>>
    BY <1>9 DEF Sent, Frames
  <2>2. i \in Frames(fr2) /\ fr2[i] = <<r, v>>
    BY <1>2, <2>1 DEF Frames
  <2> QED
    BY <2>2 DEF Sent
<1>10. Sent(fr2, s, rv[s] + 1)
  BY <1>2 DEF Sent, Frames, f
<1> QED
  BY <1>8, <1>9, <1>10 DEF fr2, rv2, f

LEMMA GoodGrows ==
    ASSUME NEW rv, NEW fr, Feed(rv, fr), NEW s \in Items, NEW w, OneWorks(rv, w),
           Working(rv[s]) \/ \A r \in RunsOf(Owner[s]) : ~Working(rv[r])
    PROVE  /\ OneWorks([rv EXCEPT ![s] = @ + 1], w)
           /\ \A a \in Items \cup {0}, k \in [Items -> Nat] : Good(rv, fr, w, k, a) =>
                  Good([rv EXCEPT ![s] = @ + 1], Append(fr, <<s, rv[s] + 1>>), w, k, a)
<1> DEFINE f == <<s, rv[s] + 1>>
           fr2 == Append(fr, f)
           rv2 == [rv EXCEPT ![s] = @ + 1]
<1>1. rv \in [Items -> Nat] /\ fr \in Seq(Items \X Nat) /\ f \in Items \X Nat
  BY DEF Feed
<1>2. /\ Len(fr2) = Len(fr) + 1 /\ Len(fr) \in Nat
      /\ \A i \in 1..Len(fr) : fr2[i] = fr[i]
      /\ fr2[Len(fr) + 1] = f /\ f[1] = s /\ f[2] = rv[s] + 1
  BY <1>1
<1>3. /\ rv2[s] = rv[s] + 1 /\ \A r \in Items \ {s} : rv2[r] = rv[r]
      /\ \A r \in Items : rv[r] \in Nat /\ rv2[r] \in Nat
  BY <1>1
<1>4. /\ \A r, v : Sent(fr, r, v) => Sent(fr2, r, v)
      /\ Sent(fr2, s, rv[s] + 1)
  BY FeedGrows
<1>5. Working(rv2[s]) <=> ~Working(rv[s])
  BY <1>1, <1>3, Parity
<1> HIDE DEF f, fr2, rv2
<1>6. OneWorks(rv2, w)
  BY <1>3, <1>5, RunsAre DEF OneWorks
<1>7. ASSUME NEW a \in Items \cup {0}, NEW k \in [Items -> Nat], Good(rv, fr, w, k, a)
      PROVE  Good(rv2, fr2, w, k, a)
  <2>1. \A r \in RunsOf(w) : \A v \in (k[r] + 1)..rv2[r] : Sent(fr2, r, v)
    <3> SUFFICES ASSUME NEW r \in RunsOf(w), NEW v \in (k[r] + 1)..rv2[r]
                 PROVE  Sent(fr2, r, v)
      OBVIOUS
    <3>1. r \in Items /\ k[r] \in Nat /\ rv[r] \in Nat /\ rv2[r] \in Nat /\ v \in Nat
      BY <1>1, <1>3, <1>7, RunsAre
    <3>2. CASE v <= rv[r]
      BY <1>4, <1>7, <3>1, <3>2 DEF Good, Coming
    <3>3. CASE v > rv[r]
      <4>1. r = s /\ v = rv[s] + 1
        BY <1>3, <3>1, <3>3
      <4> QED
        BY <1>4, <4>1
    <3> QED
      BY <3>1, <3>2, <3>3
  <2>2. ASSUME NEW i \in Frames(fr2), Owner[fr2[i][1]] = w, fr2[i][2] > k[fr2[i][1]],
               NEW u \in RunsOf(w), Working(rv2[u])
        PROVE  \E j \in Frames(fr2) : i <= j /\ fr2[j] = <<u, rv2[u]>>
    <3>1. u \in Items
      BY RunsAre
    <3>2. CASE u = s
      <4>1. fr2[Len(fr) + 1] = <<u, rv2[u]>> /\ Len(fr) + 1 \in Frames(fr2)
            /\ i <= Len(fr) + 1
        BY <1>2, <1>3, <3>1, <3>2 DEF Frames, f
      <4> QED
        BY <4>1
    <3>3. CASE u # s
      <4>1. rv2[u] = rv[u] /\ Working(rv[u])
        BY <1>3, <2>2, <3>1, <3>3
      <4>2. i # Len(fr) + 1
        <5> SUFFICES ASSUME i = Len(fr) + 1 PROVE FALSE
          OBVIOUS
        <5>1. Owner[s] = w /\ s \in RunsOf(w)
          BY <1>2, <2>2, RunsAre
        <5> QED
          BY <3>3, <4>1, <5>1 DEF OneWorks
      <4>3. i \in Frames(fr) /\ fr2[i] = fr[i]
        BY <1>2, <4>2 DEF Frames
      <4>4. PICK j \in Frames(fr) : i <= j /\ fr[j] = <<u, rv[u]>>
        BY <1>7, <2>2, <4>1, <4>3 DEF Good, Coming
      <4>5. j \in Frames(fr2) /\ fr2[j] = fr[j]
        BY <1>2 DEF Frames
      <4> QED
        BY <4>1, <4>4, <4>5
    <3> QED
      BY <3>2, <3>3
  <2>3. a # 0 => a \in RunsOf(w) /\ (Working(rv2[a]) \/ Sent(fr2, a, rv2[a]))
    BY <1>3, <1>4, <1>7, RunsAre DEF Good
  <2>4. \A u \in RunsOf(w) : Working(rv2[u]) /\ u # a => Sent(fr2, u, rv2[u])
    BY <1>3, <1>4, <1>7, RunsAre DEF Good
  <2> QED
    BY <2>1, <2>2, <2>3, <2>4 DEF Good, Coming
<1> QED
  BY <1>6, <1>7 DEF fr2, rv2, f

(* Snapshots that are newer than those of the page change nothing of it.     *)
LEMMA GoodNewer ==
    ASSUME NEW rv, NEW fr, Feed(rv, fr), NEW w, NEW k \in [Items -> Nat],
           NEW k2 \in [Items -> Nat], NEW a, Good(rv, fr, w, k, a),
           \A r \in RunsOf(w) : k[r] <= k2[r]
    PROVE  Good(rv, fr, w, k2, a)
<1>1. \A r \in RunsOf(w) : r \in Items /\ k[r] \in Nat /\ k2[r] \in Nat /\ rv[r] \in Nat
  BY RunsAre DEF Feed
<1>2. \A i \in Frames(fr) : fr[i][1] \in Items /\ fr[i][2] \in Nat
  BY DEF Feed, Frames
<1>3. ASSUME NEW r \in RunsOf(w), NEW v \in (k2[r] + 1)..rv[r] PROVE Sent(fr, r, v)
  <2>1. v \in (k[r] + 1)..rv[r]
    BY <1>1
  <2> QED
    BY <2>1 DEF Good, Coming
<1>4. ASSUME NEW i \in Frames(fr), Owner[fr[i][1]] = w, fr[i][2] > k2[fr[i][1]]
      PROVE  fr[i][2] > k[fr[i][1]]
  BY <1>1, <1>2, <1>4, RunsAre
<1> QED
  BY <1>3, <1>4 DEF Good, Coming

(* The first frame leaves the feed.                                          *)
Shorter(fr, tl) ==
    /\ 1 \in Frames(fr)
    /\ \A i \in Frames(fr) : i # 1 => i - 1 \in Frames(tl) /\ tl[i - 1] = fr[i]
    /\ \A i \in Frames(tl) : i + 1 \in Frames(fr) /\ tl[i] = fr[i + 1]

LEMMA FeedShrinks ==
    ASSUME NEW rv, NEW fr, Feed(rv, fr), fr # <<>>
    PROVE  /\ Feed(rv, Tail(fr)) /\ Shorter(fr, Tail(fr)) /\ Head(fr) = fr[1]
           /\ fr[1][1] \in Items /\ fr[1][2] \in Nat
<1>1. fr \in Seq(Items \X Nat) /\ Len(fr) \in Nat /\ Len(fr) # 0
  BY DEF Feed
<1>2. /\ Tail(fr) \in Seq(Items \X Nat) /\ Len(Tail(fr)) = Len(fr) - 1
      /\ \A i \in 1..(Len(fr) - 1) : Tail(fr)[i] = fr[i + 1]
      /\ Head(fr) = fr[1] /\ fr[1] \in Items \X Nat
  BY <1>1
<1>3. \A i \in Frames(Tail(fr)) : i + 1 \in Frames(fr) /\ Tail(fr)[i] = fr[i + 1]
  BY <1>1, <1>2 DEF Frames
<1>4. \A i \in Frames(fr) : i # 1 => i - 1 \in Frames(Tail(fr)) /\ Tail(fr)[i - 1] = fr[i]
  <2> SUFFICES ASSUME NEW i \in Frames(fr), i # 1
               PROVE  i - 1 \in Frames(Tail(fr)) /\ Tail(fr)[i - 1] = fr[i]
    OBVIOUS
  <2>1. i - 1 \in 1..(Len(fr) - 1) /\ (i - 1) + 1 = i
    BY <1>1 DEF Frames
  <2> QED
    BY <1>2, <2>1 DEF Frames
<1>5. Feed(rv, Tail(fr))
  <2>1. \A i \in Frames(Tail(fr)) : Tail(fr)[i][2] <= rv[Tail(fr)[i][1]]
    BY <1>3 DEF Feed
  <2>2. ASSUME NEW i \in Frames(Tail(fr)), NEW j \in Frames(Tail(fr)), i < j,
               Tail(fr)[i][1] = Tail(fr)[j][1]
        PROVE  Tail(fr)[i][2] < Tail(fr)[j][2]
    <3>1. i + 1 \in Frames(fr) /\ j + 1 \in Frames(fr) /\ i + 1 < j + 1
      BY <1>3, <2>2 DEF Frames
    <3>2. Tail(fr)[i] = fr[i + 1] /\ Tail(fr)[j] = fr[j + 1]
      BY <1>3
    <3>3. fr[i + 1][1] = fr[j + 1][1]
      BY <2>2, <3>2, Zenon
    <3>4. fr[i + 1][2] < fr[j + 1][2]
      BY <3>1, <3>3 DEF Feed
    <3> QED
      BY <3>2, <3>4
  <2> QED
    BY <1>2, <2>1, <2>2 DEF Feed
<1>6. fr[1] \in Items \X Nat /\ 1 \in Frames(fr)
  BY <1>1, <1>2 DEF Frames
<1> QED
  BY <1>2, <1>3, <1>4, <1>5, <1>6 DEF Shorter

LEMMA StillSent ==
    ASSUME NEW fr, NEW tl, Shorter(fr, tl), NEW r, NEW v, Sent(fr, r, v), fr[1] # <<r, v>>
    PROVE  Sent(tl, r, v)
<1>1. PICK i \in Frames(fr) : fr[i] = <<r, v>>
  BY DEF Sent
<1>2. i - 1 \in Frames(tl) /\ tl[i - 1] = <<r, v>>
  BY <1>1 DEF Shorter
<1> QED
  BY <1>2 DEF Sent

(* What is sent of run r beyond its first frame is still sent.               *)
LEMMA GoodTail ==
    ASSUME NEW rv, NEW fr, Feed(rv, fr), NEW tl, Shorter(fr, tl), NEW w, NEW k \in [Items -> Nat],
           NEW k2 \in [Items -> Nat], NEW a, Good(rv, fr, w, k, a),
           \A r \in RunsOf(w) : k[r] <= k2[r],
           fr[1][1] \in RunsOf(w) => fr[1][2] <= k2[fr[1][1]]
    PROVE  Coming(rv, tl, w, k2)
<1>0. Good(rv, fr, w, k2, a)
  BY GoodNewer
<1>1. \A r \in RunsOf(w) : r \in Items /\ k2[r] \in Nat /\ rv[r] \in Nat
  BY RunsAre DEF Feed
<1>2. ASSUME NEW r \in RunsOf(w), NEW v \in (k2[r] + 1)..rv[r] PROVE Sent(tl, r, v)
  <2>1. Sent(fr, r, v)
    BY <1>0 DEF Good, Coming
  <2>2. fr[1] # <<r, v>>
    <3> SUFFICES ASSUME fr[1] = <<r, v>> PROVE FALSE
      OBVIOUS
    <3>1. fr[1][1] = r /\ fr[1][2] = v
      OBVIOUS
    <3>2. v <= k2[r]
      BY <3>1
    <3> QED
      BY <1>1, <3>2
  <2> QED
    BY <2>1, <2>2, StillSent
<1>3. ASSUME NEW i \in Frames(tl), Owner[tl[i][1]] = w,
             tl[i][2] > k2[tl[i][1]], NEW u \in RunsOf(w), Working(rv[u])
      PROVE  \E j \in Frames(tl) : i <= j /\ tl[j] = <<u, rv[u]>>
  <2>1. i + 1 \in Frames(fr) /\ tl[i] = fr[i + 1]
    BY DEF Shorter
  <2>2. Owner[fr[i + 1][1]] = w /\ fr[i + 1][2] > k2[fr[i + 1][1]]
    BY <1>3, <2>1, Zenon
  <2>3. PICK j \in Frames(fr) : i + 1 <= j /\ fr[j] = <<u, rv[u]>>
    BY <1>0, <1>3, <2>1, <2>2 DEF Good, Coming
  <2>4. j # 1 /\ i <= j - 1
    BY <2>3 DEF Frames
  <2>5. j - 1 \in Frames(tl) /\ tl[j - 1] = fr[j]
    BY <2>3, <2>4 DEF Shorter
  <2> QED
    BY <2>3, <2>4, <2>5
<1> QED
  BY <1>2, <1>3 DEF Coming

(* A frame arrives, of the revision that the page then has, and the page     *)
(* makes of its active run what applyWsMsg makes of it.                      *)
\* the page makes r its active run when it learns that r is at revision v
Picks(w, k, a, r, v) ==
    Owner[r] = w /\ Working(v) /\ (a \notin {0, r} => ~Working(k[a]))

LEMMA GoodFrame ==
    ASSUME NEW rv, NEW fr, Feed(rv, fr), NEW tl, Shorter(fr, tl), NEW w, OneWorks(rv, w),
           NEW k \in [Items -> Nat], NEW a \in Items \cup {0}, Good(rv, fr, w, k, a),
           \A s \in Items : k[s] <= rv[s], NEW r, NEW v, fr[1] = <<r, v>>, k[r] <= v,
           NEW k2, k2 = [k EXCEPT ![r] = v],
           NEW b, b = IF Picks(w, k, a, r, v) THEN r
                      ELSE IF a = r /\ ~Working(v) THEN 0 ELSE a
    PROVE  Good(rv, tl, w, k2, b)
<1>1. /\ r \in Items /\ v \in Nat /\ v <= rv[r] /\ fr[1][1] = r /\ fr[1][2] = v
      /\ 1 \in Frames(fr)
  <2>1. 1 \in Frames(fr) /\ fr \in Seq(Items \X Nat) /\ fr[1][1] = r /\ fr[1][2] = v
    BY DEF Shorter, Feed
  <2>2. fr[1] \in Items \X Nat
    BY <2>1 DEF Frames
  <2> QED
    BY <2>1, <2>2 DEF Feed
<1>2. /\ \A s \in RunsOf(w) : s \in Items /\ k[s] \in Nat /\ rv[s] \in Nat
      /\ k2 \in [Items -> Nat] /\ k2[r] = v /\ \A s \in RunsOf(w) : k[s] <= k2[s]
      /\ rv \in [Items -> Nat]
  BY <1>1, RunsAre DEF Feed
<1>3. \A s, x : Sent(fr, s, x) /\ <<s, x>> # <<r, v>> => Sent(tl, s, x)
  BY StillSent
<1>4. Coming(rv, tl, w, k2)
  <2>1. fr[1][1] \in RunsOf(w) => fr[1][2] <= k2[fr[1][1]]
    BY <1>1, <1>2
  <2> QED
    BY <1>2, <2>1, GoodTail
<1>5. \A s \in RunsOf(w) : s # r /\ k[s] # rv[s] /\ k[s] <= rv[s] => Sent(tl, s, rv[s])
  <2> SUFFICES ASSUME NEW s \in RunsOf(w), s # r, k[s] # rv[s], k[s] <= rv[s]
               PROVE  Sent(tl, s, rv[s])
    OBVIOUS
  <2>1. rv[s] \in (k[s] + 1)..rv[s]
    BY <1>2
  <2> QED
    BY <1>3, <2>1 DEF Good, Coming
<1>6. r \in RunsOf(w) /\ v # rv[r] => Sent(tl, r, rv[r])
  <2> SUFFICES ASSUME r \in RunsOf(w), v # rv[r] PROVE Sent(tl, r, rv[r])
    OBVIOUS
  <2>1. rv[r] \in (k2[r] + 1)..rv[r]
    BY <1>1, <1>2
  <2> QED
    BY <1>4, <2>1 DEF Coming
<1>7. CASE Picks(w, k, a, r, v)
  <2>1. b = r /\ r \in RunsOf(w) /\ Working(v) /\ (a \notin {0, r} => ~Working(k[a]))
    BY <1>1, <1>7, RunsAre DEF Picks
  <2>2. Working(rv[r]) \/ Sent(tl, r, rv[r])
    BY <1>6, <2>1
  <2>3. ASSUME NEW u \in RunsOf(w), Working(rv[u]), u # r PROVE Sent(tl, u, rv[u])
    <3>1. CASE u # a
      BY <1>3, <2>3, <3>1 DEF Good
    <3>2. CASE u = a
      <4>1. ~Working(k[u]) /\ k[u] # rv[u] /\ u # 0
        BY <2>1, <2>3, <3>2, RunsAre, ItemsAre
      <4>2. k[u] <= rv[u]
        BY <1>2, <2>3
      <4> QED
        BY <1>5, <2>3, <4>1, <4>2
    <3> QED
      BY <3>1, <3>2
  <2>4. r # 0 => r \in RunsOf(w)
    BY <2>1
  <2> QED
    BY <1>4, <2>1, <2>2, <2>3 DEF Good
<1>8. CASE ~Picks(w, k, a, r, v) /\ a = r /\ ~Working(v)
  <2>1. b = 0
    BY <1>8
  <2>2. ASSUME NEW u \in RunsOf(w), Working(rv[u]) PROVE Sent(tl, u, rv[u])
    <3>1. CASE u # r
      <4>1. Sent(fr, u, rv[u])
        BY <1>8, <2>2, <3>1 DEF Good
      <4> QED
        BY <1>3, <3>1, <4>1
    <3>2. CASE u = r
      BY <1>6, <1>8, <2>2, <3>2
    <3> QED
      BY <3>1, <3>2
  <2> QED
    BY <1>4, <2>1, <2>2 DEF Good
<1>9. CASE ~Picks(w, k, a, r, v) /\ ~(a = r /\ ~Working(v))
  <2>1. b = a
    BY <1>9
  <2>2. a # 0 => a \in RunsOf(w) /\ (Working(rv[a]) \/ Sent(tl, a, rv[a]))
    <3> SUFFICES ASSUME a # 0, ~Working(rv[a])
                 PROVE  a \in RunsOf(w) /\ Sent(tl, a, rv[a])
      BY DEF Good
    <3>1. a \in RunsOf(w) /\ Sent(fr, a, rv[a]) /\ Owner[a] = w
      BY RunsAre DEF Good
    <3>2. CASE a = r
      BY <1>6, <1>9, <3>1, <3>2
    <3>3. CASE a # r
      BY <1>3, <3>1, <3>3
    <3> QED
      BY <3>1, <3>2, <3>3
  <2>3. ASSUME NEW u \in RunsOf(w), Working(rv[u]), u # a PROVE Sent(tl, u, rv[u])
    <3>1. Sent(fr, u, rv[u])
      BY <2>3 DEF Good
    <3>2. CASE <<u, rv[u]>> # <<r, v>>
      BY <1>3, <3>1, <3>2
    <3>3. CASE u = r /\ rv[u] = v
      <4>1. a # 0 /\ a # r /\ Working(k[a]) /\ Owner[r] = w /\ Working(v)
        BY <1>9, <2>3, <3>3, RunsAre DEF Picks
      <4>2. a \in RunsOf(w) /\ ~Working(rv[a]) /\ Sent(fr, a, rv[a])
        BY <2>3, <3>3, <4>1 DEF Good, OneWorks
      <4>3. PICK i \in Frames(fr) : fr[i] = <<a, rv[a]>>
        BY <4>2 DEF Sent
      <4>4. fr[i][1] = a /\ fr[i][2] = rv[a] /\ Owner[a] = w
        BY <4>2, <4>3, RunsAre
      <4>5. rv[a] > k[a]
        <5>1. k[a] <= rv[a]
          BY <1>2, <4>2
        <5> QED
          BY <1>2, <4>1, <4>2, <5>1
      <4>6. PICK j \in Frames(fr) : i <= j /\ fr[j] = <<u, rv[u]>>
        BY <2>3, <4>4, <4>5 DEF Good, Coming
      <4>7. i # 1 /\ 1 < j
        BY <1>1, <4>1, <4>4, <4>6 DEF Frames
      <4>8. fr[1][1] = fr[j][1] /\ fr[1][2] = fr[j][2] /\ fr[1][2] \in Nat
        BY <1>1, <3>3, <4>6
      <4>9. fr[1][2] < fr[j][2]
        BY <1>1, <4>7, <4>8 DEF Feed
      <4> QED
        BY <4>8, <4>9
    <3> QED
      BY <3>2, <3>3
  <2> QED
    BY <1>4, <2>1, <2>2, <2>3 DEF Good
<1> QED
  BY <1>7, <1>8, <1>9

(* The reply to the creation of run r arrives: the page shows it.            *)
LEMMA GoodCreate ==
    ASSUME NEW rv, NEW fr, Feed(rv, fr), NEW w, OneWorks(rv, w),
           NEW k \in [Items -> Nat], NEW a \in Items \cup {0}, Good(rv, fr, w, k, a),
           NEW r \in RunsOf(w), k[r] <= 1, 1 <= rv[r]
    PROVE  Good(rv, fr, w, [k EXCEPT ![r] = 1], r)
<1>1. /\ \A s \in RunsOf(w) : s \in Items /\ k[s] \in Nat /\ rv[s] \in Nat
      /\ Working(1) /\ r \in Items
  BY RunsAre DEF Feed, Working
<1>2. rv[r] # 1 => Sent(fr, r, rv[r])
  <2> SUFFICES ASSUME rv[r] # 1 PROVE Sent(fr, r, rv[r])
    OBVIOUS
  <2>1. rv[r] \in (k[r] + 1)..rv[r]
    BY <1>1
  <2> QED
    BY <2>1 DEF Good, Coming
<1>3. Coming(rv, fr, w, [k EXCEPT ![r] = 1])
  <2>1. [k EXCEPT ![r] = 1] \in [Items -> Nat]
    OBVIOUS
  <2>2. \A s \in RunsOf(w) : k[s] <= [k EXCEPT ![r] = 1][s]
    BY <1>1
  <2> QED
    BY <2>1, <2>2, GoodNewer DEF Good
<1>4. ASSUME NEW u \in RunsOf(w), Working(rv[u]), u # r PROVE Sent(fr, u, rv[u])
  <2>1. CASE u # a
    BY <1>4, <2>1 DEF Good
  <2>2. CASE u = a
    <3>1. ~Working(rv[r]) /\ rv[r] # 1
      BY <1>1, <1>4 DEF OneWorks
    <3>2. PICK i \in Frames(fr) : fr[i] = <<r, rv[r]>>
      BY <1>2, <3>1 DEF Sent
    <3>3. Owner[fr[i][1]] = w /\ fr[i][2] > k[fr[i][1]]
      BY <1>1, <3>1, <3>2, RunsAre
    <3> QED
      BY <1>4, <3>3 DEF Good, Coming, Sent
  <2> QED
    BY <2>1, <2>2
<1> QED
  BY <1>1, <1>2, <1>3, <1>4 DEF Good

(* A list that is answered now.                                              *)
LEMMA GoodAnswer ==
    ASSUME NEW rv, NEW fr, Feed(rv, fr), NEW w, OneWorks(rv, w),
           NEW k \in [Items -> Nat], \A r \in RunsOf(w) : k[r] = rv[r],
           NEW a, a # 0 => a \in RunsOf(w) /\ Working(rv[a]),
           a = 0 => \A r \in RunsOf(w) : ~Working(rv[r])
    PROVE  Good(rv, fr, w, k, a)
<1>1. \A r \in RunsOf(w) : r \in Items /\ rv[r] \in Nat
  BY RunsAre DEF Feed
<1>2. \A i \in Frames(fr) : fr[i][1] \in Items /\ fr[i][2] \in Nat /\ fr[i][2] <= rv[fr[i][1]]
  BY DEF Feed, Frames
<1>3. Coming(rv, fr, w, k)
  BY <1>1, <1>2, RunsAre DEF Coming
<1> QED
  BY <1>3 DEF Good, OneWorks

(* While the list is awaited, frames arrive that do not count.               *)
LEMMA GoodAwaited ==
    ASSUME NEW rv, NEW fr, Feed(rv, fr), NEW tl, Shorter(fr, tl), NEW w, OneWorks(rv, w),
           NEW k \in [Items -> Nat], OneWorks(k, w), NEW a \in Items \cup {0},
           Good(rv, fr, w, k, a), \A r \in RunsOf(w) : k[r] <= rv[r],
           a # 0 => Working(k[a]),
           a = 0 => \A r \in RunsOf(w) : ~Working(k[r]),
           fr[1][1] \in RunsOf(w) => fr[1][2] <= k[fr[1][1]]
    PROVE  Good(rv, tl, w, k, a)
<1>1. \A r \in RunsOf(w) : r \in Items /\ k[r] \in Nat /\ rv[r] \in Nat /\ k[r] <= k[r]
  BY RunsAre DEF Feed
<1>2. Coming(rv, tl, w, k)
  BY <1>1, GoodTail
<1>3. ASSUME NEW r \in RunsOf(w), Sent(fr, r, rv[r]), k[r] # rv[r] PROVE Sent(tl, r, rv[r])
  <2>1. fr[1] # <<r, rv[r]>>
    <3> SUFFICES ASSUME fr[1] = <<r, rv[r]>> PROVE FALSE
      OBVIOUS
    <3>1. fr[1][1] = r /\ fr[1][2] = rv[r]
      OBVIOUS
    <3> QED
      BY <1>1, <1>3, <3>1
  <2> QED
    BY <1>3, <2>1, StillSent
<1>4. a # 0 => a \in RunsOf(w) /\ (Working(rv[a]) \/ Sent(tl, a, rv[a]))
  BY <1>3 DEF Good
<1>5. ASSUME NEW u \in RunsOf(w), Working(rv[u]), u # a PROVE Sent(tl, u, rv[u])
  <2>1. ~Working(k[u])
    BY <1>4, <1>5 DEF OneWorks
  <2> QED
    BY <1>3, <1>5, <2>1 DEF Good
<1> QED
  BY <1>2, <1>4, <1>5 DEF Good

-----------------------------------------------------------------------------
PageCall == [kind : {"list", "more", "create", "act"}, space : PageSpaces,
             run : Items \cup {0}, live : BOOLEAN, answered : BOOLEAN,
             reply : UNION {[D -> Nat] : D \in SUBSET Items}]

(* What a reply says was so when the server answered.                        *)
Says(c, rv) ==
    /\ \A r \in DOMAIN c.reply : c.reply[r] <= rv[r]
    /\ c.kind # "act" => \A r \in DOMAIN c.reply : Owner[r] = c.space
    /\ c.kind = "create" => \A r \in DOMAIN c.reply : DOMAIN c.reply = {r} /\ c.reply[r] = 1
    /\ c.kind = "act" => c.run # 0

CallsHold ==
    /\ pageCalls \subseteq PageCall
    /\ \A c \in pageCalls :
           /\ Says(c, rev)
           /\ c.live /\ c.kind \in {"list", "more"} => c.space = selected
           /\ c.live /\ c.kind = "list" => loading
    /\ \A c, d \in pageCalls :
           c.kind = d.kind /\ ((c.live /\ d.live) \/ c.kind \in {"create", "act"})
               /\ c.kind # "more" => c = d

FeedHolds == Feed(rev, frames) /\ \A r \in Items : known[r] <= rev[r]

(* The revisions that a list has, and the run that it makes the active one.  *)
Listed(c) == [r \in Items |-> IF r \in DOMAIN c.reply THEN c.reply[r] ELSE 0]
Running(c) == {r \in DOMAIN c.reply : Working(c.reply[r])}
ListRun(c) == IF Running(c) = {} THEN 0 ELSE Max(Running(c))
Promised(c, rv, fr, w) == OneWorks(Listed(c), w) /\ Good(rv, fr, w, Listed(c), ListRun(c))

(* The page follows the server, or the list that it awaits will make it.     *)
Following ==
    ~stale /\ selected # NoSpace =>
        /\ OneWorks(rev, selected)
        /\ ~loading /\ ~failed => Good(rev, frames, selected, known, activeRunId)
        /\ \A c \in CallsOf("list") :
               c.live /\ c.answered => Older(c) \/ Promised(c, rev, frames, selected)

PageInv == PageTypeOK /\ PageIsOwn /\ CallsHold /\ FeedHolds /\ Following

(* A set of runs has a greatest.                                             *)
LEMMA GreatestRun ==
    ASSUME NEW S \in SUBSET (Items \cup {0}), S # {}
    PROVE  Max(S) \in S /\ \A y \in S : y <= Max(S)
<1> DEFINE T == {b \in Nat : \A y \in S : y <= b}
<1>0. S \subseteq 0..Len(Owner) /\ Len(Owner) \in Nat
  BY ItemsAre
<1>1. Len(Owner) \in T
  BY <1>0
<1>2. PICK b \in T : \A y \in T : ~(<<y, b>> \in OpToRel(<, Nat))
  <2>1. IsWellFoundedOn(OpToRel(<, Nat), Nat)
    BY NatLessThanWellFounded
  <2>2. T \subseteq Nat /\ T # {}
    BY <1>1
  <2> HIDE DEF T
  <2> QED
    BY <2>1, <2>2, WFMin
<1>3. \A y \in T : b <= y
  <2> SUFFICES ASSUME NEW y \in T, y < b PROVE FALSE
    OBVIOUS
  <2>1. <<y, b>> \in Nat \X Nat /\ <<y, b>>[1] < <<y, b>>[2]
    OBVIOUS
  <2>2. <<y, b>> \in OpToRel(<, Nat)
    BY <2>1 DEF OpToRel
  <2> QED
    BY <2>2, <1>2
<1>4. b \in S
  <2> SUFFICES ASSUME b \notin S PROVE FALSE
    OBVIOUS
  <2>1. PICK y \in S : TRUE
    OBVIOUS
  <2>2. b - 1 \in T
    BY <1>0, <2>1
  <2> QED
    BY <2>2, <1>3
<1>5. \A y \in S : b >= y
  OBVIOUS
<1> QED
  BY <1>0, <1>4, <1>5 DEF Max

LEMMA FeedLater ==
    ASSUME NEW rv, NEW fr, Feed(rv, fr), NEW rv2 \in [Items -> Nat],
           \A r \in Items : rv[r] <= rv2[r]
    PROVE  Feed(rv2, fr)
<1>1. ASSUME NEW i \in Frames(fr) PROVE fr[i][2] <= rv2[fr[i][1]]
  <2>1. fr[i][1] \in Items /\ fr[i][2] \in Nat /\ fr[i][2] <= rv[fr[i][1]]
    BY DEF Feed, Frames
  <2> QED
    BY <2>1 DEF Feed
<1> QED
  BY <1>1 DEF Feed

(* The server goes on: what is promised to the page stays so.                *)
Moved ==
    /\ Feed(rev', frames') /\ \A s \in Items : rev[s] <= rev'[s]
    /\ Len(frames') <= MaxFrames /\ stale' \in BOOLEAN /\ (~stale' => ~stale)
    /\ ~stale' /\ selected # NoSpace =>
           /\ OneWorks(rev', selected)
           /\ \A a \in Items \cup {0}, k \in [Items -> Nat] :
                  Good(rev, frames, selected, k, a) => Good(rev', frames', selected, k, a)

LEMMA RestMoves == ASSUME PageInv, UNCHANGED <<rev, frames, stale>> PROVE Moved
<1>1. rev \in [Items -> Nat] /\ \A s \in Items : rev[s] <= rev[s]
  BY DEF PageInv, PageTypeOK
<1>2. Len(frames) <= MaxFrames /\ stale \in BOOLEAN
  BY DEF PageInv, PageTypeOK
<1>3. /\ Feed(rev, frames)
      /\ ~stale /\ selected # NoSpace => OneWorks(rev, selected)
  BY DEF PageInv, FeedHolds, Following
<1>4. rev' = rev /\ frames' = frames /\ stale' = stale
  OBVIOUS
<1>5. Feed(rev', frames') /\ \A s \in Items : rev[s] <= rev'[s]
  BY <1>1, <1>3, <1>4, Zenon
<1>6. Len(frames') <= MaxFrames /\ stale' \in BOOLEAN /\ (~stale' => ~stale)
  BY <1>2, <1>4, SMT
<1>7. ASSUME ~stale', selected # NoSpace
      PROVE  /\ OneWorks(rev', selected)
             /\ \A a \in Items \cup {0}, k \in [Items -> Nat] :
                    Good(rev, frames, selected, k, a) => Good(rev', frames', selected, k, a)
  <2>1. OneWorks(rev, selected)
    BY <1>3, <1>7, <1>6
  <2> QED
    BY <2>1, <1>4, Zenon
<1> QED
  BY <1>5, <1>7, <1>6 DEF Moved

LEMMA PublishMoves == ASSUME PageInv, NEW r \in Items, PublishRun(r) PROVE Moved
<1>0. /\ rev' = [rev EXCEPT ![r] = @ + 1] /\ (conn => Len(frames) < MaxFrames)
      /\ frames' = IF conn THEN Append(frames, <<r, rev[r] + 1>>) ELSE frames
      /\ stale' = (stale \/ ~conn \/ (~Working(rev[r]) /\ ~NoneWorks(Owner[r])))
  BY DEF PublishRun
<1>1. /\ rev \in [Items -> Nat] /\ rev' \in [Items -> Nat] /\ \A s \in Items : rev[s] <= rev'[s]
      /\ Len(frames) <= MaxFrames /\ Feed(rev, frames) /\ frames \in Seq(Items \X Nat)
  <2>1. rev \in [Items -> Nat] /\ Len(frames) <= MaxFrames
    BY DEF PageInv, PageTypeOK
  <2>2. rev' \in [Items -> Nat] /\ \A s \in Items : rev[s] <= rev'[s]
    BY <1>0, <2>1
  <2> QED
    BY <2>1, <2>2 DEF PageInv, FeedHolds, Feed
<1>2. stale' \in BOOLEAN
  BY <1>0, Zenon
<1>3. CASE ~conn
  <2>1. stale' /\ frames' = frames
    BY <1>0, <1>3
  <2> QED
    BY <1>1, <1>2, <2>1, FeedLater DEF Moved
<1>4. CASE conn
  <2>1. frames' = Append(frames, <<r, rev[r] + 1>>)
    BY <1>0, <1>4
  <2>2. Feed(rev', frames')
    BY <1>0, <1>1, <2>1, FeedGrows
  <2>3. Len(frames') <= MaxFrames
    <3>0. Len(frames) < MaxFrames /\ MaxFrames \in Nat
      BY <1>0, <1>4, PageAssumption
    <3>1. Len(Append(frames, <<r, rev[r] + 1>>)) = Len(frames) + 1 /\ Len(frames) \in Nat
      <4>1. <<r, rev[r] + 1>> \in Items \X Nat
        BY <1>1
      <4> QED
        BY <1>1, <4>1
    <3> QED
      BY <2>1, <3>0, <3>1
  <2>4. ASSUME ~stale', selected # NoSpace
        PROVE  /\ ~stale /\ OneWorks(rev', selected)
               /\ \A a \in Items \cup {0}, k \in [Items -> Nat] :
                     Good(rev, frames, selected, k, a) => Good(rev', frames', selected, k, a)
    <3>1. ~stale /\ (Working(rev[r]) \/ \A s \in RunsOf(Owner[r]) : ~Working(rev[s]))
      BY <1>0, <2>4 DEF NoneWorks
    <3>2. OneWorks(rev, selected)
      BY <2>4, <3>1 DEF PageInv, Following
    <3>3. /\ OneWorks([rev EXCEPT ![r] = @ + 1], selected)
          /\ \A a \in Items \cup {0}, k \in [Items -> Nat] :
                Good(rev, frames, selected, k, a) =>
                Good([rev EXCEPT ![r] = @ + 1], Append(frames, <<r, rev[r] + 1>>), selected, k, a)
      BY <1>1, <3>1, <3>2, GoodGrows
    <3> QED
      BY <1>0, <2>1, <3>1, <3>3, Zenon
  <2>5. ~stale' => ~stale
    BY <1>0
  <2> QED
    BY <1>1, <1>2, <2>2, <2>3, <2>4, <2>5 DEF Moved
<1> QED
  BY <1>3, <1>4

(* What an answer promised holds while the server goes on.                   *)
LEMMA PromiseStands ==
    ASSUME PageInv, Moved, ~stale', selected # NoSpace, NEW c \in pageCalls, c.kind = "list",
           Promised(c, rev, frames, selected)
    PROVE  Promised(c, rev', frames', selected)
<1>1. c \in PageCall
  BY DEF PageInv, CallsHold
<1>2. Listed(c) \in [Items -> Nat] /\ ListRun(c) \in Items \cup {0}
  <2>1. PICK D \in SUBSET Items : c.reply \in [D -> Nat]
    BY <1>1 DEF PageCall
  <2>2. Running(c) \in SUBSET (Items \cup {0})
    BY <2>1 DEF Running
  <2>3. ListRun(c) \in Items \cup {0}
    BY <2>2, GreatestRun DEF ListRun
  <2>4. ASSUME NEW r \in Items
        PROVE  (IF r \in DOMAIN c.reply THEN c.reply[r] ELSE 0) \in Nat
    BY <2>1
  <2> QED
    BY <2>3, <2>4 DEF Listed
<1> QED
  BY <1>2 DEF Promised, Moved

-----------------------------------------------------------------------------
Untouched == UNCHANGED <<conn, breaks, selected, activeRunId, viewed, known, loading,
                         failed, paging, replaying, session>>

LEMMA TypesRest ==
    ASSUME PageInv, Moved, Untouched, asked' \in 0..MaxCalls,
           \A kind \in {"create", "act"} : \A c, d \in CallsOf(kind)' : c = d
    PROVE  PageTypeOK' /\ FeedHolds'
<1>1. rev \in [Items -> Nat] /\ rev' \in [Items -> Nat] /\ known \in [Items -> Nat]
  BY DEF PageInv, PageTypeOK, Moved, Feed
<1>2. PageTypeOK'
  BY <1>1 DEF PageInv, PageTypeOK, Moved, Untouched
<1>3. ASSUME NEW r \in Items PROVE known[r] <= rev'[r]
  BY <1>1 DEF Moved, PageInv, FeedHolds
<1> QED
  BY <1>2, <1>3 DEF FeedHolds, Moved, Untouched

(* The server answers a call c with d, or goes on without an answer.         *)
LEMMA ServerKeeps ==
    ASSUME PageInv, Moved, Untouched, UNCHANGED <<pageCalls, asked>>
    PROVE  PageInv'
<1>1. PageTypeOK' /\ FeedHolds'
  BY TypesRest DEF PageInv, PageTypeOK, CallsOf
<1>2. PageIsOwn'
  BY <1>1 DEF PageInv, PageIsOwn, Untouched, CallsOf
<1>3. CallsHold'
  <2>1. ASSUME NEW c \in pageCalls PROVE Says(c, rev')
    <3>1. Says(c, rev) /\ c \in PageCall
      BY DEF PageInv, CallsHold
    <3>2. ASSUME NEW r \in DOMAIN c.reply PROVE c.reply[r] <= rev'[r]
      <4>1. r \in Items /\ c.reply[r] \in Nat
        BY <3>1 DEF PageCall
      <4> QED
        BY <3>1, <4>1 DEF Says, Moved, PageInv, PageTypeOK, Feed
    <3> QED
      BY <3>1, <3>2 DEF Says
  <2> QED
    BY <2>1 DEF PageInv, CallsHold, Untouched
<1>4. Following'
  <2> SUFFICES ASSUME ~stale', selected # NoSpace PROVE Following'
    BY DEF Following, Untouched
  <2>1. ~stale /\ OneWorks(rev', selected)
    BY DEF Moved
  <2>2. ~loading /\ ~failed => Good(rev', frames', selected, known, activeRunId)
    <3>1. activeRunId \in Items \cup {0} /\ known \in [Items -> Nat]
      BY DEF PageInv, PageTypeOK
    <3> QED
      BY <2>1, <3>1 DEF Moved, PageInv, Following
  <2>3. ASSUME NEW c \in pageCalls, c.kind = "list", c.live, c.answered
        PROVE  Older(c) \/ Promised(c, rev', frames', selected)
    BY <2>1, <2>3, PromiseStands DEF PageInv, Following, CallsOf
  <2>4. \A c : Older(c)' <=> Older(c)
    BY DEF Older, Untouched
  <2> QED
    BY <2>1, <2>2, <2>3, <2>4 DEF Following, Untouched, CallsOf
<1> QED
  BY <1>1, <1>2, <1>3, <1>4 DEF PageInv

LEMMA ReplyKeeps ==
    ASSUME PageInv, Moved, Untouched, UNCHANGED asked, NEW c \in pageCalls, NEW d \in PageCall,
           d.kind = c.kind, d.space = c.space, d.run = c.run, d.live = c.live, Says(d, rev'),
           pageCalls' = (pageCalls \ {c}) \cup {d},
           c.live /\ c.kind = "list" /\ ~stale' => Promised(d, rev', frames', selected)
    PROVE  PageInv'
<1>1. CallsHold'
  <2>1. ASSUME NEW e \in pageCalls PROVE Says(e, rev')
    <3>1. Says(e, rev) /\ e \in PageCall
      BY DEF PageInv, CallsHold
    <3>2. ASSUME NEW r \in DOMAIN e.reply PROVE e.reply[r] <= rev'[r]
      <4>1. r \in Items /\ e.reply[r] \in Nat
        BY <3>1 DEF PageCall
      <4> QED
        BY <3>1, <4>1 DEF Says, Moved, PageInv, PageTypeOK, Feed
    <3> QED
      BY <3>1, <3>2 DEF Says
  <2>2. ASSUME NEW e \in pageCalls'
        PROVE  /\ e \in PageCall /\ Says(e, rev')
               /\ e.live /\ e.kind \in {"list", "more"} => e.space = selected
               /\ e.live /\ e.kind = "list" => loading
    BY <2>1 DEF PageInv, CallsHold
  <2>3. \A e, f \in pageCalls' :
           e.kind = f.kind /\ ((e.live /\ f.live) \/ e.kind \in {"create", "act"})
               /\ e.kind # "more" => e = f
    BY DEF PageInv, CallsHold
  <2> QED
    BY <2>2, <2>3 DEF CallsHold, Untouched
<1>2. PageTypeOK' /\ FeedHolds'
  <2>1. \A kind \in {"create", "act"} : \A e, f \in CallsOf(kind)' : e = f
    BY <1>1 DEF CallsHold, CallsOf
  <2> QED
    BY <2>1, TypesRest DEF PageInv, PageTypeOK
<1>3. PageIsOwn'
  <2>1. loading => \E e \in CallsOf("list")' : e.live /\ e.space = selected
    BY DEF PageInv, PageIsOwn, CallsOf
  <2>2. paging => \E e \in CallsOf("more")' : e.live /\ e.space = selected
    BY DEF PageInv, PageIsOwn, CallsOf
  <2> QED
    BY <1>2, <2>1, <2>2 DEF PageInv, PageIsOwn, Untouched
<1>4. Following'
  <2> SUFFICES ASSUME ~stale', selected # NoSpace PROVE Following'
    BY DEF Following, Untouched
  <2>1. ~stale /\ OneWorks(rev', selected)
    BY DEF Moved
  <2>2. ~loading /\ ~failed => Good(rev', frames', selected, known, activeRunId)
    <3>1. activeRunId \in Items \cup {0} /\ known \in [Items -> Nat]
      BY DEF PageInv, PageTypeOK
    <3> QED
      BY <2>1, <3>1 DEF Moved, PageInv, Following
  <2>3. ASSUME NEW e \in pageCalls', e.kind = "list", e.live, e.answered
        PROVE  Older(e) \/ Promised(e, rev', frames', selected)
    <3>1. CASE e = d
      BY <2>3, <3>1
    <3>2. CASE e # d
      <4>1. e \in pageCalls
        BY <3>2
      <4> QED
        BY <2>1, <2>3, <4>1, PromiseStands DEF PageInv, Following, CallsOf
    <3> QED
      BY <3>1, <3>2
  <2>4. \A e : Older(e)' <=> Older(e)
    BY DEF Older, Untouched
  <2> QED
    BY <2>1, <2>2, <2>3, <2>4 DEF Following, Untouched, CallsOf
<1> QED
  BY <1>1, <1>2, <1>3, <1>4 DEF PageInv

(* The server's actions.                                                     *)
LEMMA PageRestIs == PageRest' = PageRest => Untouched
  BY DEF PageRest, Untouched

LEMMA RepliedIs ==
    ASSUME PageInv, NEW c \in pageCalls, NEW D \in SUBSET Items, NEW answer \in [D -> Nat],
           PageReplied(c, answer)
    PROVE  \E d \in PageCall :
              /\ d.kind = c.kind /\ d.space = c.space /\ d.run = c.run /\ d.live = c.live
              /\ d.reply = answer /\ pageCalls' = (pageCalls \ {c}) \cup {d}
<1> DEFINE d == [c EXCEPT !.reply = answer, !.answered = TRUE]
<1>1. c \in PageCall /\ answer \in UNION {[E -> Nat] : E \in SUBSET Items}
  BY DEF PageInv, CallsHold
<1>2. /\ d \in PageCall /\ d.kind = c.kind /\ d.space = c.space /\ d.run = c.run
      /\ d.live = c.live /\ d.reply = answer
  BY <1>1 DEF PageCall
<1>3. pageCalls' = (pageCalls \ {c}) \cup {d}
  BY DEF PageReplied
<1> HIDE DEF d
<1> QED
  BY <1>2, <1>3

LEMMA ChangesKeep ==
    ASSUME PageInv, NEW r \in Items, RunChanges(r), UNCHANGED asked PROVE PageInv'
  BY PublishMoves, ServerKeeps, PageRestIs DEF RunChanges

LEMMA ReadKeeps ==
    ASSUME PageInv, NEW c \in pageCalls, AnswerRead(c), UNCHANGED asked PROVE PageInv'
<1> DEFINE D == {s \in RunsOf(c.space) : rev[s] > 0}
           answer == [r \in D |-> rev[r]]
<1>0. /\ c.kind \in {"list", "more"} /\ PageReplied(c, answer)
      /\ UNCHANGED <<rev, frames, stale>> /\ Untouched
  BY PageRestIs DEF AnswerRead
<1>1. rev \in [Items -> Nat]
  BY DEF PageInv, PageTypeOK
<1>2. D \in SUBSET Items /\ answer \in [D -> Nat] /\ \A s \in D : Owner[s] = c.space
  BY <1>1, RunsAre
<1>3. /\ DOMAIN answer = D /\ \A s \in D : answer[s] = rev[s] /\ rev[s] \in Nat
      /\ \A s \in RunsOf(c.space) : s \in D <=> rev[s] > 0
  BY <1>1, <1>2
<1> HIDE DEF D, answer
<1>4. PICK d \in PageCall :
              /\ d.kind = c.kind /\ d.space = c.space /\ d.run = c.run /\ d.live = c.live
              /\ d.reply = answer /\ pageCalls' = (pageCalls \ {c}) \cup {d}
  BY <1>0, <1>2, RepliedIs
<1>5. Moved
  BY <1>0, RestMoves
<1>6. Says(d, rev')
  BY <1>0, <1>2, <1>3, <1>4 DEF Says
<1>7. ASSUME c.live, c.kind = "list", ~stale' PROVE Promised(d, rev', frames', selected)
  <2>1. c.space = selected /\ selected # NoSpace
    <3>1. c.space = selected /\ c.space \in PageSpaces
      BY <1>7 DEF PageInv, CallsHold, PageCall
    <3> QED
      BY <3>1, PageAssumption
  <2>2. OneWorks(rev, selected) /\ Feed(rev, frames)
    BY <1>0, <1>7, <2>1 DEF PageInv, Following, FeedHolds
  <2>3. /\ Listed(d) \in [Items -> Nat]
        /\ \A r \in RunsOf(selected) : Listed(d)[r] = rev[r]
    BY <1>1, <1>2, <1>3, <1>4, <2>1, RunsAre DEF Listed
  <2>4. OneWorks(Listed(d), selected)
    BY <2>2, <2>3 DEF OneWorks
  <2>5. Running(d) = {r \in RunsOf(selected) : Working(rev[r])}
    <3>1. ~Working(0)
      BY DEF Working
    <3>2. Running(d) = {s \in D : Working(rev[s])}
      BY <1>3, <1>4 DEF Running
    <3>3. \A s \in RunsOf(selected) : Working(rev[s]) => s \in D
      BY <1>1, <1>3, <2>1, <3>1, RunsAre
    <3>4. \A s \in D : s \in RunsOf(selected)
      BY <1>2, <2>1, RunsAre
    <3> QED
      BY <3>2, <3>3, <3>4
  <2>6. /\ ListRun(d) # 0 => ListRun(d) \in Running(d)
        /\ ListRun(d) = 0 => Running(d) = {}
    <3>1. Running(d) \in SUBSET (Items \cup {0}) /\ 0 \notin Running(d)
      BY <2>5, RunsAre, ItemsAre
    <3> QED
      BY <3>1, GreatestRun DEF ListRun
  <2>7. Good(rev, frames, selected, Listed(d), ListRun(d))
    BY <2>2, <2>3, <2>5, <2>6, GoodAnswer
  <2> QED
    BY <1>0, <2>4, <2>7 DEF Promised
<1> QED
  BY <1>0, <1>4, <1>5, <1>6, <1>7, ReplyKeeps

LEMMA CreateKeeps ==
    ASSUME PageInv, NEW c \in pageCalls, AnswerCreate(c), UNCHANGED asked PROVE PageInv'
<1>1. PICK r \in Unborn(c.space) : PublishRun(r) /\ PageReplied(c, [s \in {r} |-> 1])
  BY DEF AnswerCreate
<1>2. Untouched /\ c.kind = "create"
  BY PageRestIs DEF AnswerCreate
<1>3. r \in Items /\ Owner[r] = c.space /\ rev[r] = 0
  BY RunsAre DEF Unborn
<1>4. rev' = [rev EXCEPT ![r] = @ + 1] /\ rev \in [Items -> Nat]
  BY <1>1 DEF PublishRun, PageInv, PageTypeOK
<1>5. rev'[r] = 1
  BY <1>3, <1>4
<1> DEFINE answer == [s \in {r} |-> 1]
<1>6. {r} \in SUBSET Items /\ answer \in [{r} -> Nat] /\ DOMAIN answer = {r} /\ answer[r] = 1
  BY <1>3
<1> HIDE DEF answer
<1>7. PICK d \in PageCall :
              /\ d.kind = c.kind /\ d.space = c.space /\ d.run = c.run /\ d.live = c.live
              /\ d.reply = answer /\ pageCalls' = (pageCalls \ {c}) \cup {d}
  BY <1>1, <1>6, RepliedIs DEF answer
<1>8. Says(d, rev')
  BY <1>2, <1>3, <1>5, <1>6, <1>7 DEF Says
<1>9. Moved
  BY <1>1, <1>3, PublishMoves
<1> QED
  BY <1>2, <1>7, <1>8, <1>9, ReplyKeeps

LEMMA AnswerKeeps ==
    ASSUME PageInv, NEW c \in pageCalls, AnswerAct(c) \/ Refuse(c), UNCHANGED asked
    PROVE  PageInv'
<1>1. CASE AnswerAct(c)
  <2>1. c.kind = "act" /\ c.run \in Items /\ Untouched
    BY <1>1, PageRestIs DEF AnswerAct, PageInv, CallsHold, Says, PageCall
  <2>2. /\ Moved /\ rev' \in [Items -> Nat]
        /\ PageReplied(c, [s \in {c.run} |-> rev'[s]])
    <3>1. CASE PublishRun(c.run) /\ PageReplied(c, [s \in {c.run} |-> rev'[s]])
      BY <2>1, <3>1, PublishMoves DEF Moved, Feed
    <3>2. CASE /\ PageReplied(c, [s \in {c.run} |-> rev[s]])
               /\ UNCHANGED <<rev, frames, stale>>
      BY <3>2, RestMoves DEF Moved, Feed
    <3> QED
      BY <1>1, <3>1, <3>2 DEF AnswerAct
  <2> DEFINE answer == [s \in {c.run} |-> rev'[s]]
  <2>3. /\ {c.run} \in SUBSET Items /\ answer \in [{c.run} -> Nat]
        /\ DOMAIN answer = {c.run} /\ answer[c.run] = rev'[c.run] /\ rev'[c.run] \in Nat
    BY <2>1, <2>2
  <2> HIDE DEF answer
  <2>4. PICK d \in PageCall :
              /\ d.kind = c.kind /\ d.space = c.space /\ d.run = c.run /\ d.live = c.live
              /\ d.reply = answer /\ pageCalls' = (pageCalls \ {c}) \cup {d}
    BY <2>2, <2>3, RepliedIs DEF answer
  <2>5. Says(d, rev')
    BY <2>1, <2>3, <2>4, ItemsAre DEF Says
  <2> QED
    BY <2>1, <2>2, <2>4, <2>5, ReplyKeeps
<1>2. CASE Refuse(c)
  <2>1. /\ Untouched /\ c.kind # "list" /\ UNCHANGED <<rev, frames, stale>>
        /\ PageReplied(c, Nothing) /\ Says(c, rev)
    BY <1>2, PageRestIs DEF Refuse, PageInv, CallsHold
  <2> DEFINE D == {}
  <2>2. D \in SUBSET Items /\ Nothing \in [D -> Nat] /\ DOMAIN Nothing = {}
    BY DEF Nothing
  <2> HIDE DEF D
  <2>3. PICK d \in PageCall :
              /\ d.kind = c.kind /\ d.space = c.space /\ d.run = c.run /\ d.live = c.live
              /\ d.reply = Nothing /\ pageCalls' = (pageCalls \ {c}) \cup {d}
    <3>1. PICK answer \in [D -> Nat] : answer = Nothing
      BY <2>2
    <3>2. PageReplied(c, answer)
      BY <2>1, <3>1
    <3> QED
      BY <2>2, <3>1, <3>2, RepliedIs
  <2>4. Says(d, rev')
    BY <2>1, <2>2, <2>3 DEF Says
  <2> QED
    BY <2>1, <2>3, <2>4, RestMoves, ReplyKeeps
<1> QED
  BY <1>1, <1>2

-----------------------------------------------------------------------------
(* The page's actions.                                                       *)
LEMMA ShowTypes ==
    ASSUME PageInv, NEW a \in Items \cup {0}, NEW v \in Items \cup {0}, Show(a, v)
    PROVE  /\ activeRunId' = a /\ viewed' = v /\ session' \in Items \cup {0}
           /\ replaying' \in BOOLEAN
<1>1. session \in Items \cup {0} /\ replaying \in BOOLEAN
  BY DEF PageInv, PageTypeOK
<1>2. session' \in Items \cup {0}
  BY <1>1 DEF Show, SessionOf
<1>3. replaying' \in BOOLEAN
  BY <1>1, Zenon DEF Show
<1> QED
  BY <1>2, <1>3 DEF Show

(* A call leaves the page, or one is dropped.                                *)
LEMMA CallsRest ==
    ASSUME PageInv, pageCalls' \subseteq pageCalls, UNCHANGED <<rev, selected>>,
           \A c \in pageCalls' : c.live /\ c.kind = "list" => loading'
    PROVE  CallsHold' /\ \A kind \in {"create", "act"} : \A c, d \in CallsOf(kind)' : c = d
<1>1. CallsHold'
  BY DEF PageInv, CallsHold
<1> QED
  BY <1>1 DEF CallsHold, CallsOf

LEMMA OlderStays ==
    ASSUME PageInv, known' \in [Items -> Nat], \A r \in Items : known[r] <= known'[r],
           NEW c \in pageCalls, Older(c)
    PROVE  Older(c)'
<1>1. known \in [Items -> Nat] /\ c \in PageCall
  BY DEF PageInv, PageTypeOK, CallsHold
<1>2. PICK r \in Items :
          \/ r \in DOMAIN c.reply /\ c.reply[r] < known[r]
          \/ c.kind = "list" /\ Owner[r] = c.space /\ r \notin DOMAIN c.reply /\ known[r] > 0
  BY DEF Older
<1>3. known[r] \in Nat /\ known'[r] \in Nat /\ known[r] <= known'[r]
  BY <1>1
<1>4. r \in DOMAIN c.reply => c.reply[r] \in Nat
  BY <1>1 DEF PageCall
<1>5. \/ r \in DOMAIN c.reply /\ c.reply[r] < known'[r]
      \/ c.kind = "list" /\ Owner[r] = c.space /\ r \notin DOMAIN c.reply /\ known'[r] > 0
  BY <1>2, <1>3, <1>4
<1> QED
  BY <1>5 DEF Older

(* The page keeps the lists it awaits and its selection.                     *)
LEMMA FollowingRest ==
    ASSUME PageInv, UNCHANGED <<rev, frames, selected>>, ~stale' => ~stale,
           \A c \in pageCalls' : c.live /\ c.answered /\ c.kind = "list" => c \in pageCalls,
           known' \in [Items -> Nat],
           ~stale' => \A r \in Items : known[r] <= known'[r],
           ~stale' /\ selected # NoSpace /\ ~loading' /\ ~failed'
               => Good(rev, frames, selected, known', activeRunId')
    PROVE  Following'
<1> SUFFICES ASSUME ~stale', selected # NoSpace PROVE Following'
  BY DEF Following
<1>1. rev' = rev /\ frames' = frames /\ selected' = selected
  OBVIOUS
<1>2. OneWorks(rev, selected)
  BY DEF PageInv, Following
<1>3. ASSUME NEW c \in pageCalls', c.kind = "list", c.live, c.answered
      PROVE  Older(c)' \/ Promised(c, rev, frames, selected)
  <2>1. c \in pageCalls /\ c \in CallsOf("list")
    BY <1>3 DEF CallsOf
  <2>2. Older(c) \/ Promised(c, rev, frames, selected)
    BY <1>3, <2>1 DEF PageInv, Following
  <2> QED
    BY <2>1, <2>2, OlderStays
<1>4. ~loading' /\ ~failed' => Good(rev, frames, selected, known', activeRunId')
  OBVIOUS
<1> QED
  BY <1>1, <1>2, <1>3, <1>4 DEF Following, CallsOf

(* The snapshots of a reply.                                                 *)
LEMMA UpsertedAre ==
    ASSUME PageInv, NEW c \in pageCalls, known' = Upserted(c.reply), UNCHANGED <<rev, frames>>,
           stale' = (stale \/ Older(c))
    PROVE  /\ known' \in [Items -> Nat] /\ FeedHolds' /\ stale' \in BOOLEAN
           /\ ~stale' => ~stale /\ ~Older(c) /\ \A r \in Items : known[r] <= known'[r]
<1>1. c \in PageCall /\ Says(c, rev) /\ known \in [Items -> Nat] /\ rev \in [Items -> Nat]
  BY DEF PageInv, PageTypeOK, CallsHold
<1>2. \A r \in DOMAIN c.reply : r \in Items /\ c.reply[r] \in Nat /\ c.reply[r] <= rev[r]
  BY <1>1 DEF PageCall, Says
<1>3. /\ known' \in [Items -> Nat]
      /\ \A r \in Items : known'[r] = IF r \in DOMAIN c.reply THEN c.reply[r] ELSE known[r]
  BY <1>1, <1>2 DEF Upserted
<1>4. \A r \in Items : known'[r] <= rev[r]
  BY <1>1, <1>2, <1>3 DEF PageInv, FeedHolds
<1>5. FeedHolds'
  BY <1>4 DEF PageInv, FeedHolds
<1>6. stale' \in BOOLEAN
  BY Zenon
<1>7. ASSUME ~stale' PROVE ~stale /\ ~Older(c) /\ \A r \in Items : known[r] <= known'[r]
  <2>1. ~stale /\ ~Older(c)
    BY <1>7
  <2>2. ASSUME NEW r \in Items PROVE known[r] <= known'[r]
    BY <1>1, <1>2, <1>3, <2>1 DEF Older
  <2> QED
    BY <2>1, <2>2
<1> QED
  BY <1>3, <1>5, <1>6, <1>7

(* A new call that changes only flags of the page.                           *)
LEMMA IssueKeeps ==
    ASSUME PageInv, NEW kind \in {"more", "create", "act"}, NEW w \in PageSpaces,
           NEW r \in Items \cup {0}, Issue(Call(kind, w, r)),
           kind = "more" => w = selected, kind = "act" => r # 0,
           kind \in {"create", "act"} => CallsOf(kind) = {},
           UNCHANGED <<rev, frames, stale, conn, breaks, selected, activeRunId, viewed, known,
                       loading, failed, replaying, session>>,
           paging' = paging \/ (kind = "more" /\ paging' = TRUE)
    PROVE  PageInv'
<1> DEFINE new == Call(kind, w, r)
<1>1. /\ new \in PageCall /\ new.kind = kind /\ new.space = w /\ new.run = r /\ new.live
      /\ ~new.answered /\ DOMAIN new.reply = {}
  <2>1. Nothing \in [{} -> Nat] /\ DOMAIN Nothing = {} /\ {} \in SUBSET Items
    BY DEF Nothing
  <2>2. Nothing \in UNION {[D -> Nat] : D \in SUBSET Items}
    BY <2>1, Zenon
  <2> QED
    BY <2>1, <2>2 DEF Call, PageCall
<1>2. asked < MaxCalls /\ asked' = asked + 1 /\ pageCalls' = pageCalls \cup {new}
  BY DEF Issue
<1> HIDE DEF new
<1>3. CallsHold'
  <2>1. Says(new, rev)
    BY <1>1 DEF Says
  <2>2. \A c, d \in pageCalls' :
           c.kind = d.kind /\ ((c.live /\ d.live) \/ c.kind \in {"create", "act"})
               /\ c.kind # "more" => c = d
    BY <1>1, <1>2 DEF PageInv, CallsHold, CallsOf
  <2> QED
    BY <1>1, <1>2, <2>1, <2>2 DEF PageInv, CallsHold
<1>4. PageTypeOK'
  <2>1. \A any \in {"create", "act"} : \A c, d \in CallsOf(any)' : c = d
    BY <1>3 DEF CallsHold, CallsOf
  <2>2. asked \in 0..MaxCalls /\ paging \in BOOLEAN /\ MaxCalls \in Nat
    BY PageAssumption DEF PageInv, PageTypeOK
  <2>3. asked' \in 0..MaxCalls
    BY <1>2, <2>2
  <2>4. paging' \in BOOLEAN
    BY <2>2, Zenon
  <2> QED
    BY <2>1, <2>3, <2>4 DEF PageInv, PageTypeOK
<1>5. PageIsOwn'
  <2>1. loading => \E c \in CallsOf("list")' : c.live /\ c.space = selected
    BY <1>2 DEF PageInv, PageIsOwn, CallsOf
  <2>2. paging' => \E c \in CallsOf("more")' : c.live /\ c.space = selected
    BY <1>1, <1>2 DEF PageInv, PageIsOwn, CallsOf
  <2> QED
    BY <1>4, <2>1, <2>2 DEF PageInv, PageIsOwn
<1>6. Following'
  <2>1. known \in [Items -> Nat] /\ \A s \in Items : known[s] <= known[s]
    BY DEF PageInv, PageTypeOK
  <2>2. \A c \in pageCalls' : c.live /\ c.answered /\ c.kind = "list" => c \in pageCalls
    BY <1>1, <1>2
  <2>3. ~stale /\ selected # NoSpace /\ ~loading /\ ~failed
            => Good(rev, frames, selected, known, activeRunId)
    BY DEF PageInv, Following
  <2> QED
    BY <2>1, <2>2, <2>3, FollowingRest
<1> QED
  BY <1>3, <1>4, <1>5, <1>6 DEF PageInv, FeedHolds

LEMMA AsksKeep ==
    ASSUME PageInv, AskMore \/ PageStartRun \/ \E r \in Items : PageAct(r) PROVE PageInv'
<1>0. selected \in PageSpaces \cup {NoSpace}
  BY DEF PageInv, PageTypeOK
<1>1. CASE AskMore
  BY <1>0, <1>1, IssueKeeps DEF AskMore
<1>2. CASE PageStartRun
  BY <1>0, <1>2, IssueKeeps DEF PageStartRun, PageRest
<1>3. ASSUME NEW r \in Items, PageAct(r) PROVE PageInv'
  <2>1. Owner[r] \in PageSpaces /\ r # 0
    BY ItemsAre DEF PageSpaces
  <2> QED
    BY <1>3, <2>1, IssueKeeps DEF PageAct, PageRest
<1> QED
  BY <1>1, <1>2, <1>3

(* A reply other than a list arrives.                                        *)
LEMMA MoreKeeps ==
    ASSUME PageInv, NEW c \in pageCalls, MoreArrives(c), UNCHANGED asked PROVE PageInv'
<1>0. /\ c.kind = "more" /\ pageCalls' = pageCalls \ {c} /\ paging' = (paging /\ ~c.live)
      /\ known' = (IF c.live THEN Upserted(c.reply) ELSE known)
      /\ stale' = (stale \/ (c.live /\ Older(c)))
      /\ UNCHANGED <<rev, frames, conn, breaks, selected, activeRunId, viewed, loading,
                     failed, replaying, session>>
  BY DEF MoreArrives
<1>1. c.live \in BOOLEAN /\ known \in [Items -> Nat] /\ stale \in BOOLEAN /\ paging \in BOOLEAN
  BY DEF PageInv, CallsHold, PageCall, PageTypeOK
<1>2. /\ known' \in [Items -> Nat] /\ FeedHolds' /\ stale' \in BOOLEAN
      /\ ~stale' => ~stale /\ \A r \in Items : known[r] <= known'[r]
  <2>1. CASE c.live
    BY <1>0, <2>1, UpsertedAre
  <2>2. CASE ~c.live
    <3>1. known' = known /\ stale' = stale
      BY <1>0, <1>1, <2>2
    <3> QED
      BY <1>0, <1>1, <3>1 DEF PageInv, FeedHolds
  <2> QED
    BY <2>1, <2>2
<1>3. CallsHold' /\ \A kind \in {"create", "act"} : \A d, e \in CallsOf(kind)' : d = e
  <2>1. \A d \in pageCalls' : d.live /\ d.kind = "list" => loading'
    BY <1>0 DEF PageInv, CallsHold
  <2> QED
    BY <1>0, <2>1, CallsRest
<1>4. PageTypeOK'
  <2>1. paging' \in BOOLEAN
    BY <1>0, <1>1
  <2> QED
    BY <1>0, <1>2, <1>3, <2>1 DEF PageInv, PageTypeOK
<1>5. PageIsOwn'
  <2>1. loading => \E d \in CallsOf("list")' : d.live /\ d.space = selected
    BY <1>0 DEF PageInv, PageIsOwn, CallsOf
  <2>2. paging' => \E d \in CallsOf("more")' : d.live /\ d.space = selected
    BY <1>0, <1>1 DEF PageInv, PageIsOwn, CallsOf
  <2> QED
    BY <1>0, <1>4, <2>1, <2>2 DEF PageInv, PageIsOwn
<1>6. Following'
  <2>1. ~stale' /\ selected # NoSpace /\ ~loading' /\ ~failed'
            => Good(rev, frames, selected, known', activeRunId')
    <3> SUFFICES ASSUME ~stale', selected # NoSpace, ~loading, ~failed
                 PROVE  Good(rev, frames, selected, known', activeRunId)
      BY <1>0
    <3>1. Good(rev, frames, selected, known, activeRunId) /\ Feed(rev, frames)
      BY <1>2 DEF PageInv, Following, FeedHolds
    <3>2. \A r \in RunsOf(selected) : known[r] <= known'[r]
      BY <1>2, RunsAre
    <3> QED
      BY <1>1, <1>2, <3>1, <3>2, GoodNewer
  <2>2. \A d \in pageCalls' : d.live /\ d.answered /\ d.kind = "list" => d \in pageCalls
    BY <1>0
  <2> QED
    BY <1>0, <1>2, <2>1, <2>2, FollowingRest
<1> QED
  BY <1>2, <1>3, <1>4, <1>5, <1>6 DEF PageInv

LEMMA RunReplyKeeps ==
    ASSUME PageInv, NEW c \in pageCalls, c.kind \in {"create", "act"},
           pageCalls' = pageCalls \ {c}, UNCHANGED asked,
           known' = Upserted(c.reply), stale' = (stale \/ Older(c)),
           UNCHANGED <<rev, frames, conn, breaks, selected, loading, failed, paging>>,
           \/ UNCHANGED <<activeRunId, viewed, session, replaying>>
           \/ /\ c.kind = "create" /\ c.space = selected
              /\ \E r \in DOMAIN c.reply : Show(r, r)
    PROVE  PageInv'
<1>1. c \in PageCall /\ Says(c, rev) /\ known \in [Items -> Nat]
  BY DEF PageInv, CallsHold, PageTypeOK
<1>2. /\ known' \in [Items -> Nat] /\ FeedHolds' /\ stale' \in BOOLEAN
      /\ ~stale' => ~stale /\ ~Older(c) /\ \A r \in Items : known[r] <= known'[r]
  BY UpsertedAre
<1>3. CallsHold' /\ \A kind \in {"create", "act"} : \A d, e \in CallsOf(kind)' : d = e
  <2>1. \A d \in pageCalls' : d.live /\ d.kind = "list" => loading'
    BY DEF PageInv, CallsHold
  <2> QED
    BY <2>1, CallsRest
<1>4. \/ UNCHANGED <<activeRunId, viewed, session, replaying>>
      \/ \E r \in Items :
             /\ activeRunId' = r /\ viewed' = r /\ session' \in Items \cup {0}
             /\ replaying' \in BOOLEAN /\ Owner[r] = selected /\ DOMAIN c.reply = {r}
             /\ c.reply[r] = 1
  <2>1. ASSUME c.kind = "create", c.space = selected, NEW r \in DOMAIN c.reply, Show(r, r)
        PROVE  /\ activeRunId' = r /\ viewed' = r /\ session' \in Items \cup {0} /\ r \in Items
               /\ replaying' \in BOOLEAN /\ Owner[r] = selected /\ DOMAIN c.reply = {r}
               /\ c.reply[r] = 1
    <3>1. r \in Items
      BY <1>1 DEF PageCall
    <3> QED
      BY <1>1, <2>1, <3>1, ShowTypes DEF Says
  <2> QED
    BY <2>1
<1>5. PageTypeOK'
  BY <1>2, <1>3, <1>4 DEF PageInv, PageTypeOK
<1>6. PageIsOwn'
  <2>1. loading => \E d \in CallsOf("list")' : d.live /\ d.space = selected
    BY DEF PageInv, PageIsOwn, CallsOf
  <2>2. paging => \E d \in CallsOf("more")' : d.live /\ d.space = selected
    BY DEF PageInv, PageIsOwn, CallsOf
  <2>3. \A r \in {activeRunId', viewed'} \ {0} : Owner[r] = selected
    BY <1>4 DEF PageInv, PageIsOwn
  <2> QED
    BY <1>5, <2>1, <2>2, <2>3 DEF PageIsOwn
<1>7. ASSUME ~stale', selected # NoSpace, ~loading, ~failed
      PROVE  Good(rev, frames, selected, known', activeRunId')
  <2>1. /\ Good(rev, frames, selected, known, activeRunId) /\ Feed(rev, frames)
        /\ OneWorks(rev, selected) /\ activeRunId \in Items \cup {0}
    BY <1>2, <1>7 DEF PageInv, Following, FeedHolds, PageTypeOK
  <2>2. CASE activeRunId' = activeRunId
    <3>1. \A r \in RunsOf(selected) : known[r] <= known'[r]
      BY <1>2, <1>7, RunsAre
    <3> QED
      BY <1>1, <1>2, <2>1, <2>2, <3>1, GoodNewer
  <2>3. ASSUME NEW r \in Items, activeRunId' = r, Owner[r] = selected, DOMAIN c.reply = {r},
               c.reply[r] = 1
        PROVE  Good(rev, frames, selected, known', activeRunId')
    <3>1. known' = [known EXCEPT ![r] = 1]
      BY <1>1, <2>3 DEF Upserted
    <3>2. known[r] <= 1
      BY <1>2, <1>7, <2>3, <3>1, <1>1
    <3>3. 1 <= rev[r] /\ r \in RunsOf(selected)
      BY <1>1, <2>3, RunsAre DEF Says
    <3>4. Good(rev, frames, selected, [known EXCEPT ![r] = 1], r)
      BY <1>1, <2>1, <3>2, <3>3, GoodCreate
    <3> QED
      BY <2>3, <3>1, <3>4, Zenon
  <2> QED
    BY <1>4, <2>2, <2>3
<1>8. Following'
  <2>1. \A d \in pageCalls' : d.live /\ d.answered /\ d.kind = "list" => d \in pageCalls
    OBVIOUS
  <2> QED
    BY <1>2, <1>7, <2>1, FollowingRest
<1> QED
  BY <1>2, <1>3, <1>5, <1>6, <1>8 DEF PageInv

(* The list of the selected workspace arrives, or fails.                     *)
LEMMA RepliesKeep ==
    ASSUME PageInv, NEW c \in pageCalls, CreateArrives(c) \/ ActArrives(c), UNCHANGED asked
    PROVE  PageInv'
<1>1. c \in PageCall /\ Says(c, rev)
  BY DEF PageInv, CallsHold
<1>2. CASE CreateArrives(c)
  <2>1. ASSUME DOMAIN c.reply # {}, ShownIn(c.space),
               Show(Max(DOMAIN c.reply), Max(DOMAIN c.reply))
        PROVE  c.space = selected /\ \E r \in DOMAIN c.reply : Show(r, r)
    <3>1. DOMAIN c.reply \in SUBSET (Items \cup {0})
      BY <1>1 DEF PageCall
    <3>2. Max(DOMAIN c.reply) \in DOMAIN c.reply
      BY <2>1, <3>1, GreatestRun
    <3> QED
      BY <2>1, <3>2 DEF ShownIn
  <2> QED
    BY <1>2, <2>1, RunReplyKeeps DEF CreateArrives
<1>3. CASE ActArrives(c)
  BY <1>3, RunReplyKeeps DEF ActArrives
<1> QED
  BY <1>2, <1>3

(* What the page makes of a list it wants.                                   *)
LEMMA ListRunIs ==
    ASSUME NEW c \in PageCall
    PROVE  /\ Listed(c) \in [Items -> Nat] /\ ListRun(c) \in Items \cup {0}
           /\ ListRun(c) # 0 => ListRun(c) \in DOMAIN c.reply /\ Working(Listed(c)[ListRun(c)])
           /\ ListRun(c) = 0 => \A r \in Items : ~Working(Listed(c)[r])
<1>1. PICK D \in SUBSET Items : c.reply \in [D -> Nat]
  BY DEF PageCall
<1>2. Running(c) \in SUBSET (Items \cup {0}) /\ 0 \notin Running(c)
  BY <1>1, ItemsAre DEF Running
<1>3. /\ ListRun(c) # 0 => ListRun(c) \in Running(c)
      /\ ListRun(c) = 0 => Running(c) = {}
  BY <1>2, GreatestRun DEF ListRun
<1>4. Listed(c) \in [Items -> Nat]
  <2>1. ASSUME NEW r \in Items
        PROVE  (IF r \in DOMAIN c.reply THEN c.reply[r] ELSE 0) \in Nat
    BY <1>1
  <2> QED
    BY <2>1 DEF Listed
<1>5. \A r \in Items : Working(Listed(c)[r]) <=> r \in Running(c)
  <2>1. ~Working(0)
    BY DEF Working
  <2> QED
    BY <2>1 DEF Listed, Running
<1> QED
  BY <1>2, <1>3, <1>4, <1>5 DEF Running

LEMMA ListKeeps ==
    ASSUME PageInv, NEW c \in pageCalls, ListArrives(c), UNCHANGED asked PROVE PageInv'
<1>0. /\ c.kind = "list" /\ c.answered /\ pageCalls' = pageCalls \ {c}
      /\ UNCHANGED <<rev, frames, conn, breaks, selected, paging>>
  BY DEF ListArrives
<1>1. c \in PageCall /\ Says(c, rev) /\ known \in [Items -> Nat]
  BY DEF PageInv, CallsHold, PageTypeOK
<1>2. paging => \E d \in CallsOf("more")' : d.live /\ d.space = selected
  BY <1>0 DEF PageInv, PageIsOwn, CallsOf
<1>3. \A d \in pageCalls' : d.live /\ d.answered /\ d.kind = "list" => d \in pageCalls
  BY <1>0
<1>4. CASE ~c.live
  <2>1. UNCHANGED <<known, stale, activeRunId, viewed, session, replaying, loading, failed>>
    BY <1>4 DEF ListArrives, Wanted
  <2>2. CallsHold' /\ \A kind \in {"create", "act"} : \A d, e \in CallsOf(kind)' : d = e
    <3>1. \A d \in pageCalls' : d.live /\ d.kind = "list" => loading'
      BY <1>0, <2>1 DEF PageInv, CallsHold
    <3> QED
      BY <1>0, <3>1, CallsRest
  <2>3. PageTypeOK' /\ FeedHolds'
    BY <1>0, <2>1, <2>2 DEF PageInv, PageTypeOK, FeedHolds
  <2>4. PageIsOwn'
    <3>1. loading => \E d \in CallsOf("list")' : d.live /\ d.space = selected
      BY <1>0, <1>4 DEF PageInv, PageIsOwn, CallsOf
    <3> QED
      BY <1>0, <1>2, <2>1, <2>3, <3>1 DEF PageInv, PageIsOwn
  <2>5. Following'
    <3>1. \A r \in Items : known[r] <= known[r]
      BY <1>1
    <3>2. ~stale /\ selected # NoSpace /\ ~loading /\ ~failed
              => Good(rev, frames, selected, known, activeRunId)
      BY DEF PageInv, Following
    <3> QED
      BY <1>0, <1>1, <1>3, <2>1, <3>1, <3>2, FollowingRest
  <2> QED
    BY <2>2, <2>3, <2>4, <2>5 DEF PageInv
<1>5. CASE c.live
  <2> DEFINE newest == IF DOMAIN c.reply = {} THEN 0 ELSE Max(DOMAIN c.reply)
             a      == ListRun(c)
             v      == IF a # 0 THEN a ELSE newest
  <2>1. /\ known' = Upserted(c.reply) /\ stale' = (stale \/ Older(c))
        /\ Show(a, v) /\ loading' = FALSE /\ failed' = FALSE
    BY <1>5 DEF ListArrives, Wanted, ListRun, Running
  <2>2. c.space = selected
    BY <1>0, <1>5 DEF PageInv, CallsHold
  <2>3. /\ Listed(c) \in [Items -> Nat] /\ a \in Items \cup {0}
        /\ a # 0 => a \in DOMAIN c.reply
    BY <1>1, ListRunIs
  <2>4. newest \in DOMAIN c.reply \cup {0} /\ DOMAIN c.reply \subseteq Items
    <3>1. DOMAIN c.reply \in SUBSET (Items \cup {0}) /\ DOMAIN c.reply \subseteq Items
      BY <1>1 DEF PageCall
    <3> QED
      BY <3>1, GreatestRun
  <2> HIDE DEF newest, a
  <2>5. v \in Items \cup {0} /\ (v # 0 => v \in DOMAIN c.reply)
    BY <2>3, <2>4
  <2> HIDE DEF v
  <2>6. /\ activeRunId' = a /\ viewed' = v /\ session' \in Items \cup {0}
        /\ replaying' \in BOOLEAN
    BY <2>1, <2>3, <2>5, ShowTypes
  <2>7. /\ known' \in [Items -> Nat] /\ FeedHolds' /\ stale' \in BOOLEAN
        /\ ~stale' => ~stale /\ ~Older(c) /\ \A r \in Items : known[r] <= known'[r]
    BY <1>0, <2>1, UpsertedAre
  <2>8. CallsHold' /\ \A kind \in {"create", "act"} : \A d, e \in CallsOf(kind)' : d = e
    <3>1. \A d \in pageCalls' : ~(d.live /\ d.kind = "list")
      BY <1>0, <1>5 DEF PageInv, CallsHold
    <3> QED
      BY <1>0, <3>1, CallsRest
  <2>9. PageTypeOK'
    BY <1>0, <2>1, <2>3, <2>5, <2>6, <2>7, <2>8 DEF PageInv, PageTypeOK
  <2>10. PageIsOwn'
    <3>1. \A r \in {activeRunId', viewed'} \ {0} : Owner[r] = selected
      BY <1>0, <1>1, <2>2, <2>3, <2>5, <2>6 DEF Says
    <3> QED
      BY <1>0, <1>2, <2>1, <2>9, <3>1 DEF PageIsOwn
  <2>11. ASSUME ~stale', selected # NoSpace
         PROVE  Good(rev, frames, selected, known', activeRunId')
    <3>1. Promised(c, rev, frames, selected) /\ Feed(rev, frames)
      BY <1>0, <1>5, <2>7, <2>11 DEF PageInv, Following, CallsOf, FeedHolds
    <3>2. Good(rev, frames, selected, Listed(c), a)
      BY <3>1 DEF Promised, a
    <3>3. \A r \in RunsOf(selected) : Listed(c)[r] <= known'[r]
      BY <1>1, <2>1, <2>3, <2>7, RunsAre DEF Listed, Upserted
    <3> QED
      BY <2>3, <2>6, <2>7, <3>1, <3>2, <3>3, GoodNewer
  <2>12. Following'
    BY <1>0, <1>3, <2>1, <2>7, <2>11, FollowingRest
  <2> QED
    BY <2>7, <2>8, <2>9, <2>10, <2>12 DEF PageInv
<1>6. c.live \in BOOLEAN
  BY <1>1 DEF PageCall
<1> QED
  BY <1>4, <1>5, <1>6

LEMMA ListFailsKeeps ==
    ASSUME PageInv, NEW c \in pageCalls, ListFails(c), UNCHANGED asked PROVE PageInv'
<1>0. /\ c.kind = "list" /\ pageCalls' = pageCalls \ {c}
      /\ UNCHANGED <<rev, frames, stale, conn, breaks, selected, known, paging>>
  BY DEF ListFails
<1>1. /\ c \in PageCall /\ known \in [Items -> Nat] /\ \A r \in Items : known[r] <= known[r]
  BY DEF PageInv, CallsHold, PageTypeOK
<1>2. paging => \E d \in CallsOf("more")' : d.live /\ d.space = selected
  BY <1>0 DEF PageInv, PageIsOwn, CallsOf
<1>3. \A d \in pageCalls' : d.live /\ d.answered /\ d.kind = "list" => d \in pageCalls
  BY <1>0
<1>4. \/ ~c.live /\ UNCHANGED <<activeRunId, viewed, session, replaying, loading, failed>>
      \/ /\ c.live /\ activeRunId' = 0 /\ viewed' = 0 /\ session' \in Items \cup {0}
         /\ replaying' \in BOOLEAN /\ loading' = FALSE /\ failed' = TRUE
  <2>1. 0 \in Items \cup {0} /\ c.live \in BOOLEAN
    BY <1>1 DEF PageCall
  <2> QED
    BY <2>1, ShowTypes DEF ListFails, Wanted
<1>5. CallsHold' /\ \A kind \in {"create", "act"} : \A d, e \in CallsOf(kind)' : d = e
  <2>1. \A d \in pageCalls' : d.live /\ d.kind = "list" => loading'
    BY <1>0, <1>4 DEF PageInv, CallsHold
  <2> QED
    BY <1>0, <2>1, CallsRest
<1>6. PageTypeOK' /\ FeedHolds'
  BY <1>0, <1>4, <1>5 DEF PageInv, PageTypeOK, FeedHolds
<1>7. PageIsOwn'
  <2>1. loading' => \E d \in CallsOf("list")' : d.live /\ d.space = selected
    BY <1>0, <1>4 DEF PageInv, PageIsOwn, CallsOf
  <2>2. \A r \in {activeRunId', viewed'} \ {0} : Owner[r] = selected
    BY <1>4 DEF PageInv, PageIsOwn
  <2> QED
    BY <1>0, <1>2, <1>6, <2>1, <2>2 DEF PageIsOwn
<1>8. Following'
  <2>1. ~stale /\ selected # NoSpace /\ ~loading' /\ ~failed'
            => Good(rev, frames, selected, known, activeRunId')
    BY <1>4 DEF PageInv, Following
  <2> QED
    BY <1>0, <1>1, <1>3, <2>1, FollowingRest
<1> QED
  BY <1>5, <1>6, <1>7, <1>8 DEF PageInv

LEMMA SelectKeeps ==
    ASSUME PageInv, NEW w \in PageSpaces \cup {NoSpace}, SelectWorkspace(w) PROVE PageInv'
<1> DEFINE Dropped(c) == IF c.kind \in {"list", "more"} THEN [c EXCEPT !.live = FALSE] ELSE c
           kept == {Dropped(c) : c \in pageCalls}
           new == Call("list", w, 0)
<1>0. /\ selected' = w /\ loading' = (w # NoSpace) /\ failed' = FALSE /\ paging' = FALSE
      /\ Show(0, 0) /\ UNCHANGED <<rev, frames, conn, breaks, known>>
      /\ stale' = \E r \in RunsOf(w) :
                    Working(rev[r]) /\ \E s \in RunsOf(w) \ {r} : Working(rev[s])
      /\ \/ w = NoSpace /\ pageCalls' = kept /\ asked' = asked
         \/ /\ w # NoSpace /\ asked < MaxCalls /\ asked' = asked + 1
            /\ pageCalls' = kept \cup {new}
  BY DEF SelectWorkspace
<1>1. /\ activeRunId' = 0 /\ viewed' = 0 /\ session' \in Items \cup {0}
      /\ replaying' \in BOOLEAN
  BY <1>0, ShowTypes
<1>2. ASSUME NEW c \in pageCalls
      PROVE  /\ Dropped(c) \in PageCall /\ Dropped(c).kind = c.kind /\ Says(Dropped(c), rev)
             /\ c.kind \in {"list", "more"} => ~Dropped(c).live
             /\ c.kind \in {"create", "act"} => Dropped(c) = c
  <2>1. c \in PageCall /\ Says(c, rev)
    BY DEF PageInv, CallsHold
  <2> QED
    BY <2>1 DEF PageCall, Says
<1>3. w # NoSpace => /\ new \in PageCall /\ new.kind = "list" /\ new.space = w /\ new.live
                     /\ ~new.answered /\ DOMAIN new.reply = {}
  <2>1. Nothing \in [{} -> Nat] /\ DOMAIN Nothing = {} /\ {} \in SUBSET Items
    BY DEF Nothing
  <2>2. Nothing \in UNION {[D -> Nat] : D \in SUBSET Items}
    BY <2>1, Zenon
  <2> QED
    BY <2>1, <2>2 DEF Call, PageCall
<1>4. \A e \in kept : \E c \in pageCalls : e = Dropped(c)
  OBVIOUS
<1> HIDE DEF new, Dropped, kept
<1>5. ASSUME NEW e \in kept
      PROVE  /\ e \in PageCall /\ Says(e, rev)
             /\ e.kind \in {"list", "more"} => ~e.live
             /\ e.kind \in {"create", "act"} => e \in pageCalls
  BY <1>2, <1>4
<1>6. w # NoSpace => Says(new, rev)
  BY <1>3 DEF Says
<1>7. CallsHold'
  <2>1. ASSUME NEW e \in pageCalls'
        PROVE  /\ e \in PageCall /\ Says(e, rev)
               /\ e.live /\ e.kind \in {"list", "more"} => e.space = w /\ w # NoSpace
               /\ e.kind = "list" /\ e.live => e = new
               /\ e.kind \in {"create", "act"} => e \in pageCalls
               /\ e.kind \in {"list", "more", "create", "act"}
    <3>1. CASE e \in kept
      BY <1>5, <3>1 DEF PageCall
    <3>2. CASE e = new /\ w # NoSpace
      BY <1>3, <1>6, <3>2
    <3> QED
      BY <1>0, <3>1, <3>2
  <2>2. \A c, d \in pageCalls' :
           c.kind = d.kind /\ ((c.live /\ d.live) \/ c.kind \in {"create", "act"})
               /\ c.kind # "more" => c = d
    BY <2>1 DEF PageInv, CallsHold
  <2> QED
    BY <1>0, <2>1, <2>2 DEF CallsHold
<1>8. PageTypeOK'
  <2>1. \A kind \in {"create", "act"} : \A c, d \in CallsOf(kind)' : c = d
    BY <1>7 DEF CallsHold, CallsOf
  <2>2. stale' \in BOOLEAN /\ loading' \in BOOLEAN
    BY <1>0, Zenon
  <2>3. asked' \in 0..MaxCalls
    <3>1. asked \in 0..MaxCalls /\ MaxCalls \in Nat
      BY PageAssumption DEF PageInv, PageTypeOK
    <3> QED
      BY <1>0, <3>1
  <2> QED
    BY <1>0, <1>1, <2>1, <2>2, <2>3 DEF PageInv, PageTypeOK
<1>9. PageIsOwn'
  <2>1. loading' => \E c \in CallsOf("list")' : c.live /\ c.space = w
    BY <1>0, <1>3 DEF CallsOf
  <2> QED
    BY <1>0, <1>1, <1>8, <2>1 DEF PageIsOwn
<1>10. Following'
  <2> SUFFICES ASSUME ~stale', w # NoSpace PROVE Following'
    BY <1>0 DEF Following
  <2>1. OneWorks(rev, w)
    BY <1>0 DEF OneWorks
  <2>2. ASSUME NEW c \in pageCalls', c.kind = "list", c.live, c.answered PROVE FALSE
    BY <1>0, <1>3, <1>5, <2>2
  <2> QED
    BY <1>0, <2>1, <2>2 DEF Following, CallsOf
<1> QED
  BY <1>0, <1>7, <1>8, <1>9, <1>10 DEF PageInv, FeedHolds

(* The page keeps its calls and the flags they own.                          *)
LEMMA CallsSame ==
    ASSUME PageInv, UNCHANGED <<rev, selected, pageCalls, asked, loading, paging, breaks, failed>>,
           conn' \in BOOLEAN, stale' \in BOOLEAN, Len(frames') <= MaxFrames,
           known' \in [Items -> Nat], activeRunId' \in Items \cup {0},
           viewed' \in Items \cup {0}, session' \in Items \cup {0}, replaying' \in BOOLEAN,
           \A r \in {activeRunId', viewed'} \ {0} : Owner[r] = selected
    PROVE  PageTypeOK' /\ PageIsOwn' /\ CallsHold'
<1>1. CallsHold'
  BY DEF PageInv, CallsHold
<1>2. PageTypeOK'
  BY DEF PageInv, PageTypeOK, CallsOf
<1>3. PageIsOwn'
  BY <1>2 DEF PageInv, PageIsOwn, CallsOf
<1> QED
  BY <1>1, <1>2, <1>3

LEMMA ViewsKeep ==
    ASSUME PageInv, (\E r \in Items \cup {0} : SelectRun(r)) \/ ReplayEnds, UNCHANGED asked
    PROVE  PageInv'
<1>0. /\ UNCHANGED <<rev, frames, stale, conn, breaks, selected, known, loading, failed,
                     paging, pageCalls, activeRunId>>
      /\ viewed' \in Items \cup {0} /\ session' \in Items \cup {0} /\ replaying' \in BOOLEAN
      /\ viewed' # 0 => Owner[viewed'] = selected
  <2>0. activeRunId \in Items \cup {0}
    BY DEF PageInv, PageTypeOK
  <2>1. CASE \E r \in Items \cup {0} : SelectRun(r)
    <3>1. PICK r \in Items \cup {0} : SelectRun(r)
      BY <2>1
    <3> QED
      BY <2>0, <3>1, ShowTypes DEF SelectRun
  <2>2. CASE ReplayEnds
    BY <2>2 DEF ReplayEnds, PageInv, PageTypeOK, PageIsOwn
  <2> QED
    BY <2>1, <2>2
<1>1. /\ known \in [Items -> Nat] /\ \A r \in Items : known[r] <= known[r]
      /\ activeRunId \in Items \cup {0} /\ conn \in BOOLEAN /\ stale \in BOOLEAN
      /\ Len(frames) <= MaxFrames
      /\ activeRunId # 0 => Owner[activeRunId] = selected
  BY DEF PageInv, PageTypeOK, PageIsOwn
<1>2. PageTypeOK' /\ PageIsOwn' /\ CallsHold'
  BY <1>0, <1>1, CallsSame
<1>3. Following'
  <2>1. ~stale /\ selected # NoSpace /\ ~loading /\ ~failed
            => Good(rev, frames, selected, known, activeRunId)
    BY DEF PageInv, Following
  <2> QED
    BY <1>0, <1>1, <2>1, FollowingRest
<1> QED
  BY <1>0, <1>2, <1>3 DEF PageInv, FeedHolds

LEMMA SocketKeeps == ASSUME PageInv, Break \/ Reconnect, UNCHANGED asked PROVE PageInv'
<1>0. /\ UNCHANGED <<rev, selected, activeRunId, viewed, known, loading, failed, paging,
                     replaying, session, pageCalls>>
      /\ conn' \in BOOLEAN
      /\ \/ breaks' = breaks /\ frames' = frames /\ stale' = stale
         \/ /\ breaks < MaxBreaks /\ breaks' = breaks + 1 /\ frames' = <<>>
            /\ stale' = (stale \/ frames # <<>>)
  BY DEF Break, Reconnect
<1>1. /\ PageTypeOK /\ breaks \in 0..MaxBreaks /\ stale \in BOOLEAN /\ MaxBreaks \in Nat
      /\ MaxFrames \in Nat /\ Len(frames) <= MaxFrames /\ Feed(rev, frames)
      /\ rev \in [Items -> Nat] /\ known \in [Items -> Nat]
      /\ \A r \in Items : known[r] <= known[r]
  BY PageAssumption DEF PageInv, PageTypeOK, FeedHolds
<1>2. /\ breaks' \in 0..MaxBreaks /\ stale' \in BOOLEAN /\ Len(frames') <= MaxFrames
      /\ ~stale' => ~stale /\ frames' = frames
  <2>1. CASE breaks' = breaks /\ frames' = frames /\ stale' = stale
    BY <1>1, <2>1
  <2>2. CASE /\ breaks < MaxBreaks /\ breaks' = breaks + 1 /\ frames' = <<>>
             /\ stale' = (stale \/ frames # <<>>)
    <3>1. breaks' \in 0..MaxBreaks /\ Len(frames') <= MaxFrames
      BY <1>1, <2>2
    <3>2. stale' \in BOOLEAN
      BY <2>2, Zenon
    <3> QED
      BY <2>2, <3>1, <3>2
  <2> QED
    BY <1>0, <2>1, <2>2
<1>3. Feed(rev, frames')
  <2>1. Feed(rev, <<>>)
    BY <1>1 DEF Feed, Frames
  <2> QED
    BY <1>0, <1>1, <2>1
<1>4. CallsHold'
  BY <1>0 DEF PageInv, CallsHold
<1>5. PageTypeOK'
  BY <1>0, <1>1, <1>2 DEF PageTypeOK, CallsOf
<1>6. PageIsOwn'
  BY <1>0, <1>5 DEF PageInv, PageIsOwn, CallsOf
<1>7. Following'
  <2>1. CASE stale'
    BY <2>1 DEF Following
  <2>2. CASE ~stale'
    <3>1. ~stale /\ frames' = frames
      BY <1>2, <2>2
    <3>2. ~stale /\ selected # NoSpace /\ ~loading /\ ~failed
              => Good(rev, frames, selected, known, activeRunId)
      BY DEF PageInv, Following
    <3> QED
      BY <1>0, <1>1, <3>1, <3>2, FollowingRest
  <2> QED
    BY <2>1, <2>2
<1> QED
  BY <1>0, <1>3, <1>4, <1>5, <1>6, <1>7 DEF PageInv, FeedHolds

(* A frame is applied.                                                       *)
LEMMA FrameKeeps == ASSUME PageInv, FrameArrives, UNCHANGED asked PROVE PageInv'
<1> DEFINE r == Head(frames)[1]
           v == Head(frames)[2]
           a == IF Activates(r, v) THEN r ELSE IF EndsActive(r, v) THEN 0 ELSE activeRunId
           w == IF Activates(r, v) /\ viewed \in {0, activeRunId} THEN r ELSE viewed
<1>0. /\ frames # <<>> /\ frames' = Tail(frames) /\ known' = [known EXCEPT ![r] = v]
      /\ stale' = (stale \/ v < known[r]) /\ Show(a, w)
      /\ UNCHANGED <<rev, conn, breaks, selected, loading, failed, paging, pageCalls>>
  BY DEF FrameArrives
<1>1. /\ Feed(rev, frames) /\ rev \in [Items -> Nat] /\ known \in [Items -> Nat]
      /\ stale \in BOOLEAN /\ conn \in BOOLEAN /\ Len(frames) <= MaxFrames
      /\ activeRunId \in Items \cup {0} /\ viewed \in Items \cup {0} /\ MaxFrames \in Nat
      /\ \A s \in Items : known[s] <= rev[s]
  BY PageAssumption DEF PageInv, PageTypeOK, FeedHolds
<1>2. /\ Feed(rev, Tail(frames)) /\ Shorter(frames, Tail(frames)) /\ Head(frames) = frames[1]
      /\ frames[1][1] \in Items /\ frames[1][2] \in Nat
  BY <1>0, <1>1, FeedShrinks
<1>3. /\ frames[1] = <<r, v>> /\ r \in Items /\ v \in Nat
      /\ frames[1][1] = r /\ frames[1][2] = v /\ v <= rev[r]
  <2>1. frames \in Seq(Items \X Nat) /\ 1 \in 1..Len(frames)
    BY <1>2 DEF Feed, Shorter, Frames
  <2>2. frames[1] \in Items \X Nat
    BY <2>1
  <2>3. frames[1][2] <= rev[frames[1][1]]
    BY <1>1, <2>1 DEF Feed, Frames
  <2>4. frames[1] = <<frames[1][1], frames[1][2]>>
    BY <2>2
  <2>5. r = frames[1][1] /\ v = frames[1][2]
    BY <1>2
  <2> QED
    BY <1>2, <2>3, <2>4, <2>5
<1> HIDE DEF r, v
<1>4. a \in Items \cup {0} /\ w \in Items \cup {0}
  BY <1>1, <1>3
<1>5. /\ a # 0 => a = activeRunId \/ Owner[a] = selected
      /\ w # 0 => w = viewed \/ Owner[w] = selected
  BY DEF Activates
<1>6. a = IF Activates(r, v) THEN r
          ELSE IF activeRunId = r /\ ~Working(v) THEN 0 ELSE activeRunId
  BY DEF EndsActive
<1> HIDE DEF a, w
<1>7. /\ activeRunId' = a /\ viewed' = w /\ session' \in Items \cup {0}
      /\ replaying' \in BOOLEAN
  BY <1>0, <1>4, ShowTypes
<1>8. /\ known' \in [Items -> Nat] /\ \A s \in Items : known'[s] <= rev[s]
      /\ known'[r] = v /\ stale' \in BOOLEAN
      /\ ~stale' => ~stale /\ known[r] <= v /\ \A s \in Items : known[s] <= known'[s]
  <2>1. known' \in [Items -> Nat] /\ known'[r] = v /\ \A s \in Items \ {r} : known'[s] = known[s]
    BY <1>0, <1>1, <1>3
  <2>2. stale' \in BOOLEAN
    BY <1>0, Zenon
  <2>3. \A s \in Items : known'[s] <= rev[s]
    BY <1>1, <1>3, <2>1
  <2>4. ASSUME ~stale' PROVE ~stale /\ known[r] <= v /\ \A s \in Items : known[s] <= known'[s]
    <3>1. ~stale /\ ~(v < known[r])
      BY <1>0, <2>4
    <3>2. known[r] <= v
      BY <1>1, <1>3, <3>1
    <3> QED
      BY <1>1, <2>1, <3>1, <3>2
  <2> QED
    BY <2>1, <2>2, <2>3, <2>4
<1>9. Len(frames') <= MaxFrames
  <2>1. Len(Tail(frames)) = Len(frames) - 1 /\ Len(frames) \in Nat
    BY <1>0, <1>1 DEF Feed
  <2> QED
    BY <1>0, <1>1, <2>1
<1>10. PageTypeOK' /\ PageIsOwn' /\ CallsHold'
  <2>1. \A s \in {activeRunId', viewed'} \ {0} : Owner[s] = selected
    BY <1>5, <1>7 DEF PageInv, PageIsOwn
  <2>2. conn' \in BOOLEAN
    BY <1>0, <1>1
  <2> QED
    BY <1>0, <1>4, <1>7, <1>8, <1>9, <2>1, <2>2, CallsSame
<1>11. Following'
  <2> SUFFICES ASSUME ~stale', selected # NoSpace PROVE Following'
    BY <1>0 DEF Following
  <2>1. ~stale /\ known[r] <= v /\ \A s \in Items : known[s] <= known'[s]
    BY <1>8
  <2>2. OneWorks(rev, selected)
    BY <2>1 DEF PageInv, Following
  <2>3. ASSUME ~loading, ~failed
        PROVE  Good(rev, Tail(frames), selected, known', a)
    <3>1. Good(rev, frames, selected, known, activeRunId)
      BY <2>1, <2>3 DEF PageInv, Following
    <3>2. Activates(r, v) <=> Picks(selected, known, activeRunId, r, v)
      BY DEF Activates, Picks
    <3>3. a = IF Picks(selected, known, activeRunId, r, v) THEN r
              ELSE IF activeRunId = r /\ ~Working(v) THEN 0 ELSE activeRunId
      BY <1>6, <3>2
    <3> HIDE DEF a, r, v
    <3>4. /\ Feed(rev, frames) /\ Shorter(frames, Tail(frames)) /\ OneWorks(rev, selected)
          /\ known \in [Items -> Nat] /\ activeRunId \in Items \cup {0}
          /\ \A s \in Items : known[s] <= rev[s]
          /\ frames[1] = <<r, v>> /\ known[r] <= v
          /\ known' = [known EXCEPT ![r] = v]
      BY <1>0, <1>1, <1>2, <1>3, <2>1, <2>2
    <3> QED
      BY <3>1, <3>3, <3>4, GoodFrame, Zenon
  <2>4. ASSUME NEW c \in pageCalls, c.kind = "list", c.live, c.answered, ~Older(c)'
        PROVE  Promised(c, rev, Tail(frames), selected)
    <3>1. Promised(c, rev, frames, selected) /\ c.space = selected
      <4>1. ~Older(c)
        BY <1>8, <2>1, <2>4, OlderStays
      <4> QED
        BY <2>1, <2>4, <4>1 DEF PageInv, Following, CallsOf, CallsHold
    <3>2. c \in PageCall /\ Says(c, rev)
      BY DEF PageInv, CallsHold
    <3>3. /\ Listed(c) \in [Items -> Nat] /\ ListRun(c) \in Items \cup {0}
          /\ ListRun(c) # 0 => Working(Listed(c)[ListRun(c)])
          /\ ListRun(c) = 0 => \A s \in RunsOf(selected) : ~Working(Listed(c)[s])
      BY <3>2, ListRunIs, RunsAre
    <3>4. \A s \in RunsOf(selected) : Listed(c)[s] <= rev[s]
      BY <1>1, <3>2, RunsAre DEF Listed, Says
    <3>5. r \in RunsOf(selected) => v <= Listed(c)[r]
      <4>1. \/ r \in DOMAIN c.reply /\ ~(c.reply[r] < v)
            \/ Owner[r] = selected /\ r \notin DOMAIN c.reply /\ ~(v > 0)
            \/ r \notin RunsOf(selected)
        BY <1>0, <1>3, <1>8, <2>4, <3>1, RunsAre DEF Older
      <4>2. r \in DOMAIN c.reply => c.reply[r] \in Nat
        BY <3>2 DEF PageCall
      <4> QED
        BY <1>3, <4>1, <4>2 DEF Listed
    <3>6. Good(rev, Tail(frames), selected, Listed(c), ListRun(c))
      BY <1>1, <1>2, <1>3, <2>2, <3>1, <3>3, <3>4, <3>5, GoodAwaited DEF Promised
    <3> QED
      BY <3>1, <3>6 DEF Promised
  <2> QED
    BY <1>0, <1>7, <2>2, <2>3, <2>4 DEF Following, CallsOf
<1>12. FeedHolds'
  BY <1>0, <1>2, <1>8 DEF FeedHolds
<1> QED
  BY <1>10, <1>11, <1>12 DEF PageInv

LEMMA PageStart == PageInit => PageInv
<1> SUFFICES ASSUME PageInit PROVE PageInv
  OBVIOUS
<1>1. rev \in [Items -> Nat] /\ known = rev /\ frames = <<>> /\ pageCalls = {}
  BY DEF PageInit
<1>2. PageTypeOK
  <2>1. Len(frames) <= MaxFrames /\ breaks \in 0..MaxBreaks /\ asked \in 0..MaxCalls
    BY <1>1, PageAssumption DEF PageInit
  <2>2. /\ selected \in PageSpaces \cup {NoSpace}
        /\ {activeRunId, viewed, session} \subseteq Items \cup {0}
        /\ {conn, loading, failed, paging, replaying, stale} \subseteq BOOLEAN
    BY DEF PageInit
  <2> QED
    BY <1>1, <2>1, <2>2 DEF PageTypeOK, CallsOf
<1>3. FeedHolds
  BY <1>1 DEF FeedHolds, Feed, Frames
<1> QED
  BY <1>1, <1>2, <1>3
     DEF PageInit, PageInv, PageIsOwn, CallsHold, Following, CallsOf

LEMMA PageStep == ASSUME PageInv, [PageNext]_pageVars PROVE PageInv'
<1>1. CASE UNCHANGED pageVars
  <2>1. Untouched /\ UNCHANGED <<pageCalls, asked, rev, frames, stale>>
    BY <1>1 DEF pageVars, Untouched
  <2> QED
    BY <2>1, RestMoves, ServerKeeps
<1>2. CASE \E w \in PageSpaces \cup {NoSpace} : SelectWorkspace(w)
  BY <1>2, SelectKeeps
<1>3. CASE AskMore \/ PageStartRun \/ \E r \in Items : PageAct(r)
  BY <1>3, AsksKeep
<1>4. CASE UNCHANGED asked /\ \E r \in Items : RunChanges(r)
  BY <1>4, ChangesKeep
<1>5. CASE UNCHANGED asked /\ ((\E r \in Items \cup {0} : SelectRun(r)) \/ ReplayEnds)
  BY <1>5, ViewsKeep
<1>6. CASE UNCHANGED asked /\ (FrameArrives \/ Break \/ Reconnect)
  BY <1>6, FrameKeeps, SocketKeeps
<1>7. ASSUME UNCHANGED asked, NEW c \in pageCalls,
             \/ AnswerRead(c) \/ AnswerCreate(c) \/ AnswerAct(c) \/ Refuse(c)
             \/ ListArrives(c) \/ ListFails(c) \/ MoreArrives(c)
             \/ CreateArrives(c) \/ ActArrives(c)
      PROVE  PageInv'
  BY <1>7, ReadKeeps, CreateKeeps, AnswerKeeps, ListKeeps, ListFailsKeeps, MoreKeeps,
     RepliesKeep
<1> QED
  BY <1>1, <1>2, <1>3, <1>4, <1>5, <1>6, <1>7 DEF PageNext

(* The page shows runs of the workspace it has selected and of no other, and *)
(* what says that it loads is owned by a request that will clear it (App,    *)
(* RunWorkspace).                                                            *)
THEOREM PageIsOwnHolds == PageSpec => []PageIsOwn
<1>1. PageInv => PageIsOwn
  BY DEF PageInv
<1>2. PageInv /\ [PageNext]_pageVars => PageInv'
  BY PageStep
<1> QED
  BY <1>1, <1>2, PageStart, PTL DEF PageSpec

(* The page follows the run that works, for any number of runs, frames and   *)
(* requests under way (applyWsMsg, getRuns, startRun).                       *)
THEOREM PageFollowsHolds == PageSpec => []PageFollows
<1>1. PageInv => PageFollows
  <2> SUFFICES ASSUME PageInv, selected # NoSpace, ~loading, ~failed, ~stale, frames = <<>>
               PROVE  /\ \A r \in RunsOf(selected) : Working(known[r]) <=> Working(rev[r])
                      /\ activeRunId = Max({r \in RunsOf(selected) : Working(rev[r])} \cup {0})
    BY DEF PageFollows
  <2>1. /\ Good(rev, frames, selected, known, activeRunId) /\ Frames(frames) = {}
        /\ rev \in [Items -> Nat] /\ known \in [Items -> Nat]
        /\ \A r \in Items : known[r] <= rev[r]
    BY DEF PageInv, Following, Frames, PageTypeOK, FeedHolds
  <2>2. \A r, v : ~Sent(frames, r, v)
    BY <2>1 DEF Sent
  <2>3. ASSUME NEW r \in RunsOf(selected) PROVE known[r] = rev[r]
    <3>1. r \in Items /\ known[r] \in Nat /\ rev[r] \in Nat /\ known[r] <= rev[r]
      BY <2>1, RunsAre
    <3>2. \A v \in (known[r] + 1)..rev[r] : FALSE
      BY <2>1, <2>2 DEF Good, Coming
    <3> QED
      BY <3>1, <3>2
  <2> DEFINE S == {r \in RunsOf(selected) : Working(rev[r])} \cup {0}
  <2>4. S = {activeRunId, 0}
    BY <2>1, <2>2 DEF Good
  <2>5. S \in SUBSET (Items \cup {0}) /\ activeRunId \in Nat
    <3>1. activeRunId \in Items \cup {0} /\ Items \subseteq Nat
      BY ItemsAre DEF PageInv, PageTypeOK
    <3> QED
      BY <2>4, <3>1
  <2> HIDE DEF S
  <2>6. Max(S) \in S /\ \A y \in S : y <= Max(S)
    BY <2>4, <2>5, GreatestRun
  <2>7. activeRunId = Max(S)
    BY <2>4, <2>5, <2>6
  <2> QED
    BY <2>3, <2>7 DEF S
<1>2. PageInv /\ [PageNext]_pageVars => PageInv'
  BY PageStep
<1> QED
  BY <1>1, <1>2, PageStart, PTL DEF PageSpec

-----------------------------------------------------------------------------
(* The setup dialog.                                                          *)
DialogCall == [kind : Kinds, login : 0..MaxLogins, then : {"last", "accounts", "idle", "free"},
               ok : {"none", "yes", "no", "pending"}, saw : Nat]

(* What a request is about, and what its answer says of the server.          *)
Sound(c) ==
    /\ c.kind \in {"code", "status", "cancel"} => c.login \in Logins
    /\ c.kind = "start" =>
          /\ c.ok # "pending" /\ (c.ok = "none" => c.login = 0)
          /\ c.ok = "yes" => c.login \in Logins
          /\ c.ok = "no" /\ c.login \in Logins => ceremony[c.login] \notin {"unborn", "pending"}
    /\ c.kind \in {"code", "status"} /\ c.ok \in {"yes", "no"} => Ended(c.login)
    /\ c.kind = "code" => c.ok # "pending"
    /\ c.kind \in {"cancel", "recipe", "providers"} => c.ok = "none"
    /\ c.kind = "accounts" => c.ok \in {"none", "yes"}
    /\ c.kind = "mutate" => c.then = "last"
    /\ c.then = "idle" => c.kind = "providers"
    /\ c.saw <= version
    /\ c.then = "free" => c.kind = "accounts" /\ (c.ok # "none" => settled <= c.saw)

(* Only a ceremony that began has a page, and one change of the accounts is  *)
(* followed at a time.                                                       *)
Displayed ==
    /\ phase \in Pages => loginId \in Logins
    /\ phase = "starting" => loginId = 0
    /\ settled <= version
Frees(c) == c.kind = "mutate" \/ c.then = "free"
OneChange ==
    /\ \A c, d \in dialogCalls : Frees(c) /\ Frees(d) => c = d
    /\ ~held => \A c \in dialogCalls : ~Frees(c)

Straight ==
    /\ \A c \in dialogCalls : Sound(c)
    /\ Displayed /\ OneChange /\ CeremonyIsShown /\ BusyIsOwned /\ AccountsFollow
DialogInv == DialogTypeOK /\ (adrift \/ Straight)

-----------------------------------------------------------------------------
LEMMA NewRequest ==
    ASSUME NEW kind \in Kinds, NEW l \in 0..MaxLogins,
           NEW next \in {"last", "accounts", "idle", "free"}
    PROVE  /\ Request(kind, l, next) \in DialogCall
           /\ Request(kind, l, next).kind = kind /\ Request(kind, l, next).login = l
           /\ Request(kind, l, next).then = next /\ Request(kind, l, next).ok = "none"
           /\ Request(kind, l, next).saw = 0
BY DEF Request, DialogCall

LEMMA NewAnswer ==
    ASSUME NEW c \in DialogCall, NEW ok \in {"yes", "no", "pending"}, NEW l \in 0..MaxLogins,
           NEW v \in Nat, NEW a, a = [c EXCEPT !.ok = ok, !.login = l, !.saw = v]
    PROVE  /\ a \in DialogCall /\ a.kind = c.kind /\ a.then = c.then
           /\ a.ok = ok /\ a.login = l /\ a.saw = v
BY DEF DialogCall

(* A button that sends a request about l.                                    *)
LEMMA IssuedKeeps ==
    ASSUME DialogTypeOK, Straight,
           NEW kind \in {"start", "code", "status", "cancel", "recipe", "providers"},
           NEW l \in 0..MaxLogins, NEW next \in {"last", "idle"}, Issued(dialogCalls, kind, l, next),
           kind \in {"code", "status", "cancel"} => l \in Logins,
           kind = "start" => l = 0, next = "idle" => kind = "providers",
           UNCHANGED serverVars, UNCHANGED settled,
           NEW q, q = Request(kind, l, next)
    PROVE  /\ dialogCalls' \subseteq DialogCall /\ made' \in 0..MaxRequests
           /\ \A c \in dialogCalls' : Sound(c)'
           /\ dialogCalls' = dialogCalls \cup {q}
           /\ q.kind = kind /\ q.login = l /\ q.then = next
           /\ \A c \in dialogCalls' : Frees(c) => c \in dialogCalls
<1>1. /\ dialogCalls' = dialogCalls \cup {q} /\ made < MaxRequests
      /\ made' = made + 1 /\ dialogCalls \subseteq DialogCall /\ made \in 0..MaxRequests
      /\ MaxRequests \in Nat
  BY DialogAssumption DEF Issued, DialogTypeOK, DialogCall
<1>2. kind \in Kinds
  BY DEF Kinds
<1>3. /\ q.kind = kind /\ q.login = l /\ q.then = next /\ q.ok = "none" /\ q.saw = 0
      /\ q \in DialogCall
  BY <1>2, NewRequest
<1>4. version \in Nat /\ UNCHANGED <<ceremony, version, settled>>
  BY DEF DialogTypeOK, serverVars
<1>5. Sound(q)'
  BY <1>3, <1>4 DEF Sound
<1>6. \A c \in dialogCalls : Sound(c)'
  BY <1>4 DEF Straight, Sound, Ended
<1>7. ~Frees(q)
  BY <1>3 DEF Frees
<1>8. made' \in 0..MaxRequests
  BY <1>1
<1> QED
  BY <1>1, <1>3, <1>5, <1>6, <1>7, <1>8

LEMMA ClicksKeep ==
    ASSUME DialogTypeOK, Straight, ~adrift,
           StartSignIn \/ SubmitCode \/ CancelSignInFlow \/ DialogAct \/ Poll
    PROVE  DialogTypeOK' /\ Straight'
<1>0. /\ UNCHANGED <<mode, held, shown, settled, adrift, ceremony, working, version>>
      /\ \A l \in Logins : l \in 0..MaxLogins
      /\ 0 \in 0..MaxLogins /\ (phase \in Pages => loginId \in Logins)
  BY DialogAssumption DEF StartSignIn, SubmitCode, CancelSignInFlow, DialogAct, Poll, serverVars,
                          displayVars, Logins, Straight, Displayed
<1>1. PICK kind \in {"start", "code", "status", "cancel", "recipe", "providers"},
           l \in 0..MaxLogins, next \in {"last", "idle"} :
        /\ Issued(dialogCalls, kind, l, next)
        /\ kind \in {"code", "status", "cancel"} => l \in Logins
        /\ kind = "start" => l = 0
        /\ next = "idle" => kind = "providers"
        /\ \/ kind = "start" /\ phase \in {"none", "failed"} /\ phase' = "starting"
              /\ loginId' = 0 /\ acting' = acting
           \/ kind = "code" /\ phase = "awaiting-code" /\ phase' = "submitting"
              /\ loginId' = loginId /\ l = loginId /\ acting' = acting
           \/ kind = "cancel" /\ phase \in Pages /\ phase' = "none" /\ loginId' = 0
              /\ l = loginId /\ acting' = acting
           \/ kind \in {"recipe", "providers"} /\ (kind = "providers" => next = "idle")
              /\ phase' = phase /\ loginId' = loginId /\ acting' = TRUE
           \/ kind = "status" /\ phase' = phase /\ loginId' = loginId /\ acting' = acting
  <2>1. CASE StartSignIn
    BY <1>0, <2>1 DEF StartSignIn
  <2>2. CASE SubmitCode
    BY <1>0, <2>2 DEF SubmitCode, Pages
  <2>3. CASE CancelSignInFlow
    BY <1>0, <2>3 DEF CancelSignInFlow
  <2>4. CASE DialogAct
    BY <1>0, <2>4 DEF DialogAct
  <2>5. CASE Poll
    BY <1>0, <2>5 DEF Poll, Pages, displayVars
  <2> QED
    BY <2>1, <2>2, <2>3, <2>4, <2>5
<1>2. PICK q : q = Request(kind, l, next)
  OBVIOUS
<1>3. /\ dialogCalls' \subseteq DialogCall /\ made' \in 0..MaxRequests
      /\ \A c \in dialogCalls' : Sound(c)'
      /\ dialogCalls' = dialogCalls \cup {q}
      /\ q.kind = kind /\ q.login = l /\ q.then = next
      /\ \A c \in dialogCalls' : Frees(c) => c \in dialogCalls
  BY <1>0, <1>1, <1>2, IssuedKeeps DEF serverVars
<1>4. DialogTypeOK'
  <2>1. /\ phase' \in Pages \cup {"none", "starting", "failed"} /\ loginId' \in 0..MaxLogins
        /\ acting' \in BOOLEAN
    BY <1>0, <1>1 DEF DialogTypeOK, Pages
  <2> QED
    BY <1>0, <1>3, <2>1 DEF DialogTypeOK, DialogCall
<1>5. Displayed'
  BY <1>0, <1>1 DEF Straight, Displayed, Pages
<1>6. OneChange' /\ AccountsFollow'
  BY <1>0, <1>3 DEF Straight, OneChange, AccountsFollow, Frees
<1>7. CeremonyIsShown'
  BY <1>0, <1>1, <1>3 DEF Straight, CeremonyIsShown, Pages
<1>8. BusyIsOwned'
  BY <1>0, <1>1, <1>3 DEF Straight, BusyIsOwned, Pages
<1> QED
  BY <1>3, <1>4, <1>5, <1>6, <1>7, <1>8 DEF Straight

LEMMA SoundStays ==
    ASSUME NEW c \in DialogCall, Sound(c), UNCHANGED settled, version \in Nat, version' \in Nat,
           version <= version',
           \A l \in Logins : /\ Ended(l) => Ended(l)'
                             /\ ceremony[l] \notin {"unborn", "pending"}
                                   => ceremony'[l] \notin {"unborn", "pending"}
    PROVE  Sound(c)'
<1>1. c.saw \in Nat
  BY DEF DialogCall
<1>2. c.saw <= version'
  BY <1>1 DEF Sound
<1>3. c.kind \in {"code", "status"} /\ c.ok \in {"yes", "no"} => Ended(c.login)'
  BY DEF Sound, Ended
<1>4. /\ c.kind = "start" /\ c.ok = "no" /\ c.login \in Logins
           => ceremony'[c.login] \notin {"unborn", "pending"}
      /\ c.then = "free" => c.kind = "accounts" /\ (c.ok # "none" => settled' <= c.saw)
  BY DEF Sound
<1> QED
  BY <1>2, <1>3, <1>4 DEF Sound

LEMMA MutateKeeps ==
    ASSUME DialogTypeOK, Straight, ~adrift, MutateCodexAccount
    PROVE  DialogTypeOK' /\ Straight'
<1> DEFINE q == Request("mutate", 0, "last")
<1>1. /\ q \in DialogCall /\ q.kind = "mutate" /\ q.then = "last" /\ q.ok = "none"
      /\ q.login = 0 /\ q.saw = 0
  BY DialogAssumption DEF Request, DialogCall, Kinds
<1>2. /\ ~held /\ held' = TRUE /\ dialogCalls' = dialogCalls \cup {q} /\ made' = made + 1
      /\ made < MaxRequests
      /\ UNCHANGED <<mode, phase, loginId, acting, shown, settled, adrift, ceremony, working,
                     version>>
  BY DEF MutateCodexAccount, Issued, serverVars
<1> HIDE DEF q
<1>3. DialogTypeOK'
  <2>1. made' \in 0..MaxRequests
    BY <1>2, DialogAssumption DEF DialogTypeOK
  <2> QED
    BY <1>1, <1>2, <2>1 DEF DialogTypeOK, DialogCall
<1>4. \A c \in dialogCalls' : Sound(c)'
  <2>1. \A c \in dialogCalls : Sound(c)'
    BY <1>2 DEF Straight, Sound, Ended
  <2>2. version \in Nat
    BY DEF DialogTypeOK
  <2>3. ASSUME NEW c, c = q PROVE Sound(c)'
    BY <1>1, <1>2, <2>2, <2>3 DEF Sound
  <2> QED
    BY <1>2, <2>1, <2>3
<1>5. OneChange'
  BY <1>1, <1>2 DEF Straight, OneChange, Frees
<1>6. Displayed' /\ CeremonyIsShown' /\ BusyIsOwned' /\ AccountsFollow'
  BY <1>1, <1>2 DEF Straight, Displayed, CeremonyIsShown, BusyIsOwned, AccountsFollow
<1> QED
  BY <1>3, <1>4, <1>5, <1>6 DEF Straight

(* The server has answered c with a, and done what that says.                *)
LEMMA Swapped ==
    ASSUME DialogTypeOK, Straight, NEW c \in dialogCalls, c.ok = "none", NEW a \in DialogCall,
           a.kind = c.kind, a.then = c.then, c.kind \in {"code", "cancel"} => a.login = c.login,
           dialogCalls' = (dialogCalls \ {c}) \cup {a}, Sound(a)', UNCHANGED displayVars,
           UNCHANGED made, working' \in 0..MaxLogins, version' \in Nat, version <= version',
           ceremony' \in [Logins -> {"unborn", "pending", "dying", "succeeded", "failed"}],
           \A l \in Logins :
              /\ Ended(l) => Ended(l)'
              /\ ceremony[l] \notin {"unborn", "pending"}
                     => ceremony'[l] \notin {"unborn", "pending"}
              /\ ceremony'[l] = "pending"
                     => ceremony[l] = "pending" \/ (a.kind = "start" /\ a.login = l)
    PROVE  DialogTypeOK' /\ Straight'
<1>1. /\ UNCHANGED <<mode, phase, loginId, acting, held, shown, settled, adrift>>
      /\ version \in Nat /\ settled \in Nat /\ dialogCalls \subseteq DialogCall
  BY DEF displayVars, DialogTypeOK, DialogCall
<1>2. DialogTypeOK'
  BY <1>1 DEF DialogTypeOK, DialogCall
<1>3. \A d \in dialogCalls' : Sound(d)'
  BY <1>1, SoundStays DEF Straight
<1>4. Displayed' /\ AccountsFollow'
  BY <1>1 DEF Straight, Displayed, AccountsFollow
<1>5. OneChange'
  BY <1>1 DEF Straight, OneChange, Frees
<1>6. CeremonyIsShown'
  <2> SUFFICES ASSUME NEW l \in Logins, ceremony'[l] = "pending",
                      ~(phase \in Pages /\ loginId = l)
               PROVE  \E d \in dialogCalls' : d.kind \in {"start", "cancel"} /\ d.login = l
    BY <1>1 DEF CeremonyIsShown
  <2>1. CASE a.kind = "start" /\ a.login = l
    BY <2>1
  <2>2. CASE ceremony[l] = "pending"
    <3>1. PICK d \in dialogCalls : d.kind \in {"start", "cancel"} /\ d.login = l
      BY <2>2 DEF Straight, CeremonyIsShown
    <3>2. Sound(d) /\ l # 0
      BY DEF Straight, Logins
    <3>3. d = c => d.kind # "start"
      BY <3>1, <3>2 DEF Sound
    <3> QED
      BY <3>1, <3>3
  <2> QED
    BY <2>1, <2>2
<1>7. BusyIsOwned'
  <2>1. \A d \in dialogCalls : /\ d \in dialogCalls' \/ d = c
    OBVIOUS
  <2> QED
    BY <1>1, <2>1 DEF Straight, BusyIsOwned
<1> QED
  BY <1>2, <1>3, <1>4, <1>5, <1>6, <1>7 DEF Straight

LEMMA AnswersKeep ==
    ASSUME DialogTypeOK, Straight, Answer PROVE DialogTypeOK' /\ Straight'
<1> DEFINE States == {"unborn", "pending", "dying", "succeeded", "failed"}
<1>0. /\ UNCHANGED displayVars /\ UNCHANGED made /\ UNCHANGED <<settled, phase, loginId>>
      /\ ceremony \in [Logins -> States] /\ version \in Nat /\ working \in 0..MaxLogins
      /\ dialogCalls \subseteq DialogCall /\ settled <= version
      /\ \A l \in Logins : l \in 0..MaxLogins
      /\ 0 \in 0..MaxLogins
  BY DialogAssumption DEF Answer, displayVars, DialogTypeOK, DialogCall, Logins, Straight,
                          Displayed
<1>1. PICK c \in dialogCalls :
         /\ c.ok = "none"
         /\ \/ c.kind = "start" /\ AnswerStart(c)
            \/ AnswerAbout(c)
            \/ c.kind = "cancel" /\ AnswerCancel(c)
            \/ c.kind = "mutate" /\ AnswerMutate(c)
            \/ c.kind = "accounts" /\ AnswerAccounts(c)
  BY DEF Answer
<1>2. c \in DialogCall /\ Sound(c) /\ c.login \in 0..MaxLogins
  BY <1>0, <1>1 DEF Straight, DialogCall
<1>3. ASSUME NEW ok \in {"yes", "no", "pending"}, NEW l \in 0..MaxLogins,
             DialogAnswered(c, ok, l), version' \in Nat
      PROVE  \E a \in DialogCall :
                /\ a.kind = c.kind /\ a.then = c.then /\ a.ok = ok /\ a.login = l
                /\ a.saw = version' /\ dialogCalls' = (dialogCalls \ {c}) \cup {a}
  <2> DEFINE a == [c EXCEPT !.ok = ok, !.login = l, !.saw = version']
  <2>1. dialogCalls' = (dialogCalls \ {c}) \cup {a}
    BY <1>3 DEF DialogAnswered
  <2>2. /\ a \in DialogCall /\ a.kind = c.kind /\ a.then = c.then
        /\ a.ok = ok /\ a.login = l /\ a.saw = version'
    BY <1>2, <1>3 DEF DialogCall
  <2> QED
    BY <2>1, <2>2
<1>4. CASE UNCHANGED serverVars /\ c.kind # "cancel"
  <2>1. UNCHANGED <<ceremony, working, version>>
    BY <1>4 DEF serverVars
  <2>2. PICK ok \in {"yes", "no", "pending"}, l \in 0..MaxLogins :
           /\ DialogAnswered(c, ok, l)
           /\ c.kind \in {"code", "status"} => l = c.login /\ (ok # "pending" => Ended(l))
           /\ c.kind = "code" => ok # "pending"
           /\ c.kind = "start" => ok = "no" /\ l = 0
           /\ c.kind = "accounts" => ok = "yes"
           /\ c.kind \in {"start", "code", "status", "mutate", "accounts"}
    <3>1. CASE c.kind = "start"
      BY <1>0, <1>1, <1>4, <2>1, <3>1 DEF AnswerStart, AnswerAbout
    <3>2. CASE c.kind \in {"code", "status"}
      BY <1>1, <1>2, <3>2 DEF AnswerAbout, Ended
    <3>3. CASE c.kind \in {"mutate", "accounts"}
      BY <1>0, <1>1, <3>3 DEF AnswerMutate, AnswerAccounts, AnswerAbout
    <3>4. CASE c.kind \notin {"start", "code", "status", "mutate", "accounts"}
      BY <1>1, <1>4, <3>4 DEF AnswerAbout
    <3> QED
      BY <3>1, <3>2, <3>3, <3>4
  <2>3. PICK a \in DialogCall :
          /\ a.kind = c.kind /\ a.then = c.then /\ a.ok = ok /\ a.login = l
          /\ a.saw = version' /\ dialogCalls' = (dialogCalls \ {c}) \cup {a}
    BY <1>0, <1>3, <2>1, <2>2
  <2>4. Sound(a)'
    <3>1. ~(0 \in Logins)
      BY DEF Logins
    <3>2. a.kind \in {"code", "status"} => Ended(c.login)' = Ended(c.login)
      BY <2>1 DEF Ended
    <3> QED
      BY <1>0, <1>2, <2>1, <2>2, <2>3, <3>1 DEF Sound, Ended
  <2>5. \A k \in Logins : (Ended(k) => Ended(k)') /\ ceremony'[k] = ceremony[k]
    BY <2>1 DEF Ended
  <2> QED
    BY <1>0, <1>1, <2>1, <2>2, <2>3, <2>4, <2>5, Swapped
<1>5. CASE c.kind = "start" /\ ~UNCHANGED serverVars
  <2>1. PICK l \in Logins :
          /\ ceremony[l] = "unborn" /\ working' = l /\ UNCHANGED version
          /\ \/ ceremony' = [ceremony EXCEPT ![l] = "pending"] /\ DialogAnswered(c, "yes", l)
             \/ ceremony' = [ceremony EXCEPT ![l] = "dying"] /\ DialogAnswered(c, "no", l)
    BY <1>1, <1>5 DEF AnswerStart, AnswerAbout
  <2>2. PICK ok \in {"yes", "no"} :
          /\ DialogAnswered(c, ok, l)
          /\ ok = "no" => ceremony'[l] = "dying"
          /\ ceremony' \in [Logins -> States]
          /\ ceremony'[l] \in {"pending", "dying"}
          /\ \A k \in Logins \ {l} : ceremony'[k] = ceremony[k]
    BY <1>0, <2>1
  <2>3. PICK a \in DialogCall :
          /\ a.kind = c.kind /\ a.then = c.then /\ a.ok = ok /\ a.login = l
          /\ a.saw = version' /\ dialogCalls' = (dialogCalls \ {c}) \cup {a}
    BY <1>0, <1>3, <2>1, <2>2
  <2>4. Sound(a)'
    BY <1>0, <1>2, <1>5, <2>1, <2>2, <2>3 DEF Sound
  <2>5. \A k \in Logins : /\ Ended(k) => Ended(k)'
                          /\ ceremony[k] \notin {"unborn", "pending"}
                                => ceremony'[k] \notin {"unborn", "pending"}
                          /\ ceremony'[k] = "pending" => ceremony[k] = "pending" \/ k = l
    BY <2>1, <2>2 DEF Ended
  <2>6. \A k \in Logins : ceremony'[k] = "pending"
                             => ceremony[k] = "pending" \/ (a.kind = "start" /\ a.login = k)
    BY <1>5, <2>3, <2>5
  <2>7. working' \in 0..MaxLogins /\ version' \in Nat /\ version <= version'
    BY <1>0, <2>1
  <2>8. c.kind \in {"code", "cancel"} => a.login = c.login
    BY <1>5
  <2> QED
    BY <1>0, <1>1, <2>2, <2>3, <2>4, <2>5, <2>6, <2>7, <2>8, Swapped
<1>6. CASE c.kind = "mutate" /\ ~UNCHANGED serverVars
  <2>1. version' = version + 1 /\ UNCHANGED <<ceremony, working>> /\ DialogAnswered(c, "yes", 0)
    BY <1>1, <1>6 DEF AnswerMutate, AnswerAbout
  <2>2. PICK a \in DialogCall :
          /\ a.kind = c.kind /\ a.then = c.then /\ a.ok = "yes" /\ a.login = 0
          /\ a.saw = version' /\ dialogCalls' = (dialogCalls \ {c}) \cup {a}
    BY <1>0, <1>3, <2>1
  <2>3. Sound(a)'
    BY <1>0, <1>2, <1>6, <2>1, <2>2 DEF Sound
  <2>4. \A k \in Logins : (Ended(k) => Ended(k)') /\ ceremony'[k] = ceremony[k]
    BY <2>1 DEF Ended
  <2> QED
    BY <1>0, <1>1, <1>6, <2>1, <2>2, <2>3, <2>4, Swapped
<1>7. CASE c.kind = "cancel"
  <2>1. /\ dialogCalls' = dialogCalls \ {c} /\ UNCHANGED <<working, version>>
        /\ ceremony' = IF ceremony[c.login] = "pending"
                       THEN [ceremony EXCEPT ![c.login] = "dying"] ELSE ceremony
        /\ c.login \in Logins
    BY <1>1, <1>2, <1>7 DEF AnswerAbout, AnswerCancel, Sound
  <2>2. /\ ceremony' \in [Logins -> States] /\ ceremony'[c.login] # "pending"
        /\ \A k \in Logins \ {c.login} : ceremony'[k] = ceremony[k]
        /\ \A k \in Logins : /\ Ended(k) => Ended(k)'
                             /\ ceremony[k] \notin {"unborn", "pending"}
                                    => ceremony'[k] \notin {"unborn", "pending"}
    BY <1>0, <2>1 DEF Ended
  <2>3. DialogTypeOK'
    BY <1>0, <2>1, <2>2 DEF DialogTypeOK, displayVars
  <2>4. \A d \in dialogCalls' : Sound(d)'
    BY <1>0, <2>1, <2>2, SoundStays DEF Straight
  <2>5. Displayed' /\ OneChange' /\ AccountsFollow'
    BY <1>0, <2>1 DEF Straight, Displayed, OneChange, AccountsFollow, displayVars
  <2>6. CeremonyIsShown'
    BY <1>0, <2>1, <2>2 DEF Straight, CeremonyIsShown, displayVars
  <2>7. BusyIsOwned'
    <3>1. c.then \notin {"idle", "free"}
      BY <1>2, <1>7 DEF Sound
    <3> QED
      BY <1>0, <1>7, <2>1, <3>1 DEF Straight, BusyIsOwned, displayVars
  <2> QED
    BY <2>3, <2>4, <2>5, <2>6, <2>7 DEF Straight
<1> QED
  BY <1>1, <1>4, <1>5, <1>6, <1>7 DEF AnswerAbout, AnswerAccounts

LEMMA SettleKeeps ==
    ASSUME DialogTypeOK, Straight, NEW l \in Logins, Settle(l) PROVE DialogTypeOK' /\ Straight'
<1>1. /\ UNCHANGED <<mode, phase, loginId, acting, held, shown, settled, adrift, dialogCalls,
                     made>>
      /\ ceremony \in [Logins -> {"unborn", "pending", "dying", "succeeded", "failed"}]
      /\ ceremony[l] \in {"pending", "dying"} /\ working' = 0
      /\ version \in Nat /\ dialogCalls \subseteq DialogCall
  BY DEF Settle, displayVars, DialogTypeOK, DialogCall
<1>2. PICK end \in {"succeeded", "failed"} :
         ceremony' = [ceremony EXCEPT ![l] = end] /\ version' \in {version, version + 1}
  BY DEF Settle
<1>3. /\ ceremony' \in [Logins -> {"unborn", "pending", "dying", "succeeded", "failed"}]
      /\ ceremony'[l] = end /\ \A k \in Logins \ {l} : ceremony'[k] = ceremony[k]
      /\ version' \in Nat /\ version <= version' /\ 0 \in 0..MaxLogins
  BY <1>1, <1>2, DialogAssumption
<1>4. DialogTypeOK'
  BY <1>1, <1>3 DEF DialogTypeOK
<1>5. \A k \in Logins : /\ Ended(k) => Ended(k)'
                        /\ ceremony[k] \notin {"unborn", "pending"}
                               => ceremony'[k] \notin {"unborn", "pending"}
                        /\ ceremony'[k] = "pending" => ceremony[k] = "pending"
  BY <1>2, <1>3 DEF Ended
<1>6. \A c \in dialogCalls' : Sound(c)'
  BY <1>1, <1>3, <1>5, SoundStays DEF Straight
<1>7. Displayed' /\ OneChange' /\ AccountsFollow'
  <2>1. settled \in Nat /\ settled <= version'
    BY <1>1, <1>3 DEF Straight, Displayed, DialogTypeOK
  <2> QED
    BY <1>1, <2>1 DEF Straight, Displayed, OneChange, AccountsFollow
<1>8. CeremonyIsShown' /\ BusyIsOwned'
  BY <1>1, <1>5 DEF Straight, CeremonyIsShown, BusyIsOwned
<1> QED
  BY <1>4, <1>6, <1>7, <1>8 DEF Straight

(* What the reply to c adds to the requests: at most one.                    *)
Follows(c, more) ==
    /\ \A q, r \in more : q = r
    /\ \A q \in more :
          /\ q.ok = "none" /\ q.saw = 0 /\ q.kind \in {"providers", "accounts"}
          /\ q.then = "idle" => q.kind = "providers"
          /\ q.then = "free" => c.kind = "mutate" /\ q.kind = "accounts"
    /\ c.kind = "recipe" => \E q \in more : q.then = "idle"
    /\ c.kind = "mutate" => \E q \in more : q.then = "free"

LEMMA Chain ==
    ASSUME NEW c \in DialogCall, Sound(c), NEW ok, NEW others
    PROVE  \E more \in SUBSET DialogCall :
              Continued(c, ok, others) = others \cup more /\ Follows(c, more)
<1>1. ASSUME NEW kind \in {"providers", "accounts"},
             NEW next \in {"last", "accounts", "idle", "free"},
             next = "idle" => kind = "providers",
             next = "free" => c.kind = "mutate" /\ kind = "accounts",
             c.kind = "recipe" => next = "idle", c.kind = "mutate" => next = "free",
             Continued(c, ok, others) = others \cup {Request(kind, 0, next)}
      PROVE  \E more \in SUBSET DialogCall :
                Continued(c, ok, others) = others \cup more /\ Follows(c, more)
  <2> DEFINE more == {Request(kind, 0, next)}
  <2>1. PICK p : p = Request(kind, 0, next)
    OBVIOUS
  <2>2. /\ p \in DialogCall /\ p.kind = kind /\ p.then = next /\ p.ok = "none" /\ p.saw = 0
    BY <2>1, DialogAssumption DEF Request, DialogCall, Kinds
  <2>3. more = {p} /\ more \in SUBSET DialogCall /\ Continued(c, ok, others) = others \cup more
    BY <1>1, <2>1, <2>2
  <2> HIDE DEF more
  <2>4. Follows(c, more)
    BY <1>1, <2>2, <2>3 DEF Follows
  <2> QED
    BY <2>3, <2>4
<1>2. CASE ok = "yes" /\ (c.kind = "code" \/ (c.kind = "status" /\ ~Stopped(c.login)))
  <2>1. Continued(c, ok, others) = others \cup {Request("providers", 0, "accounts")}
    BY <1>2 DEF Continued
  <2> QED
    BY <1>1, <1>2, <2>1
<1>3. CASE c.kind = "recipe"
  <2>1. Continued(c, ok, others) = others \cup {Request("providers", 0, "idle")}
    BY <1>3 DEF Continued
  <2> QED
    BY <1>1, <1>3, <2>1
<1>4. CASE c.kind = "mutate"
  <2>1. Continued(c, ok, others) = others \cup {Request("accounts", 0, "free")}
    BY <1>4 DEF Continued
  <2> QED
    BY <1>1, <1>4, <2>1
<1>5. CASE /\ ~(ok = "yes" /\ (c.kind = "code" \/ (c.kind = "status" /\ ~Stopped(c.login))))
           /\ c.kind \notin {"recipe", "mutate"} /\ c.then = "accounts"
  <2>1. Continued(c, ok, others) = others \cup {Request("accounts", 0, "last")}
    BY <1>5 DEF Continued
  <2> QED
    BY <1>1, <1>5, <2>1
<1>6. CASE /\ ~(ok = "yes" /\ (c.kind = "code" \/ (c.kind = "status" /\ ~Stopped(c.login))))
           /\ c.kind \notin {"recipe", "mutate"} /\ c.then # "accounts"
  <2>1. Continued(c, ok, others) = others \cup {}
    BY <1>6 DEF Continued
  <2> DEFINE more == {}
  <2>2. /\ more \in SUBSET DialogCall /\ \A q \in more : FALSE
        /\ Continued(c, ok, others) = others \cup more
    BY <2>1
  <2> HIDE DEF more
  <2>3. Follows(c, more)
    BY <1>6, <2>2 DEF Follows
  <2> QED
    BY <2>2, <2>3
<1> QED
  BY <1>2, <1>3, <1>4, <1>5, <1>6

(* What it does to the page, unless the page has lost its way.               *)
LEMMA Turn ==
    ASSUME DialogTypeOK, Straight, NEW c \in dialogCalls,
           NEW ok \in {"none", "yes", "no", "pending", "lost"},
           Arrive(c, ok), (ok = c.ok /\ DialogReplied(c)) \/ ok = "lost", ~adrift'
    PROVE  \/ UNCHANGED <<phase, loginId>> /\ c.kind # "start"
              /\ (c.kind = "code" /\ c.login = loginId => phase # "submitting")
           \/ /\ c.kind = "start" /\ phase = "starting" /\ loginId' = c.login
              /\ IF ok = "yes" THEN phase' \in {"device-pending", "awaiting-code"}
                               ELSE ok = "no" /\ phase' = "failed"
           \/ /\ c.kind \in {"code", "status"} /\ c.login = loginId /\ c.ok \in {"yes", "no"}
              /\ phase' \in {"none", "failed"} /\ phase # "starting"
              /\ loginId' \in 0..MaxLogins
<1>0. /\ Sound(c) /\ loginId \in 0..MaxLogins /\ c.kind \in Kinds /\ 0 \notin Logins
      /\ 0 \in 0..MaxLogins /\ (phase = "starting" => loginId = 0)
      /\ ~Crosses(c) /\ ~(ok = "lost" /\ c.kind \in Counts)
  <2>1. /\ c.kind \in Kinds /\ loginId \in 0..MaxLogins
    BY DEF DialogTypeOK
  <2>2. Sound(c) /\ (phase = "starting" => loginId = 0)
    BY DEF Straight, Displayed
  <2>3. ~Crosses(c) /\ ~(ok = "lost" /\ c.kind \in Counts)
    BY Zenon DEF Arrive
  <2>4. 0 \notin Logins /\ 0 \in 0..MaxLogins
    BY DialogAssumption DEF Logins
  <2> QED
    BY <2>1, <2>2, <2>3, <2>4
<1>1. CASE c.kind = "start"
  <2>1. phase = "starting" /\ ok = c.ok /\ ok \in {"yes", "no"}
    BY <1>0, <1>1 DEF Crosses, Counts, Sound, DialogReplied
  <2>2. StartArrives(ok, c.login)
    BY <1>1 DEF Arrive
  <2> QED
    BY <1>1, <2>1, <2>2 DEF StartArrives, Shows
<1>2. CASE c.kind = "code"
  <2>1. ok = c.ok /\ ok \in {"yes", "no"} /\ c.login \in Logins
    BY <1>0, <1>2 DEF Counts, Sound, DialogReplied
  <2>2. CodeArrives(ok)
    BY <1>2 DEF Arrive
  <2>3. loginId # c.login => UNCHANGED <<phase, loginId>>
    BY <1>0, <1>2 DEF Crosses
  <2> QED
    BY <1>0, <1>2, <2>1, <2>2, <2>3 DEF CodeArrives, Shows, Same
<1>3. CASE c.kind = "status"
  <2>1. StatusArrives(ok, c.login)
    BY <1>3 DEF Arrive
  <2> QED
    BY <1>0, <1>3, <2>1 DEF StatusArrives, Shows, Same, Stopped, DialogReplied
<1>4. CASE c.kind \notin {"start", "code", "status"}
  BY <1>4 DEF Arrive, Same
<1> QED
  BY <1>1, <1>2, <1>3, <1>4

LEMMA ArrivalTyped ==
    ASSUME DialogTypeOK, Straight, NEW c \in dialogCalls,
           NEW ok \in {"none", "yes", "no", "pending", "lost"}, Arrive(c, ok)
    PROVE  DialogTypeOK'
<1>1. /\ c \in DialogCall /\ Sound(c) /\ dialogCalls \subseteq DialogCall /\ c.saw \in Nat
      /\ c.login \in 0..MaxLogins /\ c.kind \in Kinds
  BY DEF DialogTypeOK, Straight, DialogCall
<1>2. /\ dialogCalls' = Continued(c, ok, dialogCalls \ {c})
      /\ UNCHANGED <<mode, made, ceremony, working, version>>
  BY DEF Arrive, serverVars
<1>3. dialogCalls' \subseteq DialogCall
  <2>1. PICK more \in SUBSET DialogCall :
           Continued(c, ok, dialogCalls \ {c}) = (dialogCalls \ {c}) \cup more
    BY <1>1, Chain
  <2> QED
    BY <1>1, <1>2, <2>1
<1>4. shown' \in Nat /\ settled' \in Nat
  BY <1>1 DEF Arrive, DialogTypeOK
<1>5. held' \in BOOLEAN /\ acting' \in BOOLEAN /\ adrift' \in BOOLEAN
  BY Zenon DEF Arrive
<1>6. phase' \in Pages \cup {"none", "starting", "failed"} /\ loginId' \in 0..MaxLogins
  <2>0. phase \in Pages \cup {"none", "starting", "failed"} /\ loginId \in 0..MaxLogins
    BY DEF DialogTypeOK
  <2>1. \/ c.kind = "start" /\ StartArrives(ok, c.login)
        \/ c.kind = "code" /\ CodeArrives(ok)
        \/ c.kind = "status" /\ StatusArrives(ok, c.login)
        \/ Same
    BY DEF Arrive
  <2>2. 0 \in 0..MaxLogins
    BY DialogAssumption
  <2> QED
    BY <1>1, <2>0, <2>1, <2>2
       DEF StartArrives, CodeArrives, StatusArrives, Shows, Same, Pages
<1> QED
  BY <1>2, <1>3, <1>4, <1>5, <1>6 DEF DialogTypeOK, DialogCall

LEMMA ArrivalKeeps ==
    ASSUME DialogTypeOK, Straight, NEW c \in dialogCalls,
           NEW ok \in {"none", "yes", "no", "pending", "lost"},
           Arrive(c, ok), (ok = c.ok /\ DialogReplied(c)) \/ ok = "lost", ~adrift'
    PROVE  Straight'
<1> DEFINE others == dialogCalls \ {c}
<1>1. /\ c \in DialogCall /\ Sound(c) /\ dialogCalls \subseteq DialogCall /\ c.saw \in Nat
      /\ {version, settled, shown} \subseteq Nat /\ settled <= version /\ held \in BOOLEAN
  BY DEF DialogTypeOK, Straight, DialogCall, Displayed
<1>2. /\ dialogCalls' = Continued(c, ok, others)
      /\ UNCHANGED <<mode, made, ceremony, working, version>>
      /\ shown' = (IF c.kind = "accounts" /\ ok = "yes" THEN c.saw ELSE shown)
      /\ settled' = (IF c.kind = "mutate" /\ ok = "yes" THEN c.saw ELSE settled)
  BY DEF Arrive, serverVars
<1>3. /\ held' <=> (held /\ c.then # "free")
      /\ acting' <=> (acting /\ c.then # "idle")
      /\ ~Crosses(c) /\ ~(ok = "lost" /\ c.kind \in Counts)
  BY Zenon DEF Arrive
<1>4. PICK more \in SUBSET DialogCall :
         Continued(c, ok, others) = others \cup more /\ Follows(c, more)
  BY <1>1, Chain
<1>5. dialogCalls' = others \cup more
  BY <1>2, <1>4
<1>6. Frees(c) => /\ held /\ \A d \in others : ~Frees(d)
  BY DEF Straight, OneChange
<1>7. \A d \in dialogCalls' : Sound(d)'
  <2>1. ASSUME NEW d \in more PROVE Sound(d)'
    BY <1>1, <1>2, <1>4, <2>1 DEF Follows, Sound
  <2>2. ASSUME NEW d \in others PROVE Sound(d)'
    <3>1. Sound(d) /\ d \in DialogCall
      BY <1>1 DEF Straight
    <3>2. CASE settled' = settled
      BY <1>1, <1>2, <3>1, <3>2, SoundStays DEF Ended
    <3>3. CASE c.kind = "mutate"
      <4>1. d.then # "free"
        BY <1>6, <3>3 DEF Frees
      <4> QED
        BY <1>2, <3>1, <4>1 DEF Sound, Ended
    <3> QED
      BY <1>2, <3>2, <3>3
  <2> QED
    BY <1>5, <2>1, <2>2
<1>8. OneChange'
  <2>1. ASSUME NEW d \in more, Frees(d) PROVE c.kind = "mutate"
    BY <1>4, <2>1 DEF Follows, Frees
  <2>2. c.kind = "mutate" => c.then # "free" /\ Frees(c)
    BY <1>1 DEF Sound, Frees
  <2>3. \A d, e \in dialogCalls' : Frees(d) /\ Frees(e) => d = e
    BY <1>4, <1>5, <1>6, <2>1, <2>2 DEF Follows, Straight, OneChange
  <2>4. ~held' => \A d \in dialogCalls' : ~Frees(d)
    <3>1. CASE c.then = "free"
      BY <1>5, <1>6, <2>1, <2>2, <3>1 DEF Frees
    <3>2. CASE c.then # "free"
      BY <1>3, <1>5, <1>6, <2>1, <2>2, <3>2 DEF Straight, OneChange
    <3> QED
      BY <3>1, <3>2
  <2> QED
    BY <2>3, <2>4 DEF OneChange, Frees
<1>9. AccountsFollow'
  <2> SUFFICES ASSUME ~held' PROVE shown' >= settled'
    BY DEF AccountsFollow
  <2>1. c.kind # "mutate"
    <3>1. CASE c.kind = "mutate"
      BY <1>1, <1>3, <1>6, <3>1 DEF Sound, Frees
    <3> QED
      BY <3>1
  <2>2. CASE c.then = "free"
    <3>1. c.kind = "accounts" /\ ok = c.ok /\ ok = "yes" /\ settled <= c.saw
      BY <1>1, <1>3, <2>2 DEF Sound, Counts, DialogReplied
    <3> QED
      BY <1>1, <1>2, <3>1
  <2>3. CASE c.then # "free"
    <3>1. ~held /\ settled <= shown
      BY <1>1, <1>3, <2>3 DEF Straight, AccountsFollow
    <3>2. c.kind = "accounts" => c.saw >= shown
      BY <1>1, <1>3 DEF Crosses
    <3> QED
      BY <1>1, <1>2, <2>1, <3>1, <3>2
  <2> QED
    BY <2>2, <2>3
<1> DEFINE Stays == UNCHANGED <<phase, loginId>> /\ c.kind # "start"
                    /\ (c.kind = "code" /\ c.login = loginId => phase # "submitting")
           Begins == /\ c.kind = "start" /\ phase = "starting" /\ loginId' = c.login
                     /\ IF ok = "yes" THEN phase' \in {"device-pending", "awaiting-code"}
                                      ELSE ok = "no" /\ phase' = "failed"
           Ends == /\ c.kind \in {"code", "status"} /\ c.login = loginId
                   /\ c.ok \in {"yes", "no"}
                   /\ phase' \in {"none", "failed"} /\ phase # "starting"
                   /\ loginId' \in 0..MaxLogins
<1>10. Stays \/ Begins \/ Ends
  BY Turn
<1>11. Displayed'
  <2>1. settled' <= version'
    BY <1>1, <1>2 DEF Sound
  <2>2. (phase' \in Pages => loginId' \in Logins) /\ (phase' = "starting" => loginId' = 0)
    <3>1. CASE Stays
      BY <3>1 DEF Straight, Displayed
    <3>2. CASE Begins
      <4>1. ok = "yes" => c.ok = "yes"
        BY <1>1
      <4> QED
        BY <1>1, <3>2, <4>1 DEF Sound, Pages
    <3>3. CASE Ends
      BY <3>3 DEF Pages
    <3> QED
      BY <1>10, <3>1, <3>2, <3>3
  <2> QED
    BY <2>1, <2>2 DEF Displayed
<1>12. CeremonyIsShown'
  <2> SUFFICES ASSUME NEW l \in Logins, ceremony[l] = "pending"
               PROVE  \/ phase' \in Pages /\ loginId' = l
                      \/ \E d \in dialogCalls' : d.kind \in {"start", "cancel"} /\ d.login = l
    BY <1>2 DEF CeremonyIsShown
  <2>1. CASE phase \in Pages /\ loginId = l
    <3>1. ~Begins
      BY <2>1 DEF Pages
    <3>2. ~Ends
      BY <1>1, <2>1 DEF Sound, Ended
    <3> QED
      BY <1>10, <2>1, <3>1, <3>2
  <2>2. CASE \E d \in dialogCalls : d.kind \in {"start", "cancel"} /\ d.login = l
    <3>1. PICK d \in dialogCalls : d.kind \in {"start", "cancel"} /\ d.login = l
      BY <2>2
    <3>2. CASE d # c
      BY <1>5, <3>1, <3>2
    <3>3. CASE d = c
      <4>1. c.kind # "cancel"
        BY <1>1, <1>3, <3>1, <3>3 DEF Sound, DialogReplied, Counts
      <4>2. Begins /\ ok = c.ok
        BY <1>3, <1>10, <3>1, <3>3, <4>1 DEF Counts
      <4>3. ok = "yes"
        BY <1>1, <3>1, <3>3, <4>2 DEF Sound
      <4> QED
        BY <3>1, <3>3, <4>2, <4>3 DEF Pages
    <3> QED
      BY <3>2, <3>3
  <2> QED
    BY <2>1, <2>2 DEF Straight, CeremonyIsShown
<1>13. BusyIsOwned'
  <2>1. acting' => \E d \in dialogCalls' : d.kind = "recipe" \/ d.then = "idle"
    <3> SUFFICES ASSUME acting'
                 PROVE  \E d \in dialogCalls' : d.kind = "recipe" \/ d.then = "idle"
      OBVIOUS
    <3>1. PICK d \in dialogCalls : d.kind = "recipe" \/ d.then = "idle"
      BY <1>3 DEF Straight, BusyIsOwned
    <3> QED
      BY <1>3, <1>4, <1>5, <3>1 DEF Follows
  <2>2. held' => \E d \in dialogCalls' : d.kind = "mutate" \/ d.then = "free"
    <3> SUFFICES ASSUME held'
                 PROVE  \E d \in dialogCalls' : d.kind = "mutate" \/ d.then = "free"
      OBVIOUS
    <3>1. PICK d \in dialogCalls : d.kind = "mutate" \/ d.then = "free"
      BY <1>3 DEF Straight, BusyIsOwned
    <3> QED
      BY <1>3, <1>4, <1>5, <3>1 DEF Follows
  <2>3. phase' = "starting" => \E d \in dialogCalls' : d.kind = "start"
    BY <1>5, <1>10 DEF Straight, BusyIsOwned
  <2>4. phase' = "submitting"
           => \E d \in dialogCalls' : d.kind = "code" /\ d.login = loginId'
    BY <1>5, <1>10 DEF Straight, BusyIsOwned
  <2> QED
    BY <2>1, <2>2, <2>3, <2>4 DEF BusyIsOwned
<1> QED
  BY <1>7, <1>8, <1>9, <1>11, <1>12, <1>13 DEF Straight

LEMMA DialogStart == DialogInit => DialogInv
<1> SUFFICES ASSUME DialogInit PROVE DialogInv
  OBVIOUS
<1>1. PICK q : q = Request("accounts", 0, "last")
  OBVIOUS
<1>2. /\ q \in DialogCall /\ q.kind = "accounts" /\ q.then = "last" /\ q.ok = "none"
      /\ q.saw = 0 /\ q.login = 0
  BY <1>1, DialogAssumption DEF Request, DialogCall, Kinds
<1>3. dialogCalls = {q}
  BY <1>1 DEF DialogInit
<1>4. DialogTypeOK
  <2>1. dialogCalls \subseteq DialogCall /\ 0 \in 0..MaxRequests /\ 0 \in 0..MaxLogins
    BY <1>2, <1>3, DialogAssumption
  <2>2. ceremony \in [Logins -> {"unborn", "pending", "dying", "succeeded", "failed"}]
    BY DEF DialogInit
  <2> QED
    BY <2>1, <2>2 DEF DialogInit, DialogTypeOK, DialogCall
<1>5. Straight
  BY <1>2, <1>3 DEF DialogInit, Straight, Sound, Displayed, OneChange, Frees, CeremonyIsShown,
                    BusyIsOwned, AccountsFollow, Pages
<1> QED
  BY <1>4, <1>5 DEF DialogInv

LEMMA DialogStep == DialogInv /\ [DialogNext]_dialogVars => DialogInv'
<1> SUFFICES ASSUME DialogInv, [DialogNext]_dialogVars PROVE DialogInv'
  OBVIOUS
<1>1. CASE UNCHANGED dialogVars
  <2>1. /\ UNCHANGED <<mode, phase, loginId, acting, held, shown, dialogCalls, made, ceremony,
                       working, version, settled, adrift>>
    BY <1>1 DEF dialogVars
  <2>2. DialogTypeOK'
    BY <2>1 DEF DialogInv, DialogTypeOK
  <2>3. Straight => Straight'
    <3> SUFFICES ASSUME Straight PROVE Straight'
      OBVIOUS
    <3>1. \A c \in dialogCalls' : Sound(c)'
      BY <2>1 DEF Straight, Sound, Ended
    <3>2. Displayed' /\ OneChange' /\ CeremonyIsShown' /\ BusyIsOwned' /\ AccountsFollow'
      BY <2>1 DEF Straight, Displayed, OneChange, Frees, CeremonyIsShown, BusyIsOwned,
                  AccountsFollow
    <3> QED
      BY <3>1, <3>2 DEF Straight
  <2> QED
    BY <2>1, <2>2, <2>3 DEF DialogInv
<1>2. CASE DialogNext
  <2>1. DialogTypeOK /\ Straight /\ ~adrift
    BY <1>2 DEF DialogInv, DialogNext
  <2>2. CASE StartSignIn \/ SubmitCode \/ CancelSignInFlow \/ DialogAct \/ Poll
    BY <2>1, <2>2, ClicksKeep DEF DialogInv
  <2>3. CASE MutateCodexAccount
    BY <2>1, <2>3, MutateKeeps DEF DialogInv
  <2>4. CASE Answer
    BY <2>1, <2>4, AnswersKeep DEF DialogInv
  <2>5. CASE \E l \in Logins : Settle(l)
    BY <2>1, <2>5, SettleKeeps DEF DialogInv
  <2>6. CASE ReplyArrives \/ RequestFails
    <3>1. PICK c \in dialogCalls, ok \in {"none", "yes", "no", "pending", "lost"} :
             Arrive(c, ok) /\ ((ok = c.ok /\ DialogReplied(c)) \/ ok = "lost")
      <4>1. \A c \in dialogCalls : c.ok \in {"none", "yes", "no", "pending"}
        BY <2>1 DEF DialogTypeOK
      <4> QED
        BY <2>6, <4>1 DEF ReplyArrives, RequestFails
    <3>2. DialogTypeOK'
      BY <2>1, <3>1, ArrivalTyped
    <3>3. ~adrift' => Straight'
      BY <2>1, <3>1, ArrivalKeeps
    <3> QED
      BY <3>2, <3>3 DEF DialogInv
  <2> QED
    BY <1>2, <2>2, <2>3, <2>4, <2>5, <2>6 DEF DialogNext
<1> QED
  BY <1>1, <1>2

(* Whatever is clicked, and in whatever order replies come or requests fail: *)
(* a ceremony the server works on is on display or about to be, a button     *)
(* that is disabled has a request that will enable it, and enabled buttons   *)
(* show the change they made, as long as no request that counts was lost and *)
(* no reply met another ceremony (ProviderSetup.tsx).                        *)
THEOREM DialogFollowsHolds == DialogSpec => []DialogFollows
<1>1. DialogInv => DialogFollows
  BY DEF DialogInv, Straight, DialogFollows
<1> QED
  BY <1>1, DialogStart, DialogStep, PTL DEF DialogSpec
=============================================================================
