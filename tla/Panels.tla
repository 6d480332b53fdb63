------------------------------- MODULE Panels --------------------------------
(* The two panels of the page where workspaces and workflows are made,       *)
(* changed and run (web/src/panels/workspace, panels/workflow). A handler    *)
(* that awaited a reply goes on with the lists of the render it began in,    *)
(* which may have changed since.                                             *)
(*                                                                           *)
(* The content of a workflow is a number, a new one for every edit; 0 is no  *)
(* workflow, 1 what there was at the start. The server's stores are those of *)
(* LocalStores, here in one step each. A request or its reply may be lost.   *)
EXTENDS Naturals, FiniteSets

CONSTANTS Builtins, Customs, \* workflows: ids of the shipped ones, and of the others
          Sites, FirstSites, \* ids a workspace may have, and those there are first
          Preferred,         \* defaultWorkflowId of a workspace
          NoSite, NoFlow,
          MaxEdits,          \* bound: edits of the user and of other clients
          MaxActions,        \* bound: requests of the panels
          MaxLosses          \* bound: requests and replies that are lost

Drafted == Builtins \cup Customs
FlowContent == 0..(1 + MaxEdits)

ASSUME PanelsAssumption ==
    /\ Builtins \cap Customs = {} /\ Builtins # {} /\ NoFlow \notin Drafted
    /\ FirstSites \subseteq Sites /\ NoSite \notin Sites
    /\ Preferred \in [Sites -> Builtins]
    /\ {MaxEdits, MaxActions, MaxLosses} \subseteq Nat

VARIABLES
    stored,   \* server: the content of each workflow
    there,    \* server: the workspaces there are
    ran,      \* server: the runs made, with what the page showed of the workflow
    loaded,   \* the page has its first lists
    workflows, \* the content the page has of each, 0 if it does not list it
    drafts,   \* ephemeralWorkflowEdits: 0 if there is none
    flow,     \* workflowId
    sites,    \* workspaces
    chosen,   \* selectedWorkspaceId
    action,   \* the call of the workflow panel that is in flight (actionPending)
    form,     \* the call of the workspace form that is in flight (saving)
    removals, \* deletions of workspaces in flight
    edits, actions, losses,
    meddled,  \* history: workflows that another client has changed
    unseen,   \* history: workflows changed by a call that failed for the page
    tangled   \* history: calls about workspaces that overlapped, or whose reply
              \* was lost, or a workspace selected while it was being deleted

panelsVars == <<stored, there, ran, loaded, workflows, drafts, flow, sites, chosen, action,
                form, removals, edits, actions, losses, meddled, unseen, tangled>>

Server  == <<stored, there, ran>>
Flowing == <<stored, ran, workflows, drafts, action, edits, meddled, unseen>>
Siting  == <<there, sites, form, removals, tangled>>

Workflows == {f \in Drafted : workflows[f] # 0}
Shown(f) == IF drafts[f] # 0 THEN drafts[f] ELSE workflows[f]

Rest == [kind |-> "none", flow |-> NoFlow, base |-> NoFlow, content |-> 0, seen |-> 0,
         list |-> [f \in Drafted |-> 0], step |-> "asked"]
RestForm == [kind |-> "none", site |-> NoSite, list |-> {}, was |-> NoSite, step |-> "asked"]

PanelsTypeOK ==
    /\ stored \in [Drafted -> FlowContent] /\ workflows \in [Drafted -> FlowContent]
    /\ drafts \in [Drafted -> FlowContent] /\ flow \in Drafted \cup {NoFlow}
    /\ there \subseteq Sites /\ sites \subseteq Sites /\ chosen \in Sites \cup {NoSite}
    /\ ran \subseteq [flow : Drafted, seen : FlowContent, content : FlowContent]
    /\ loaded \in BOOLEAN /\ tangled \in BOOLEAN
    /\ meddled \subseteq Drafted /\ unseen \subseteq Drafted
    /\ action.kind \in {"none", "run", "save", "copy", "fill"}
    /\ form.kind \in {"none", "create", "update"}
    /\ \A c \in removals \cup {form} : c.step \in {"asked", "done", "refused"}

PanelsInit ==
    /\ stored \in {s \in [Drafted -> {0, 1}] : \A f \in Builtins : s[f] = 1}
    /\ there = FirstSites /\ ran = {}
    /\ loaded = FALSE /\ workflows = [f \in Drafted |-> 0] /\ drafts = [f \in Drafted |-> 0]
    /\ flow = NoFlow /\ sites = {} /\ chosen = NoSite
    /\ action = Rest /\ form = RestForm /\ removals = {}
    /\ edits = 0 /\ actions = 0 /\ losses = 0
    /\ meddled = {} /\ unseen = {} /\ tangled = FALSE

-----------------------------------------------------------------------------
(* The workflow that is selected with workspace w: its default, or the first *)
(* of those in the list.                                                     *)
Preselected(w, list) ==
    IF w \in Sites /\ list[Preferred[w]] # 0 THEN {Preferred[w]}
    ELSE {f \in Drafted : list[f] # 0}

(* setSelectedWorkspaceId, with the effect of the workflow panel: the edits  *)
(* of shipped workflows end with the workspace they were made in.            *)
ChooseSite(w) ==
    /\ chosen' = w
    /\ IF w = chosen
         THEN UNCHANGED <<drafts, flow>>
         ELSE /\ drafts' = [f \in Drafted |-> IF f \in Builtins THEN 0 ELSE drafts[f]]
              /\ flow' \in Preselected(w, workflows')

(* The first lists arrive.                                                   *)
LoadLists ==
    /\ ~loaded /\ loaded' = TRUE
    /\ workflows' = stored /\ sites' = there
    /\ IF there = {}
         THEN flow' \in Preselected(NoSite, stored) /\ UNCHANGED <<chosen, drafts>>
         ELSE \E w \in there : ChooseSite(w)
    /\ UNCHANGED <<Server, action, form, removals, edits, actions, losses, meddled,
                   unseen, tangled>>

(* Another client changes or deletes a workflow of the users.                *)
Meddle(f) ==
    /\ stored[f] # 0 /\ edits < MaxEdits /\ edits' = edits + 1
    /\ stored' \in {[stored EXCEPT ![f] = 0], [stored EXCEPT ![f] = 2 + edits]}
    /\ meddled' = meddled \cup {f}
    /\ UNCHANGED <<ran, loaded, workflows, drafts, flow, chosen, action, actions, losses,
                   unseen, Siting>>

-----------------------------------------------------------------------------
(* The workflow panel.                                                       *)
SelectFlow(f) ==
    /\ f \in Workflows /\ flow' = f
    /\ UNCHANGED <<Flowing, Siting, loaded, chosen, actions, losses>>

(* commit: an edit goes to the draft, made from the list if there is none.   *)
ReduceWorkflowEdit(f, content) == [drafts EXCEPT ![f] = content]
EditDraft ==
    /\ chosen # NoSite /\ flow \in Workflows
    /\ edits < MaxEdits /\ edits' = edits + 1
    /\ drafts' = ReduceWorkflowEdit(flow, 2 + edits)
    /\ UNCHANGED <<stored, ran, loaded, workflows, flow, chosen, action, actions, losses,
                   meddled, unseen, Siting>>

(* A button of the panel: it is disabled while a call is in flight.          *)
Press(kind, content) ==
    /\ action.kind = "none" /\ chosen # NoSite /\ flow \in Workflows
    /\ actions < MaxActions /\ actions' = actions + 1
    /\ action' = [kind |-> kind, flow |-> flow, base |-> flow, content |-> content,
                  seen |-> Shown(flow), list |-> workflows, step |-> "asked"]
    /\ UNCHANGED <<stored, ran, loaded, workflows, drafts, flow, chosen, edits, losses,
                   meddled, unseen, Siting>>

(* A run is asked for with the draft, if there is one, and else by id. (That *)
(* no run of the workspace is active is WebPage's.)                          *)
CreateRunRequest(f) == drafts[f]
AskRun           == Press("run", CreateRunRequest(flow))
SaveCustom       == flow \in Customs /\ drafts[flow] # 0 /\ Press("save", drafts[flow])
DuplicateBuiltin == flow \in Builtins /\ drafts[flow] # 0 /\ Press("copy", drafts[flow])

Handled(then) ==
    /\ action' = then
    /\ UNCHANGED <<loaded, workflows, drafts, flow, chosen, edits, actions, losses, meddled,
                   Siting>>

(* The server makes a run, of the content sent with it or else of the one    *)
(* stored; it refuses one with a provider that is not available.             *)
ServeRun ==
    LET content == IF action.content # 0 THEN action.content ELSE stored[action.flow] IN
    /\ action.kind = "run" /\ action.step = "asked"
    /\ \/ /\ content # 0
          /\ ran' = ran \cup {[flow |-> action.flow, seen |-> action.seen, content |-> content]}
          /\ Handled([action EXCEPT !.step = "done"])
       \/ UNCHANGED ran /\ Handled([action EXCEPT !.step = "refused"])
    /\ UNCHANGED <<stored, unseen>>

(* The server stores a workflow, if it is there.                             *)
ServeSave ==
    LET f == action.flow IN
    /\ action.kind \in {"save", "fill"} /\ action.step = "asked"
    /\ IF stored[f] # 0
         THEN /\ stored' = [stored EXCEPT ![f] = action.content]
              /\ unseen' = unseen \cup {f}
              /\ Handled([action EXCEPT !.step = "done"])
         ELSE UNCHANGED <<stored, unseen>> /\ Handled([action EXCEPT !.step = "refused"])
    /\ UNCHANGED ran

(* The server duplicates a workflow as it is stored, under a new id.         *)
ServeCopy ==
    /\ action.kind = "copy" /\ action.step = "asked"
    /\ \E f \in {c \in Customs : stored[c] = 0} :
         /\ stored' = [stored EXCEPT ![f] = stored[action.base]]
         /\ unseen' = unseen \cup {f}
         /\ Handled([action EXCEPT !.flow = f, !.step = "done"])
    /\ UNCHANGED ran

LoseAction ==
    /\ action.kind # "none" /\ action.step # "refused"
    /\ losses < MaxLosses /\ losses' = losses + 1
    /\ action' = [action EXCEPT !.step = "refused"]
    /\ UNCHANGED <<stored, ran, loaded, workflows, drafts, flow, chosen, edits, actions,
                   meddled, unseen, Siting>>

(* The copy is there: the draft is saved under its id.                       *)
FillCopy ==
    /\ action.kind = "copy" /\ action.step = "done"
    /\ UNCHANGED <<stored, ran, unseen>>
    /\ Handled([action EXCEPT !.kind = "fill", !.step = "asked"])

(* The panel goes on with the reply: the list becomes that of the render     *)
(* the call was made in, with what was saved.                                *)
ActionDone ==
    /\ action.kind \in {"run", "save", "fill"} /\ action.step = "done"
    /\ action' = Rest
    /\ IF action.kind = "run"
         THEN UNCHANGED <<workflows, drafts, flow, unseen>>
         ELSE /\ workflows' = [action.list EXCEPT ![action.flow] = action.content]
              /\ drafts' = [drafts EXCEPT ![action.base] = 0, ![action.flow] = 0]
              /\ flow' = IF action.kind = "fill" THEN action.flow ELSE flow
              /\ unseen' = unseen \ {action.flow}
    /\ UNCHANGED <<stored, ran, loaded, chosen, edits, actions, losses, meddled, Siting>>

(* A call that failed shows an error and changes nothing.                    *)
DropsDraft ==
    /\ action.kind # "none" /\ action.step = "refused"
    /\ action' = Rest /\ drafts' = [drafts EXCEPT ![action.base] = 0]
    /\ UNCHANGED <<stored, ran, unseen, loaded, workflows, flow, chosen, edits, actions,
                   losses, meddled, Siting>>
ActionFailed ==
    /\ action.kind # "none" /\ action.step = "refused"
    /\ UNCHANGED <<stored, ran, unseen>>
    /\ Handled(Rest)

-----------------------------------------------------------------------------
(* The workspace panel.                                                      *)
SitesBusy == form.kind # "none" \/ removals # {}
Asks == /\ loaded /\ actions < MaxActions /\ actions' = actions + 1
        /\ tangled' = (tangled \/ SitesBusy)
        /\ UNCHANGED <<Flowing, loaded, flow, chosen, losses, there, sites>>

SelectSite(w) ==
    /\ w \in sites /\ UNCHANGED workflows /\ ChooseSite(w)
    /\ tangled' = (tangled \/ \E c \in removals : c.site = w)
    /\ UNCHANGED <<Server, loaded, sites, action, form, removals, edits, actions, losses,
                   meddled, unseen>>

(* submitWorkspace, of a new workspace or of one of the list.                *)
Submit(kind, w) ==
    /\ form.kind = "none" /\ Asks
    /\ form' = [kind |-> kind, site |-> w, list |-> sites, was |-> chosen, step |-> "asked"]
    /\ UNCHANGED removals

(* deleteWorkspace: several may be in flight.                                *)
RemoveSite(w) ==
    /\ w \in sites /\ \A c \in removals : c.site # w
    /\ Asks
    /\ removals' = removals \cup {[kind |-> "delete", site |-> w, list |-> sites,
                                   was |-> chosen, step |-> "asked"]}
    /\ UNCHANGED form

(* The server's part: a workspace with an active run is not deleted.         *)
Stepped(c, step) ==
    IF c = form THEN form' = [c EXCEPT !.step = step] /\ UNCHANGED removals
    ELSE removals' = (removals \ {c}) \cup {[c EXCEPT !.step = step]} /\ UNCHANGED form

ServeSite(c) ==
    /\ c.kind # "none" /\ c.step = "asked"
    /\ \/ /\ c.kind = "create" \/ c.site \in there
          /\ there' = CASE c.kind = "create" -> there \cup {c.site}
                        [] c.kind = "delete" -> there \ {c.site}
                        [] OTHER -> there
          /\ Stepped(c, "done")
       \/ UNCHANGED there /\ Stepped(c, "refused")
    /\ UNCHANGED <<Flowing, loaded, flow, sites, chosen, actions, losses, tangled>>

LoseSite(c) ==
    /\ c.kind # "none" /\ c.step # "refused"
    /\ losses < MaxLosses /\ losses' = losses + 1
    /\ tangled' = (tangled \/ c.step = "done")
    /\ Stepped(c, "refused")
    /\ UNCHANGED <<Flowing, loaded, flow, there, sites, chosen, actions>>

(* The panel goes on with the reply.                                         *)
FormDone ==
    /\ form.kind # "none" /\ form.step # "asked" /\ form' = RestForm
    /\ UNCHANGED workflows
    /\ IF form.step = "done" /\ form.kind = "create"
         THEN sites' = form.list \cup {form.site} /\ ChooseSite(form.site)
         ELSE /\ sites' = IF form.step = "done" THEN form.list ELSE sites
              /\ UNCHANGED <<chosen, drafts, flow>>
    /\ UNCHANGED <<Server, loaded, action, removals, edits, actions, losses, meddled,
                   unseen, tangled>>

RemoveDone(c) ==
    LET remaining == c.list \ {c.site} IN
    /\ c.step # "asked" /\ removals' = removals \ {c}
    /\ UNCHANGED workflows
    /\ IF c.step = "done"
         THEN /\ sites' = remaining
              /\ IF c.was # c.site THEN UNCHANGED <<chosen, drafts, flow>>
                 ELSE \E w \in IF remaining = {} THEN {NoSite} ELSE remaining : ChooseSite(w)
         ELSE UNCHANGED <<sites, chosen, drafts, flow>>
    /\ UNCHANGED <<Server, loaded, action, form, edits, actions, losses, meddled,
                   unseen, tangled>>

-----------------------------------------------------------------------------
FlowPanel == \/ EditDraft \/ AskRun \/ SaveCustom \/ DuplicateBuiltin \/ FillCopy
             \/ ActionDone \/ ActionFailed
             \/ \E f \in Drafted : SelectFlow(f)
SitePanel == \/ FormDone
             \/ \E w \in Sites : SelectSite(w) \/ RemoveSite(w)
             \/ \E w \in Sites \ (there \cup sites) : Submit("create", w)
             \/ \E w \in sites : Submit("update", w)
             \/ \E c \in removals : RemoveDone(c)
Answers   == \/ ServeRun \/ ServeSave \/ ServeCopy \/ LoseAction
             \/ \E c \in removals \cup {form} : ServeSite(c) \/ LoseSite(c)

PanelsNext == LoadLists \/ FlowPanel \/ SitePanel \/ Answers \/ \E f \in Customs : Meddle(f)

PanelsSpec == PanelsInit /\ [][PanelsNext]_panelsVars

-----------------------------------------------------------------------------
(* A run is made of the workflow as the page showed it when the user started *)
(* it, drafts included, unless another client has changed that workflow      *)
(* (startRun sends a draft and otherwise only an id: a draft that is dropped *)
(* must have become what is stored).                                         *)
RunsAsShown == \A r \in ran : r.content = r.seen \/ r.flow \in meddled

(* When nothing is in flight, the page lists what is stored: the lists that  *)
(* the handlers write are those of an earlier render, and still no change is *)
(* undone, but by calls about workspaces that overlap. The workspace that is *)
(* selected is one of the list.                                              *)
ListsFollow ==
    /\ loaded /\ action.kind = "none" =>
           \A f \in Drafted : workflows[f] = stored[f] \/ f \in meddled \cup unseen
    /\ loaded /\ ~SitesBusy /\ ~tangled =>
           sites = there /\ chosen \in IF sites = {} THEN {NoSite} ELSE sites

PanelsFollow == PanelsTypeOK /\ RunsAsShown /\ ListsFollow
==============================================================================
