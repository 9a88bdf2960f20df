------------------------------- MODULE Catalog -------------------------------
(***************************************************************************)
(* The CatalogWorkflow singleton (internal/workflows/catalog.go), the      *)
(* WordflowCampaignWorkflows that publish themselves in it                 *)
(* (internal/workflows/wordflow_campaign.go), the Activities between them  *)
(* and the API's bootstrap of an absent catalog.                           *)
(*                                                                         *)
(* The Update handlers of the catalog do not block, so that each validates *)
(* and executes in one step.  An Activity is retried until it has its      *)
(* answer: its Update is executed at least once.  Registering and removing *)
(* are idempotent, so the Update IDs are left out.  A campaign's snapshot  *)
(* is immutable: a registration is the campaign's ID, and its levels are   *)
(* valid.  A catalog run that an operator terminated is not open, but      *)
(* still answers queries from its last state.                              *)
(***************************************************************************)
EXTENDS Integers, FiniteSets

CONSTANTS
    Campaigns,   \* campaign IDs
    Default,     \* the campaign of bootstrap/temporal-foundations.json
    EndsAt,        \* Definition.EndsAt, or Never
    GameId,      \* Definition.Game.ID
    GameDetails, \* the rest of Definition.Game
    Never,       \* model value: EndsAt == nil
    MayTerminate,\* whether an operator may terminate the catalog
    MayUpgrade,  \* whether an operator sends request-version-upgrade signals
    MaxTime      \* bound: end of the run

ASSUME CatalogAssumption ==
    /\ Default \in Campaigns
    /\ Never \notin Nat
    /\ EndsAt \in [Campaigns -> Nat \cup {Never}] /\ EndsAt[Default] = Never
    /\ MayTerminate \in BOOLEAN /\ MayUpgrade \in BOOLEAN /\ MaxTime \in Nat

VARIABLES
    catalog,   \* the CatalogWorkflow: "none", "open" or "terminated"
    listed,    \* CatalogState.Campaigns of its latest run
    changed,   \* the buffered channel that wakes its loop
    catalogUpgrade, \* a request-version-upgrade signal for it
    campaign,  \* per campaign Workflow: where it is
    upgrade,   \* per campaign: a request-version-upgrade signal
    opening,   \* an API request found no open catalog, and is to open one
    lost,      \* history: campaigns unlisted by a termination in their run
    now        \* time

catalogVars == <<catalog, listed, changed, catalogUpgrade>>
vars == <<catalog, listed, changed, catalogUpgrade, campaign, upgrade, opening, lost, now>>

\* "registering" and "unregistering" wait for their Activity, "waiting" is the
\* selector, "failed" and "completed" are closed Workflows.
Running == {"registering", "waiting", "unregistering"}
Stages  == Running \cup {"absent", "failed", "completed"}

Init ==
    /\ catalog = "none" /\ listed = {} /\ changed = FALSE /\ catalogUpgrade = FALSE
    /\ campaign = [c \in Campaigns |-> "absent"]
    /\ upgrade = [c \in Campaigns |-> FALSE]
    /\ opening = FALSE /\ lost = {} /\ now = 0

-----------------------------------------------------------------------------
(* The catalog. *)

\* An Update-with-Start or a Query finds the state of the open run, or a new one.
Open(initial) == IF catalog = "open" THEN listed ELSE initial

\* validateCampaignRegistration of a complete registration.
Agrees(c, registered) ==
    \/ c \in registered
    \/ \A d \in registered : GameId[d] = GameId[c] => GameDetails[d] = GameDetails[c]

\* Fault: a game may be registered twice with different metadata.
AgreesAlways(c, registered) == TRUE

ValidateRegistration(c, registered) == Agrees(c, registered)

\* addCampaign and removeCampaign, which wake the loop when they change the list.
SetListed(registered, wakes) ==
    /\ catalog' = "open"
    /\ listed' = registered
    /\ changed' = ((catalog = "open" /\ changed) \/ wakes)
    /\ catalogUpgrade' = (catalog = "open" /\ catalogUpgrade)

AddCampaign(c, registered) == SetListed(registered \cup {c}, c \notin registered)

\* The loop wakes up; a new run starts from the same list.
CatalogIteration ==
    /\ catalog = "open"
    /\ \/ changed /\ \E suggested \in BOOLEAN :
            /\ changed' = FALSE
            /\ catalogUpgrade' = (catalogUpgrade /\ ~suggested)
       \/ catalogUpgrade /\ catalogUpgrade' = FALSE /\ changed' = FALSE
    /\ UNCHANGED <<catalog, listed, campaign, upgrade, opening, lost, now>>

TerminateCatalog ==
    /\ MayTerminate /\ catalog = "open"
    /\ catalog' = "terminated" /\ changed' = FALSE /\ catalogUpgrade' = FALSE
    /\ lost' = lost \cup listed
    /\ UNCHANGED <<listed, campaign, upgrade, opening, now>>

RequestCatalogUpgrade ==
    /\ MayUpgrade /\ catalog = "open" /\ ~catalogUpgrade
    /\ catalogUpgrade' = TRUE
    /\ UNCHANGED <<catalog, listed, changed, campaign, upgrade, opening, lost, now>>

-----------------------------------------------------------------------------
(* The campaigns. *)

Ended(c) == EndsAt[c] # Never /\ now >= EndsAt[c]

\* StartWordflowCampaign, which a running campaign ignores and a completed one
\* refuses; the daily generator starts its children under the same policy.
Starts(c) ==
    campaign' = [campaign EXCEPT ![c] = IF @ \in {"absent", "failed"} THEN "registering" ELSE @]

StartCampaign(c) ==
    /\ campaign[c] \in {"absent", "failed"}
    /\ Starts(c)
    /\ upgrade' = [upgrade EXCEPT ![c] = FALSE]
    /\ UNCHANGED <<catalogVars, opening, lost, now>>

MoveTo(c, stage) == campaign' = [campaign EXCEPT ![c] = stage]

\* Fault: a campaign that has ended returns without removing its snapshot.
AfterRegisteringEnded(c) == IF Ended(c) THEN "completed" ELSE "waiting"

\* A registered campaign sets its timer, or finds that its end has passed.
AfterRegistering(c) == IF Ended(c) THEN "unregistering" ELSE "waiting"

\* One attempt of RegisterCampaign, which starts the catalog if none is open.
\* A rejection is final and fails the Workflow.
Registers(c, answered, rejected) ==
    /\ campaign[c] = "registering"
    /\ LET registered == Open({}) IN
       IF ValidateRegistration(c, registered)
       THEN /\ AddCampaign(c, registered)
            /\ MoveTo(c, IF answered THEN AfterRegistering(c) ELSE "registering")
            /\ lost' = lost \ {c}
       ELSE /\ SetListed(registered, FALSE)
            /\ MoveTo(c, IF answered THEN rejected ELSE "registering")
            /\ UNCHANGED lost
    /\ UNCHANGED <<upgrade, opening, now>>

\* Fault: a rejection is retried like any other error.
RegisterRetrying(c, answered) == Registers(c, answered, "registering")

RegisterCampaign(c, answered) == Registers(c, answered, "failed")

\* A new run of the campaign, which registers again.
ContinuesAt(c, stage) ==
    /\ MoveTo(c, stage)
    /\ upgrade' = [upgrade EXCEPT ![c] = FALSE]
    /\ lost' = lost \ {c}

\* Fault: state.Registered survives Continue-As-New.
ContinueRegistered(c) == ContinuesAt(c, AfterRegistering(c))

ContinueAsNew(c) == ContinuesAt(c, "registering")

\* The timer fires; the selector does not tell apart what woke it.
Expire(c) ==
    /\ campaign[c] = "waiting" /\ Ended(c)
    /\ \/ ContinueAsNew(c)                                  \* it was suggested
       \/ MoveTo(c, "unregistering") /\ UNCHANGED <<upgrade, lost>>
    /\ UNCHANGED <<catalogVars, opening, now>>

ReceiveUpgrade(c) ==
    /\ campaign[c] = "waiting" /\ upgrade[c]
    /\ ContinueAsNew(c)
    /\ UNCHANGED <<catalogVars, opening, now>>

\* One attempt of UnregisterCampaign, which finds only an open catalog.
Unregisters(c, answered, found) ==
    /\ campaign[c] = "unregistering" /\ catalog = "open" /\ found
    /\ SetListed(listed \ {c}, c \in listed)
    /\ MoveTo(c, IF answered THEN "completed" ELSE "unregistering")
    /\ UNCHANGED <<upgrade, opening, lost, now>>

\* Fault: the answer removed == FALSE is an error.
UnregisterListed(c, answered) == Unregisters(c, answered, c \in listed)

UnregisterCampaign(c, answered) == Unregisters(c, answered, TRUE)

RequestUpgrade(c) ==
    /\ MayUpgrade /\ campaign[c] \in Running /\ ~upgrade[c]
    /\ upgrade' = [upgrade EXCEPT ![c] = TRUE]
    /\ UNCHANGED <<catalogVars, campaign, opening, lost, now>>

-----------------------------------------------------------------------------
(* The API. *)

\* A request finds the catalog closed and starts the default campaign.
FindNoCatalog ==
    /\ catalog # "open" /\ ~opening
    /\ Starts(Default)
    /\ upgrade' = IF campaign[Default] \in Running THEN upgrade
                  ELSE [upgrade EXCEPT ![Default] = FALSE]
    /\ opening' = TRUE
    /\ UNCHANGED <<catalogVars, lost, now>>

\* The same request sends `open catalog`, with the start of a catalog that
\* lists the default campaign; by now another may be open.
Opens(registered) ==
    /\ opening /\ opening' = FALSE
    /\ IF ValidateRegistration(Default, registered)
       THEN /\ SetListed(registered \cup {Default}, TRUE)
            /\ lost' = lost \ {Default}
       ELSE UNCHANGED <<catalogVars, lost>>
    /\ UNCHANGED <<campaign, upgrade, now>>

OpenCatalog == Opens(Open({Default}))

GiveUpOpening ==
    /\ opening /\ opening' = FALSE
    /\ UNCHANGED <<catalogVars, campaign, upgrade, lost, now>>

Tick ==
    /\ now < MaxTime /\ now' = now + 1
    /\ UNCHANGED <<catalogVars, campaign, upgrade, opening, lost>>

-----------------------------------------------------------------------------

CampaignStep(c) ==
    \/ StartCampaign(c) \/ RequestUpgrade(c)
    \/ Expire(c) \/ ReceiveUpgrade(c)
    \/ \E answered \in BOOLEAN : RegisterCampaign(c, answered) \/ UnregisterCampaign(c, answered)

Next ==
    \/ \E c \in Campaigns : CampaignStep(c)
    \/ CatalogIteration \/ TerminateCatalog \/ RequestCatalogUpgrade
    \/ FindNoCatalog \/ OpenCatalog \/ GiveUpOpening
    \/ Tick

Spec == Init /\ [][Next]_vars

\* Timers fire, and an Activity that is retried while it can succeed does.
FairSpec ==
    /\ Spec
    /\ \A c \in Campaigns :
        /\ WF_vars(Expire(c))
        /\ WF_vars(RegisterCampaign(c, TRUE))
        /\ SF_vars(UnregisterCampaign(c, TRUE))

-----------------------------------------------------------------------------
(* Properties. *)

\* Every variable has its type, and signals wait only for an open catalog.
TypeOK ==
    /\ catalog \in {"none", "open", "terminated"}
    /\ listed \subseteq Campaigns
    /\ changed \in BOOLEAN /\ catalogUpgrade \in BOOLEAN
    /\ changed \/ catalogUpgrade => catalog = "open"
    /\ campaign \in [Campaigns -> Stages]
    /\ upgrade \in [Campaigns -> BOOLEAN]
    /\ opening \in BOOLEAN
    /\ lost \subseteq Campaigns
    /\ now \in 0..MaxTime

\* An open campaign is in the catalog, whoever registered and left meanwhile;
\* after a catalog was terminated, again from the campaign's next run on.
OpenCampaignsAreListed ==
    \A c \in Campaigns :
        campaign[c] = "waiting" => c \in lost \/ (catalog = "open" /\ c \in listed)

\* The open catalog lists no campaign that has completed or failed: expiry wins
\* against every retry and restart.  Only the default, which the API lists
\* before it has registered, may have failed.
ListedCampaignsRun ==
    catalog = "open" =>
        \A c \in listed : campaign[c] \in Running \/ (c = Default /\ campaign[c] = "failed")

\* Whatever came in which order, two listed campaigns of one game agree on it.
GamesAgree ==
    \A c, d \in listed : GameId[c] = GameId[d] => GameDetails[c] = GameDetails[d]

\* A registration ends: it is accepted, or refused for good.
RegistrationEnds ==
    \A c \in Campaigns : campaign[c] = "registering" ~> campaign[c] # "registering"

\* A campaign whose end has come completes (or fails to register again after a
\* catalog was terminated), provided that a catalog is open time and again.
EndedCampaignsComplete ==
    []<>(catalog = "open") =>
        \A c \in Campaigns :
            (campaign[c] = "waiting" /\ Ended(c)) ~> campaign[c] \in {"completed", "failed"}

-----------------------------------------------------------------------------
(* The inductive invariant behind them. *)

\* The default campaign has no end, and runs or has failed once it is listed.
DefaultInv ==
    /\ campaign[Default] \notin {"unregistering", "completed"}
    /\ opening \/ (catalog = "open" /\ Default \in listed) => campaign[Default] # "absent"

IInv ==
    /\ TypeOK /\ DefaultInv
    /\ OpenCampaignsAreListed /\ ListedCampaignsRun /\ GamesAgree

=============================================================================
