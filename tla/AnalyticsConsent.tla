---------------------------- MODULE AnalyticsConsent ----------------------------
(***************************************************************************)
(* The consent of docs/javascripts/analytics.js: pages of the              *)
(* documentation open in several tabs of a browser, and the choice they    *)
(* share in its local storage, which may refuse a read or a write.         *)
(* `production` and the page's canonical address do not change while it is *)
(* open; a page where either forbids collection is one of kind "local".    *)
(***************************************************************************)
EXTENDS Naturals

CONSTANT Tabs

Choices == {"none", "granted", "denied"}

VARIABLES stored,       \* localStorage[igw_analytics_consent_v1]
          tab,          \* per tab, the page in it
          lastChoice,   \* history: the last button the reader pressed
          unaware,      \* history: tabs that were open elsewhere when it was "denied"
          unstored      \* history: storage refused it

anVars == <<stored, tab, lastChoice, unaware, unstored>>

(* signal: Global Privacy Control or Do Not Track.  disabled: the flag     *)
(* ga-disable-<measurementId>.                                             *)
Pages == [open : BOOLEAN, local : BOOLEAN, signal : BOOLEAN, choice : Choices,
          panel : BOOLEAN, started : BOOLEAN, disabled : BOOLEAN]

Closed == [open |-> FALSE, local |-> TRUE, signal |-> FALSE, choice |-> "none",
           panel |-> FALSE, started |-> FALSE, disabled |-> FALSE]

AnInit ==
    /\ stored = "none"
    /\ tab = [t \in Tabs |-> Closed]
    /\ lastChoice = "none" /\ unaware = {} /\ unstored = FALSE

Collects(page) == page.started /\ ~page.disabled

Started(page) == page.started \/ (~page.signal /\ ~page.local)

(* The script from its first line to its last. *)
Loaded(local, signal, choice) ==
    LET page == [open |-> TRUE, local |-> local, signal |-> signal, choice |-> choice,
                 panel |-> ~signal /\ choice = "none", started |-> FALSE, disabled |-> FALSE]
    IN  [page EXCEPT !.started = (choice = "granted" /\ Started(page))]

Load(t) ==
    /\ \E local, signal \in BOOLEAN, choice \in {stored, "none"} :
          tab' = [tab EXCEPT ![t] = Loaded(local, signal, choice)]
    /\ unaware' = unaware \ {t}
    /\ UNCHANGED <<stored, lastChoice, unstored>>

Close(t) ==
    /\ tab' = [tab EXCEPT ![t] = Closed]
    /\ unaware' = unaware \ {t}
    /\ UNCHANGED <<stored, lastChoice, unstored>>

(* Mutated form, to see that the property can fail. *)
ChosenWithoutFlag(page, value) ==
    [page EXCEPT !.choice = value, !.panel = FALSE,
                 !.started = IF value = "granted" THEN Started(page) ELSE @]

(* choose, in the page. *)
Chosen(page, value) ==
    [page EXCEPT !.choice = value, !.panel = FALSE,
                 !.started = IF value = "granted" THEN Started(page) ELSE @,
                 !.disabled = IF value = "denied" /\ page.started THEN TRUE ELSE @]

Choose(t, value) ==
    /\ tab[t].open /\ tab[t].panel
    /\ tab' = [tab EXCEPT ![t] = Chosen(tab[t], value)]
    /\ stored' \in {value, stored}
    /\ unstored' = (value = "denied" /\ stored' # "denied")
    /\ lastChoice' = value
    /\ unaware' = IF value = "denied" THEN {u \in Tabs \ {t} : tab[u].open} ELSE {}

(* "Analytics preferences", where it does not reload the page. *)
OpenPanel(t) ==
    /\ tab[t].open /\ ~tab[t].signal
    /\ ~(tab[t].started /\ tab[t].choice = "denied")
    /\ tab' = [tab EXCEPT ![t].panel = TRUE]
    /\ UNCHANGED <<stored, lastChoice, unaware, unstored>>

(* Where it does, Load is what happens. *)
AnNext ==
    \E t \in Tabs :
        \/ Load(t) \/ Close(t) \/ OpenPanel(t)
        \/ \E value \in {"granted", "denied"} : Choose(t, value)

AnSpec == AnInit /\ [][AnNext]_anVars

----------------------------------------------------------------------------
AnTypeOK ==
    /\ stored \in Choices /\ lastChoice \in Choices
    /\ tab \in [Tabs -> Pages]
    /\ unaware \subseteq Tabs /\ unstored \in BOOLEAN

(* privacy.md, "Withdrawing consent disables further collection by this    *)
(* integration": whatever pages are opened, reloaded and clicked in        *)
(* whatever order, a page that collects has the reader's consent as the    *)
(* last choice, and no page does under a privacy signal.  Two things       *)
(* escape it: a page that was already open in another tab when consent was *)
(* withdrawn, and pages opened after a withdrawal that storage refused.    *)
CollectorsHaveConsent ==
    \A t \in Tabs : Collects(tab[t]) =>
        /\ ~tab[t].signal /\ ~tab[t].local
        /\ \/ lastChoice = "granted"
           \/ t \in unaware
           \/ unstored
=============================================================================
