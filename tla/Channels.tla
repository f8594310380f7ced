------------------------------ MODULE Channels ------------------------------
(***************************************************************************)
(* Who is present in a project. Every tab that opens it gets a ChannelToken *)
(* and a node with a status in the realtime database, which turns it off    *)
(* when the tab's connection ends. Requests drop the tokens that are past   *)
(* their time (ChannelToken.get_by_project_key), and the request for the    *)
(* users of a project starts a round of pings (check_ping_replies,          *)
(* handlers/artifacts/project.py) that drops the tokens of tabs that do not *)
(* answer. A flag in memcache keeps rounds apart.                           *)
(***************************************************************************)
EXTENDS Naturals, FiniteSets

CONSTANTS
  Tabs,       \* each opens the project once
  Asks,       \* requests for the users that can be under way, each with its ping task
  User,       \* the user of each tab
  MaxDeaths,  \* bound on the instances that stop under a request or its task
  Shaky       \* bound: the tabs whose connection may be lost for a moment

ASSUME ChannelsAssumption == MaxDeaths \in Nat /\ Shaky \subseteq Tabs

VARIABLES
  tab,       \* "new", "open" or "left"
  tokens,    \* stored ChannelTokens
  status,    \* of each tab: "on", "off", or "old": off, and the token three minutes old
  pinged,    \* tabs with a ping they have not read
  reply,     \* memcache: tabs that are 'here'
  flag,      \* memcache: channel_ping of the project
  acting,    \* tabs with a request on a concept that holds their token
  pc,        \* of each users request and its task
  again,     \* tasks in their second attempt
  todo,      \* tokens a task has listed and not looked up
  heard,     \* history: tabs that answered while the task waited, kept until it is over
  raced,     \* history: two requests found no flag and both set it
  deaths

channelVars == <<tab, tokens, status, pinged, reply, flag, acting, pc, again, todo,
                 heard, raced, deaths>>
tabVars == <<tab, status, acting>>
roundVars == <<pc, again, todo, flag, raced, deaths>>

ChannelsTypeOK ==
  /\ tab \in [Tabs -> {"new", "open", "left"}]
  /\ status \in [Tabs -> {"on", "off", "old"}]
  /\ tokens \subseteq Tabs /\ pinged \subseteq Tabs /\ reply \subseteq Tabs /\ acting \subseteq Tabs
  /\ flag \in BOOLEAN /\ raced \in BOOLEAN
  /\ pc \in [Asks -> {"none", "free", "queued", "wait", "collect", "lost"}]
  /\ again \subseteq Asks
  /\ todo \in [Asks -> SUBSET Tabs] /\ heard \subseteq Tabs
  /\ deaths \in 0..MaxDeaths

ChannelsInit ==
  /\ tab = [t \in Tabs |-> "new"]
  /\ status = [t \in Tabs |-> "off"]
  /\ tokens = {} /\ pinged = {} /\ reply = {} /\ acting = {}
  /\ flag = FALSE /\ raced = FALSE
  /\ pc = [n \in Asks |-> "none"]
  /\ again = {}
  /\ todo = [n \in Asks |-> {}] /\ heard = {}
  /\ deaths = 0

Open(t) == tab[t] = "open"
On(t) == status[t] = "on"
TurnOff(t) == status' = IF On(t) THEN [status EXCEPT ![t] = "off"] ELSE status

\* Once two rounds run at once, nothing is said of either.
Waiting == ~raced /\ \E n \in Asks : pc[n] = "wait"
-----------------------------------------------------------------------------
(* Tabs.                                                                   *)

\* ChannelTokenHandler: status on, a first ping, the token.
Enter(t) ==
  /\ tab[t] = "new"
  /\ tab' = [tab EXCEPT ![t] = "open"]
  /\ status' = [status EXCEPT ![t] = "on"]
  /\ pinged' = pinged \cup {t}
  /\ tokens' = tokens \cup {t}
  /\ UNCHANGED <<acting, reply, heard, roundVars>>

\* The tab is closed: onDisconnect turns its status off, its pings stay unread.
Leave(t) ==
  /\ Open(t)
  /\ tab' = [tab EXCEPT ![t] = "left"]
  /\ TurnOff(t)
  /\ pinged' = pinged \ {t}
  /\ UNCHANGED <<acting, tokens, reply, heard, roundVars>>

\* The connection is lost and comes back: nothing turns the status on again.
Blip(t) ==
  /\ Open(t) /\ t \in Shaky /\ On(t)
  /\ TurnOff(t)
  /\ UNCHANGED <<tab, acting, tokens, pinged, reply, heard, roundVars>>

Age(t) ==
  /\ status[t] = "off" /\ t \in tokens
  /\ status' = [status EXCEPT ![t] = "old"]
  /\ UNCHANGED <<tab, acting, tokens, pinged, reply, heard, roundVars>>

\* ChannelPingHandler: 'here', if there is a token. The five minutes that lasts are
\* not over before a round has looked.
Answer(t) ==
  /\ Open(t) /\ t \in pinged
  /\ pinged' = pinged \ {t}
  /\ IF t \in tokens
       THEN /\ reply' = reply \cup {t}
            /\ heard' = IF Waiting THEN heard \cup {t} ELSE heard
       ELSE UNCHANGED <<reply, heard>>
  /\ UNCHANGED <<tokens, tabVars, roundVars>>
-----------------------------------------------------------------------------
(* ChannelToken.get_by_project_key drops what is past its time, and the     *)
(* tabs the asking user has closed.                                         *)

\* Variant: only tokens of two hours are dropped, never those of lost connections.
ExpiredOnly(t, asker) == FALSE

Invalid(t, asker) ==
  \/ status[t] = "old"
  \/ ~On(t) /\ \E u \in asker : User[t] = User[u]

Dropped(asker) == {t \in tokens \ asker : Invalid(t, asker)}

\* asker: the tab whose token is in hand, or nobody.
Prune(asker) == tokens' = (tokens \cup asker) \ Dropped(asker)

(* A request on a concept (_activate_concept) reads the token, puts it back *)
(* as a whole with the concept and tells the others.                        *)
ActWithout(t) ==
  /\ Open(t) /\ t \notin acting /\ t \notin tokens
  /\ Prune({})
  /\ UNCHANGED <<pinged, reply, heard, tabVars, roundVars>>

GetToken(t) ==
  /\ Open(t) /\ t \notin acting /\ t \in tokens
  /\ acting' = acting \cup {t}
  /\ UNCHANGED <<tab, status, tokens, pinged, reply, heard, roundVars>>

PutToken(t) ==
  /\ t \in acting
  /\ Prune({t})
  /\ acting' = acting \ {t}
  /\ UNCHANGED <<tab, status, pinged, reply, heard, roundVars>>

Act(t) == ActWithout(t) \/ GetToken(t) \/ PutToken(t)
-----------------------------------------------------------------------------
(* ChannelUsersHandler, which sends no token: the list, and ping_test, that *)
(* gets the flag before it sets it.                                         *)

GetFlag(n) ==
  /\ pc[n] = "none"
  /\ Prune({})
  /\ pc' = IF flag THEN pc ELSE [pc EXCEPT ![n] = "free"]
  /\ UNCHANGED <<again, todo, flag, raced, deaths, pinged, reply, heard, tabVars>>

SetFlag(n) ==
  /\ pc[n] = "free"
  /\ flag' = TRUE
  /\ raced' = (raced \/ flag)
  /\ heard' = IF flag THEN {} ELSE heard
  /\ \/ pc' = [pc EXCEPT ![n] = "queued"] /\ UNCHANGED deaths
     \/ /\ deaths < MaxDeaths          \* the instance stops before it defers the task
        /\ pc' = [pc EXCEPT ![n] = "lost"]
        /\ deaths' = deaths + 1
  /\ UNCHANGED <<again, todo, tokens, pinged, reply, tabVars>>
-----------------------------------------------------------------------------
(* check_ping_replies.                                                     *)

\* Variant: the flag is given back once the pings are sent.
PingAllReleasing(n) ==
  /\ pc[n] = "queued"
  /\ Prune({})
  /\ todo' = [todo EXCEPT ![n] = tokens']
  /\ pinged' = pinged \cup {t \in tokens' : Open(t)}
  /\ pc' = [pc EXCEPT ![n] = "wait"]
  /\ flag' = FALSE
  /\ UNCHANGED <<again, raced, deaths, reply, heard, tabVars>>

PingAll(n) ==
  /\ pc[n] = "queued"
  /\ Prune({})
  /\ todo' = [todo EXCEPT ![n] = tokens']
  /\ pinged' = pinged \cup {t \in tokens' : Open(t)}
  /\ pc' = [pc EXCEPT ![n] = "wait"]
  /\ UNCHANGED <<again, flag, raced, deaths, reply, heard, tabVars>>

\* The ten seconds are over: one token after the other is looked up.
Collect(n, t) ==
  /\ pc[n] \in {"wait", "collect"} /\ t \in todo[n]
  /\ pc' = [pc EXCEPT ![n] = "collect"]
  /\ reply' = reply \ {t}
  /\ tokens' = IF t \in reply THEN tokens ELSE tokens \ {t}
  /\ todo' = [todo EXCEPT ![n] = todo[n] \ {t}]
  /\ UNCHANGED <<again, flag, raced, deaths, pinged, heard, tabVars>>

\* The task of n is over, or its second attempt begins.
TaskOver(n, next) ==
  /\ pc' = [pc EXCEPT ![n] = next]
  /\ todo' = [todo EXCEPT ![n] = {}]
  /\ heard' = {}

Finally(n) ==
  /\ pc[n] \in {"wait", "collect"} /\ todo[n] = {}
  /\ TaskOver(n, "none")
  /\ again' = again \ {n}
  /\ flag' = FALSE
  /\ UNCHANGED <<raced, deaths, tokens, pinged, reply, tabVars>>

Running(n) == pc[n] \in {"queued", "wait", "collect"}

\* Variant: the flag is deleted at the end, but not after an exception.
RaisesOut(n) ==
  /\ Running(n)
  /\ TaskOver(n, "none")
  /\ again' = again \ {n}
  /\ UNCHANGED <<flag, raced, deaths, tokens, pinged, reply, tabVars>>

\* Any call in it may raise; that is logged, and the finally clause runs.
Raises(n) ==
  /\ Running(n)
  /\ TaskOver(n, "none")
  /\ again' = again \ {n}
  /\ flag' = FALSE
  /\ UNCHANGED <<raced, deaths, tokens, pinged, reply, tabVars>>

\* The instance stops: no finally clause, but the queue tries the task once more.
Dies(n) ==
  /\ Running(n) /\ deaths < MaxDeaths
  /\ deaths' = deaths + 1
  /\ TaskOver(n, IF n \in again THEN "lost" ELSE "queued")
  /\ again' = again \cup {n}
  /\ UNCHANGED <<flag, raced, tokens, pinged, reply, tabVars>>
-----------------------------------------------------------------------------
Task(n) == PingAll(n) \/ Finally(n) \/ \E t \in Tabs : Collect(n, t)

ChannelsNext ==
  \/ \E t \in Tabs : Enter(t) \/ Leave(t) \/ Blip(t) \/ Age(t) \/ Answer(t) \/ Act(t)
  \/ \E n \in Asks : GetFlag(n) \/ SetFlag(n) \/ Task(n) \/ Raises(n) \/ Dies(n)

(* Time passes, tasks that were begun go on, and whoever has the project    *)
(* open works in it.                                                        *)
ChannelsFairness ==
  /\ \A t \in Tabs : WF_channelVars(Age(t)) /\ WF_channelVars(Act(t))
  /\ \A n \in Asks : WF_channelVars(Task(n))

ChannelsSpec == ChannelsInit /\ [][ChannelsNext]_channelVars /\ ChannelsFairness
-----------------------------------------------------------------------------
(* A tab that answers while a round waits keeps its token until the task is  *)
(* over, whatever comes in between: tokens put back, late answers to earlier *)
(* rounds, exceptions, a task that is tried again. Only two requests that    *)
(* both find no flag can break it, and a lost connection: a tab whose status *)
(* is off is dropped by any request after three minutes, or at once by one   *)
(* from another tab of its user, though it has just answered.               *)
DroppedAnyway(t) == status[t] = "old" \/ (~On(t) /\ \E u \in Tabs \ {t} : User[t] = User[u])

AnswererKept == raced \/ \A t \in heard : t \in tokens \/ DroppedAnyway(t)

(* The flag does not keep later rounds away for ever: whenever it is set, a *)
(* task that will give it back is on its way, unless an instance stopped    *)
(* between the flag and its task, or under both attempts of a task (the     *)
(* finally of check_ping_replies).                                          *)
FlagHasTask == flag => \E n \in Asks : Running(n) \/ pc[n] = "lost"

(* A tab that was closed loses its token in the end, even when a request it *)
(* left behind puts the token back, as long as somebody has the project     *)
(* open (get_by_project_key).                                               *)
ClosedTabsLeave ==
  \A t \in Tabs : tab[t] = "left" ~> (t \notin tokens \/ \A u \in Tabs : ~Open(u))
=============================================================================
