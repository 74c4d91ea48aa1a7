----------------------------- MODULE PushService -----------------------------
(***************************************************************************)
(* Push notifications of the server: how DefaultRequestHandler is built    *)
(* and which calls it lets at the configs (authorize, require_extensions,  *)
(* require_capability), InMemoryPushConfigStore, and the delivery of       *)
(* events by send_push_notifications and HttpPushSender.                   *)
(*                                                                         *)
(* drive_execution and cancel_task push concurrently: each publisher lists *)
(* the configs of the task once per event and tells them one at a time, in *)
(* the order of a HashMap, so in any order.  A URL is a scheme and a host; *)
(* a host is an address literal or a name that DNS resolves anew, to other *)
(* addresses if it likes, at every connection.  Endpoints answer with      *)
(* success, failure or a redirect to any URL.                              *)
(***************************************************************************)
EXTENDS Integers, Sequences, FiniteSets

CONSTANTS
  Tasks,
  Publishers,
  Callers,         \* [ext : BOOLEAN, may : SUBSET Tasks]
  Settings,        \* [strict, guarded : BOOLEAN], see Init
  Declarations,    \* [push, card, required], capabilities declared, see Init
  Offered,         \* the configs callers save; id 0 stands for none given
  Urls,            \* [web : BOOLEAN, host : Hosts], redirect targets too
  Literals, Names, \* hosts that are addresses, hosts DNS resolves
  BlockedNames,    \* localhost, the cloud metadata names
  BlockedIps,      \* what is_blocked_ip rejects
  MaxConfigs,      \* MAX_PUSH_CONFIGS_PER_TASK
  MaxHops,         \* redirects followed (10)
  MaxSaves

ASSUME PushBounds == {MaxConfigs, MaxHops, MaxSaves} \subseteq Nat
ASSUME PushHosts == /\ BlockedIps \subseteq Literals /\ BlockedNames \subseteq Names
                    /\ \A u \in Urls : u.host \in Literals \union Names
ASSUME PushCallers == \A c \in Callers : c.ext \in BOOLEAN /\ c.may \subseteq Tasks

Unset == "unset"
Flags == {Unset, "true", "false"}
Configs == [task : Tasks, id : Nat, url : Urls, clean : BOOLEAN]

ASSUME PushInputs ==
  /\ Offered \subseteq Configs /\ IsFiniteSet(Offered)
  /\ Declarations \subseteq [push : Flags, card : Flags, required : BOOLEAN]
  /\ Settings \subseteq [strict : BOOLEAN, guarded : BOOLEAN]

VARIABLES
  handler,   \* the handler: what it declares and was given
  stage,     \* "build", then "serve"
  configs,   \* the config store: a set of configs, one per task and id
  saves,     \* number of saves so far; names the next generated id
  reply,     \* what the call made in this step returned, [is, page, next]
  round,     \* round[p]: the delivery of the event p published last
  dialed     \* history: addresses connected to, with validate_urls on

vars == <<handler, stage, configs, saves, reply, round, dialed>>

(* A reply without a page; a page without a next one.                      *)
Said(r) == [is |-> r, page |-> <<>>, next |-> 0]

Idle == [phase |-> "idle", left |-> {}, asked |-> {}]

(* required: the card marks an extension required; strict and guarded are  *)
(* the sender's fail_on_error and validate_urls; explicit: the             *)
(* capabilities with_capabilities was given last.                          *)
Init ==
  /\ \E set \in Settings :
       handler = [push |-> Unset, card |-> Unset, store |-> FALSE,
                  resolver |-> FALSE, required |-> FALSE,
                  explicit |-> [push |-> Unset, card |-> Unset, required |-> FALSE],
                  strict |-> set.strict, guarded |-> set.guarded]
  /\ stage = "build"
  /\ configs = {} /\ saves = 0 /\ reply = Said("none")
  /\ round = [p \in Publishers |-> Idle]
  /\ dialed = {}

-----------------------------------------------------------------------------
(* The builder.                                                            *)

(* Option::get_or_insert(true).                                            *)
(* Slip: the method overwrites what was declared.                          *)
Overwritten(flag) == "true"

GetOrInsert(flag) == IF flag = Unset THEN "true" ELSE flag

WithPushNotifications ==
  /\ stage = "build"
  /\ handler' = [handler EXCEPT !.store = TRUE, !.push = GetOrInsert(@)]
  /\ UNCHANGED <<stage, configs, saves, reply, round, dialed>>

WithExtendedAgentCard ==
  /\ stage = "build"
  /\ handler' = [handler EXCEPT !.resolver = TRUE, !.card = GetOrInsert(@)]
  /\ UNCHANGED <<stage, configs, saves, reply, round, dialed>>

WithCapabilities(caps) ==
  /\ stage = "build"
  /\ handler' = [handler EXCEPT !.push = caps.push, !.card = caps.card,
                                !.required = caps.required, !.explicit = caps]
  /\ UNCHANGED <<stage, configs, saves, reply, round, dialed>>

Serve ==
  /\ stage = "build" /\ stage' = "serve"
  /\ UNCHANGED <<handler, configs, saves, reply, round, dialed>>

-----------------------------------------------------------------------------
(* The calls.  Gate is "ok" or the error of the first check that fails.    *)

Authorize(caller, task) ==
  CASE handler.required /\ ~caller.ext -> "EXTENSION_SUPPORT_REQUIRED"
    [] task \notin caller.may          -> "REFUSED"
    [] OTHER                           -> "ok"

PushStoreChecked ==
  IF handler.push = "false" \/ ~handler.store
  THEN "PUSH_NOTIFICATION_NOT_SUPPORTED" ELSE "ok"

Gate(caller, task) ==
  IF Authorize(caller, task) # "ok" THEN Authorize(caller, task)
                                    ELSE PushStoreChecked

Answer(r) ==
  /\ reply' = Said(r)
  /\ UNCHANGED <<handler, stage, round, dialed>>

Of(task) == {c \in configs : c.task = task}

(* InMemoryPushConfigStore::save.                                          *)
(* Slip: one config more than the limit.                                   *)
FullLater(task, id) ==
  /\ Cardinality(Of(task)) > MaxConfigs
  /\ ~\E c \in Of(task) : c.id = id

Full(task, id) ==
  /\ Cardinality(Of(task)) >= MaxConfigs
  /\ ~\E c \in Of(task) : c.id = id

Save(cfg) ==
  LET id == IF cfg.id = 0 THEN Cardinality(Offered) + saves + 1 ELSE cfg.id
  IN  /\ saves < MaxSaves
      /\ saves' = saves + 1
      /\ IF Full(cfg.task, id)
         THEN UNCHANGED configs /\ Answer("INVALID_PARAMS")
         ELSE /\ configs' = {c \in configs : c.task # cfg.task \/ c.id # id}
                            \union {[cfg EXCEPT !.id = id]}
              /\ Answer("ok")

(* create_push_config, and save_request_push_config on behalf of a send.   *)
CreatePushConfig(caller, cfg) ==
  /\ stage = "serve"
  /\ IF Gate(caller, cfg.task) = "ok"
     THEN Save(cfg)
     ELSE Answer(Gate(caller, cfg.task)) /\ UNCHANGED <<configs, saves>>

(* The store's get, and its delete.                                        *)
Lookup(task, id) == IF \E c \in Of(task) : c.id = id THEN "ok" ELSE "TASK_NOT_FOUND"
Without(task, id) == configs \ {c \in Of(task) : c.id = id}

GetPushConfig(caller, task, id) ==
  /\ stage = "serve"
  /\ Answer(CASE Gate(caller, task) # "ok"          -> Gate(caller, task)
              [] Gate(caller, task) = "ok"          -> Lookup(task, id))
  /\ UNCHANGED <<configs, saves>>

DeletePushConfig(caller, task, id) ==
  /\ stage = "serve"
  /\ Answer(Gate(caller, task))
  /\ configs' = IF Gate(caller, task) = "ok"
                THEN Without(task, id) ELSE configs
  /\ UNCHANGED saves

Least(a, b) == IF a < b THEN a ELSE b

(* The page from an offset on, of the configs sorted by id; next is the    *)
(* offset that follows it, 0 if nothing does.                              *)
ConfigPage(task, start, size) ==
  LET sorted == [i \in 1 .. Cardinality(Of(task)) |->
                   CHOOSE c \in Of(task) : Cardinality({d \in Of(task) : d.id < c.id}) = i - 1]
      from   == Least(start, Len(sorted))
      to     == Least(from + size, Len(sorted))
  IN  [is |-> "page", page |-> SubSeq(sorted, from + 1, to),
       next |-> IF to < Len(sorted) THEN to ELSE 0]

(* list_push_configs; size is what resolve_page_size makes of it (see      *)
(* TaskListing), a token that is no number is refused.                     *)
ListPushConfigs(caller, task) ==
  /\ stage = "serve" /\ UNCHANGED <<configs, saves>>
  /\ IF Gate(caller, task) # "ok" THEN Answer(Gate(caller, task))
     ELSE \/ Answer("INVALID_PARAMS")
          \/ \E start \in 0 .. MaxConfigs, size \in 1 .. MaxConfigs :
               /\ reply' = ConfigPage(task, start, size)
               /\ UNCHANGED <<handler, stage, round, dialed>>

(* authorize about no task: a caller that may touch none is refused.       *)
GetExtendedAgentCard(caller) ==
  /\ stage = "serve"
  /\ Answer(CASE handler.required /\ ~caller.ext -> "EXTENSION_SUPPORT_REQUIRED"
              [] caller.may = {}         -> "REFUSED"
              [] handler.card = "false"  -> "UNSUPPORTED_OPERATION"
              [] ~handler.resolver       -> "EXTENDED_CARD_NOT_CONFIGURED"
              [] OTHER                   -> "card")
  /\ UNCHANGED <<configs, saves>>

-----------------------------------------------------------------------------
(* The delivery of one event.                                              *)

Deliver(p, r) ==
  /\ round' = [round EXCEPT ![p] = r]
  /\ reply' = Said("none")
  /\ UNCHANGED <<handler, stage, configs, saves>>

(* send_push_notifications: the configs of the task, as they are now.      *)
Publish(p, task) ==
  /\ stage = "serve" /\ handler.store
  /\ round[p].phase = "idle"
  /\ Deliver(p, [phase |-> "next", left |-> Of(task), asked |-> Of(task)])
  /\ UNCHANGED dialed

(* validate_push_url.                                                      *)
ValidUrl(url) ==
  /\ url.web
  /\ url.host \notin BlockedNames \union BlockedIps

(* What send_push checks before it builds a request.                       *)
Refused(c) == (handler.guarded /\ ~ValidUrl(c.url)) \/ ~c.clean

(* The next config is told, refused (`?` leaves the loop), or there is     *)
(* none left.                                                              *)
Send(p) ==
  /\ round[p].phase = "next"
  /\ \E c \in round[p].left :
       Deliver(p, IF Refused(c) THEN [round[p] EXCEPT !.phase = "aborted"]
                  ELSE [phase |-> "dial", left |-> round[p].left \ {c},
                        asked |-> round[p].asked, to |-> c, url |-> c.url,
                        hops |-> 0])
  /\ UNCHANGED dialed

EndRound(p) ==
  /\ round[p].phase = "aborted" \/ (round[p].phase = "next" /\ round[p].left = {})
  /\ Deliver(p, Idle)
  /\ UNCHANGED dialed

(* HttpPushSender::handle_error: logged, unless fail_on_error.             *)
(* Slip: an error always aborts.                                           *)
AfterFailureStrict(r) == [phase |-> "aborted", left |-> r.left, asked |-> r.asked]

AfterFailure(r) ==
  [phase |-> IF handler.strict THEN "aborted" ELSE "next",
   left |-> r.left, asked |-> r.asked]

(* The addresses the client may dial for a URL when DNS answers found:     *)
(* connectable_addrs under the guard.                                      *)
(* Slip: the resolver is left out.                                         *)
UnscreenedAddrs(url, found) ==
  IF url.host \in Literals THEN {url.host} ELSE found

Connectable(url, found) ==
  CASE url.host \in Literals -> {url.host}
    [] handler.guarded       -> found \ BlockedIps
    [] OTHER                 -> found

(* One connection: no usable address, or dial one and see what the         *)
(* endpoint answers.  A redirect is followed, up to the limit, if          *)
(* ssrf_guarded_redirect_policy lets it; a 3xx that is not followed is no  *)
(* success.                                                                *)
Dial(p, found) ==
  LET r == round[p]
  IN  /\ r.phase = "dial"
      /\ \/ /\ Connectable(r.url, found) = {}
            /\ Deliver(p, AfterFailure(r)) /\ UNCHANGED dialed
         \/ \E a \in Connectable(r.url, found) :
              /\ dialed' = IF handler.guarded THEN dialed \union {a} ELSE dialed
              /\ \/ Deliver(p, [phase |-> "next", left |-> r.left,
                                asked |-> r.asked])
                 \/ Deliver(p, AfterFailure(r))
                 \/ \E url \in Urls :
                      Deliver(p, IF \/ r.hops >= MaxHops
                                    \/ handler.guarded /\ ~ValidUrl(url)
                                 THEN AfterFailure(r)
                                 ELSE [r EXCEPT !.url = url, !.hops = @ + 1])

Next ==
  \/ WithPushNotifications \/ WithExtendedAgentCard \/ Serve
  \/ \E caps \in Declarations : WithCapabilities(caps)
  \/ \E caller \in Callers :
       \/ GetExtendedAgentCard(caller)
       \/ \E task \in Tasks : ListPushConfigs(caller, task)
       \/ \E cfg \in Offered :
            \/ GetPushConfig(caller, cfg.task, cfg.id)
            \/ DeletePushConfig(caller, cfg.task, cfg.id)
            \/ CreatePushConfig(caller, cfg)
  \/ \E p \in Publishers :
       \/ \E task \in Tasks : Publish(p, task)
       \/ Send(p) \/ EndRound(p)
       \/ \E found \in SUBSET Literals : Dial(p, found)

Spec == Init /\ [][Next]_vars

-----------------------------------------------------------------------------

(* Type correctness; a task has at most MaxConfigs configs, of distinct    *)
(* ids.                                                                    *)
TypeOK ==
  /\ handler.push \in Flags /\ handler.card \in Flags
  /\ configs \subseteq Configs
  /\ \A task \in Tasks :
       /\ Cardinality(Of(task)) <= MaxConfigs
       /\ Cardinality({c.id : c \in Of(task)}) = Cardinality(Of(task))
  /\ \A p \in Publishers :
       round[p].phase \in {"idle", "next", "dial", "aborted"}

(* With validate_urls on, no connection is ever made to a loopback,        *)
(* private, link-local or metadata address: not when DNS answers           *)
(* differently after the URL was checked, and not through any chain of     *)
(* redirects to names or literals.                                         *)
NeverDialsBlocked == dialed \cap BlockedIps = {}

(* Without fail_on_error a webhook that is unreachable, answers an error   *)
(* or redirects in circles costs only its own notification.  What may cut  *)
(* a round short is a config that is refused, before anything is sent: it  *)
(* is one of those still left, so that nothing is ever requested of a      *)
(* refused config, and a round that comes to its end had none.  That it    *)
(* cuts the round short whatever fail_on_error says, see WebhooksAreTried. *)
OnlyRefusalsCutShort ==
  \A p \in Publishers :
    /\ \A c \in round[p].asked \ round[p].left : ~Refused(c)
    /\ round[p].phase = "aborted" /\ ~handler.strict
         => \E c \in round[p].left : Refused(c)

(* fail_on_error decides whether errors of sending abort, says its doc     *)
(* (push/sender.rs:23): without it no webhook is left out of a round       *)
(* because another one is refused.  The code leaves the loop all the same, *)
(* and the configs after the refused one hear nothing of the event.        *)
WebhooksAreTried ==
  \A p \in Publishers :
    round[p].phase = "aborted" /\ ~handler.strict => \A c \in round[p].left : Refused(c)

(* The handler has a config store, its last explicit capabilities did not  *)
(* deny push, and the caller activated the required extension.             *)
PushServed(caller) ==
  /\ handler.store /\ handler.explicit.push # "false"
  /\ handler.required => caller.ext

Changed == (configs \ configs') \union (configs' \ configs)

ConfigsPermitted ==
  configs' # configs =>
    \E caller \in Callers :
      PushServed(caller) /\ \A c \in Changed : c.task \in caller.may

PagePermitted ==
  reply'.is = "page" =>
    /\ \E caller \in Callers :
         PushServed(caller)
           /\ \A i \in DOMAIN reply'.page : reply'.page[i].task \in caller.may
    /\ reply'.next = 0 /\ reply'.page # <<>> =>
         \A c \in configs : c.task = reply'.page[1].task =>
           c.id <= reply'.page[Len(reply'.page)].id

CardPermitted ==
  reply'.is = "card" => handler.resolver /\ handler.explicit.card # "false"

(* The configs of a task change, and are listed, only at the hands of a    *)
(* caller the authorizer lets at that task, that activated the required    *)
(* extension; a page that names no next one hides none; and neither they   *)
(* nor the extended card are served on a handler whose last explicit       *)
(* capabilities denied them, whatever came before or after in its builder  *)
(* calls.                                                                  *)
OnlyPermitted == [][ConfigsPermitted /\ PagePermitted /\ CardPermitted]_vars

=============================================================================
