--------------------------------- MODULE Relay ----------------------------------
(***************************************************************************)
(* The network of a page (lib/network.ts over lib/network-auth.ts and      *)
(* lib/credential.ts): the services of several workers, which load one     *)
(* library, share one relay per token and each keep one client, while the  *)
(* token is renewed and services are closed at any moment.                 *)
(***************************************************************************)
EXTENDS Integers, Sequences, FiniteSets

CONSTANTS
  Services,
  Peers,                                 \* the services whose programs connect to peers
  MaxCalls, MaxRenewals, MaxFailures     \* bounds

VARIABLES
  token,        \* the credential's, by the renewals before it
  library,      \* loaded: "none", "loading", "ready"
  relays,       \* relays: of each token, the relay in the map or 0; asked: every one that was asked for
  clients,      \* attempts at a client, of every service
  service,      \* the services: client memo, closed, and ICE servers
  call,         \* the calls
  failures

vars == <<token, library, relays, clients, service, call, failures>>

Tokens == 0 .. MaxRenewals

Calls == 1 .. MaxCalls

None == 0

NoCall == [st |-> "none", kind |-> "none", svc |-> "none", began |-> 0, port |-> 0, client |-> None]

\* finish of a fetch, forget of another: what the call held is let go.
Over(c) == [NoCall EXCEPT !.st = "over", !.port = call[c].port + 1]

-----------------------------------------------------------------------------
(* The credential *)

\* The listener of a service: its client is for the token that was.
Forgotten(s) == IF service[s].closed THEN service[s].client ELSE None

\* set: each service that listens forgets its client and its ICE servers, and what the page
\* shares for the old token.
Renew ==
  /\ token < MaxRenewals /\ token' = token + 1
  /\ service' = [s \in Services |-> [service[s] EXCEPT
       !.client = Forgotten(s), !.ice = IF service[s].closed THEN @ ELSE -1, !.overtaken = @ \/ service[s].asking]]
  /\ relays' = [relays EXCEPT !.map[token] = IF \A s \in Services : service[s].closed THEN @ ELSE None]
  /\ UNCHANGED <<library, clients, call, failures>>

-----------------------------------------------------------------------------
(* getClient *)

\* An attempt that failed is nobody's client any more, and takes its callers with it.
Failed(bad) ==
  /\ clients' = [a \in 1 .. Len(clients) |-> IF a \in bad THEN [clients[a] EXCEPT !.st = "failed"] ELSE clients[a]]
  /\ service' = [s \in Services |-> IF service[s].client \in bad THEN [service[s] EXCEPT !.client = None] ELSE service[s]]
  /\ call' = [c \in Calls |-> IF call[c].st = "client" /\ call[c].client \in bad
                              THEN Over(c) ELSE call[c]]

Fails == failures < MaxFailures /\ failures' = failures + 1

\* handle, to its first await: a fetch is owned from here on, and has a port to be aborted by.
Begin(c, s, kind) ==
  LET fresh == Len(clients) + 1
      memo == service[s].client
  IN  /\ call[c].st = "none" /\ (c > 1 => call[c - 1].st # "none") /\ ~ service[s].closed
      /\ call' = [call EXCEPT ![c] = [st |-> "client", kind |-> kind, svc |-> s, began |-> token, port |-> 0,
                                      client |-> IF memo = None THEN fresh ELSE memo]]
      /\ IF memo = None
         THEN /\ clients' = Append(clients, [svc |-> s, st |-> "load", relay |-> None])
              /\ service' = [service EXCEPT ![s].client = fresh]
              /\ library' = IF library = "none" THEN "loading" ELSE library
         ELSE UNCHANGED <<clients, service, library>>
      /\ UNCHANGED <<token, relays, failures>>

LoadAnswers ==
  /\ library = "loading" /\ library' = "ready"
  /\ UNCHANGED <<token, relays, clients, service, call, failures>>

\* A load that failed is forgotten, and is tried again for the next call.
LoadFails ==
  /\ library = "loading" /\ Fails /\ library' = "none"
  /\ Failed({a \in 1 .. Len(clients) : clients[a].st = "load"})
  /\ UNCHANGED <<token, relays>>

Mapped(map, r) == [map EXCEPT ![token] = r]

\* relayProvider: the relay of the token of now, which is asked for under that token.
TakesRelay(a) ==
  /\ clients[a].st = "load" /\ library = "ready"
  /\ LET r == IF relays.map[token] = None THEN Len(relays.asked) + 1 ELSE relays.map[token] IN
       /\ clients' = [clients EXCEPT ![a].st = "relay", ![a].relay = r]
       /\ relays' = IF relays.map[token] # None THEN relays
                    ELSE [map |-> Mapped(relays.map, r),
                          asked |-> Append(relays.asked, [token |-> token, st |-> "asking"])]
  /\ UNCHANGED <<token, library, service, call, failures>>

RelayAnswers(r) ==
  /\ relays.asked[r].st = "asking" /\ relays' = [relays EXCEPT !.asked[r].st = "ready"]
  /\ UNCHANGED <<token, library, clients, service, call, failures>>

\* Whatever the map has for its token by now.
Unmapped(map, t) == [map EXCEPT ![t] = None]

RelayFails(r) ==
  /\ relays.asked[r].st = "asking" /\ Fails
  /\ relays' = [asked |-> [relays.asked EXCEPT ![r].st = "failed"], map |-> Unmapped(relays.map, relays.asked[r].token)]
  /\ Failed({a \in 1 .. Len(clients) : clients[a].st = "relay" /\ clients[a].relay = r})
  /\ UNCHANGED <<token, library>>

Built(a) ==
  /\ clients[a].st = "relay" /\ relays.asked[clients[a].relay].st = "ready"
  /\ clients' = [clients EXCEPT ![a].st = "ready"]
  /\ UNCHANGED <<token, library, relays, service, call, failures>>

-----------------------------------------------------------------------------
(* handle *)

\* The client is there.  A fetch that was aborted is over already; others look whether the
\* service was closed.
Connects(c) ==
  /\ call[c].st = "client" /\ clients[call[c].client].st = "ready"
  /\ call' = [call EXCEPT ![c] = IF service[@.svc].closed THEN Over(c) ELSE [@ EXCEPT !.st = "connecting"]]
  /\ UNCHANGED <<token, library, relays, clients, service, failures>>

\* The other side answered, and the service may be closed by now.
Opens(c) == IF service[call[c].svc].closed THEN "over" ELSE "open"

Opened(c) ==
  /\ call[c].st = "connecting"
  /\ call' = [call EXCEPT ![c] = IF Opens(c) = "over" THEN Over(c) ELSE [@ EXCEPT !.st = "open"]]
  /\ UNCHANGED <<token, library, relays, clients, service, failures>>

OpenFails(c) ==
  /\ call[c].st = "connecting" /\ Fails /\ call' = [call EXCEPT ![c] = Over(c)]
  /\ UNCHANGED <<token, library, relays, clients, service>>

\* A body that was read to its end, a cancel, or a connection that closed.
Ended(c) ==
  /\ call[c].st = "open" /\ call' = [call EXCEPT ![c] = Over(c)]
  /\ UNCHANGED <<token, library, relays, clients, service, failures>>

\* The worker aborts a fetch through its port, wherever it is.
Abort(c) ==
  /\ call[c].kind = "fetch" /\ call[c].st \in {"client", "connecting", "open"}
  /\ call' = [call EXCEPT ![c] = Over(c)] /\ UNCHANGED <<token, library, relays, clients, service, failures>>

\* close: a fetch is aborted, and what is open is closed.
Close(s) ==
  /\ ~ service[s].closed /\ service' = [service EXCEPT ![s].closed = TRUE]
  /\ call' = [c \in Calls |->
       IF call[c].svc = s /\ call[c].st \in {"open"} \cup (IF call[c].kind = "fetch" THEN {"client", "connecting"} ELSE {})
       THEN Over(c) ELSE call[c]]
  /\ UNCHANGED <<token, library, relays, clients, failures>>

-----------------------------------------------------------------------------
(* peerOptions *)

\* The servers of the memo will do, or new ones are asked for under the token of now.
AsksIce(s) ==
  /\ s \in Peers /\ ~ service[s].closed /\ ~ service[s].asking /\ service[s].ice = -1
  /\ service' = [service EXCEPT ![s].asking = TRUE, ![s].asked = token, ![s].overtaken = FALSE]
  /\ UNCHANGED <<token, library, relays, clients, call, failures>>

\* They are kept though the token was renewed meanwhile.
IceAnswers(s) ==
  /\ service[s].asking /\ service' = [service EXCEPT ![s].asking = FALSE, ![s].ice = service[s].asked]
  /\ UNCHANGED <<token, library, relays, clients, call, failures>>

IceExpires(s) ==
  /\ service[s].ice # -1 /\ service' = [service EXCEPT ![s].ice = -1]
  /\ UNCHANGED <<token, library, relays, clients, call, failures>>

-----------------------------------------------------------------------------
Init ==
  /\ token = 0 /\ library = "none" /\ failures = 0
  /\ relays = [map |-> [t \in Tokens |-> None], asked |-> <<>>] /\ clients = <<>>
  /\ service = [s \in Services |-> [client |-> None, closed |-> FALSE, ice |-> -1, asking |-> FALSE,
                                    asked |-> 0, overtaken |-> FALSE]]
  /\ call = [c \in Calls |-> NoCall]

Next ==
  \/ Renew \/ LoadAnswers \/ LoadFails
  \/ \E a \in 1 .. Len(clients) : TakesRelay(a) \/ Built(a)
  \/ \E r \in 1 .. Len(relays.asked) : RelayAnswers(r) \/ RelayFails(r)
  \/ \E c \in Calls :
       \/ Connects(c) \/ Opened(c) \/ OpenFails(c) \/ Ended(c) \/ Abort(c)
       \/ \E s \in Services, kind \in {"fetch", "stream"} : Begin(c, s, kind)
  \/ \E s \in Services : Close(s) \/ AsksIce(s) \/ IceAnswers(s) \/ IceExpires(s)

-----------------------------------------------------------------------------
(* Properties *)

\* A call goes through a relay whose token is not older than the call: a renewal reaches every
\* worker of the page, whatever was being built for the token before.  So do the servers of a
\* peer, unless the renewal overtook the request for them (onChange, relayProvider).
UsesRenewed ==
  /\ \A c \in Calls : call[c].st \in {"connecting", "open"} =>
       relays.asked[clients[call[c].client].relay].token >= call[c].began
  /\ \A s \in Services : service[s].ice # -1 /\ ~ service[s].overtaken /\ ~ service[s].closed => service[s].ice = token

\* The page's workers ask once for a token's relay, however many of them begin at once, and again
\* only after it failed; what failed is in nobody's way (relayProvider, getClient).
OneRelay ==
  /\ \A t \in Tokens : Cardinality({r \in 1 .. Len(relays.asked) :
       relays.asked[r].token = t /\ relays.asked[r].st # "failed"}) <= 1
  /\ \A t \in Tokens : relays.map[t] # None => relays.asked[relays.map[t]].st # "failed"
  /\ \A s \in Services : service[s].client # None => clients[service[s].client].st # "failed"

\* A closed service holds no stream, and a call is over once: the port of a fetch is closed when
\* nothing of it is left and not before (handle, own, finish).
NothingHeld == \A c \in Calls :
  /\ call[c].st = "open" => ~ service[call[c].svc].closed
  /\ call[c].port = IF call[c].st = "over" THEN 1 ELSE 0
=============================================================================
