----------------------------- MODULE InviteAuth -----------------------------
(***************************************************************************)
(* Digest authentication of INVITEs: Server.handleInviteAuth and getInvite  *)
(* (src/pkg/sip/inbound.go).  The challenge of a Call-ID is kept in         *)
(* inProgressInvites, a list in order of creation that holds digestLimit    *)
(* entries; imu protects the list, but the handler of an INVITE keeps its   *)
(* entry and reads and writes the challenge in it without a lock, while     *)
(* other INVITEs, of the same Call-ID too, are handled: it stores a         *)
(* challenge, reads it again for the 407, and the 407s come in any order.   *)
(*                                                                          *)
(* Entries live on a heap, by number, so that one that was pushed out of    *)
(* the list can still be in use.  Nonces are numbers in order of creation;  *)
(* 0 is no nonce.                                                           *)
(***************************************************************************)
EXTENDS Naturals, Sequences, FiniteSets, SequencesExt

CONSTANTS
    Callers,     \* the Call-IDs
    Limit,       \* digestLimit
    MaxInvites   \* bound: INVITEs, of all callers together

ASSUME AuthAssumption == Limit \in Nat \ {0} /\ MaxInvites \in Nat

VARIABLES
    heap,    \* the entries ever made: Call-ID and nonce of the challenge
    list,    \* s.inProgressInvites: numbers of entries
    from,    \* per INVITE, in the order they are sent: its Call-ID
    pc,      \* per INVITE: its handler
    cred,    \* per INVITE: nonce of its credentials, and whether the password is right
    entry,   \* per INVITE: the entry its handler works on
    reply,   \* per INVITE: the nonce in its 407
    alone,   \* history: callers that never sent an INVITE with one of theirs unanswered
    nonces   \* the nonces stored so far

vars == <<heap, list, from, pc, cred, entry, reply, alone, nonces>>

Invites == DOMAIN from
Answered == {"challenged", "refused", "admitted"}
Stages == {"sent", "check", "stored", "read"} \cup Answered

\* The nonces that have reached a caller.
Challenges(c) == {reply[j] : j \in {i \in Invites : from[i] = c /\ pc[i] = "challenged"}}

TypeOK ==
    /\ heap \in Seq([id : Callers, nonce : 0 .. nonces])
    /\ list \in Seq(1 .. Len(heap))
    /\ from \in Seq(Callers) /\ Len(from) <= MaxInvites
    /\ pc \in Seq(Stages) /\ Len(pc) = Len(from)
    /\ cred \in Seq([nonce : 0 .. nonces, right : BOOLEAN]) /\ Len(cred) = Len(from)
    /\ entry \in Seq(0 .. Len(heap)) /\ Len(entry) = Len(from)
    /\ reply \in Seq(0 .. nonces) /\ Len(reply) = Len(from)
    /\ alone \subseteq Callers /\ nonces \in Nat

Init ==
    /\ heap = <<>> /\ list = <<>> /\ nonces = 0
    /\ from = <<>> /\ pc = <<>> /\ entry = <<>> /\ cred = <<>> /\ reply = <<>>
    /\ alone = Callers

\* A caller sends an INVITE, with credentials for a 407 it got or without any.
Send(c) ==
    /\ Len(from) < MaxInvites
    /\ from' = Append(from, c)
    /\ pc' = Append(pc, "sent") /\ entry' = Append(entry, 0) /\ reply' = Append(reply, 0)
    /\ \/ cred' = Append(cred, [nonce |-> 0, right |-> FALSE])
       \/ \E n \in Challenges(c), right \in BOOLEAN :
             cred' = Append(cred, [nonce |-> n, right |-> right])
    /\ alone' = IF \E i \in Invites : from[i] = c /\ pc[i] \notin Answered
                THEN alone \ {c} ELSE alone
    /\ UNCHANGED <<heap, list, nonces>>

\* The list with a new entry: the oldest makes room.
Add(k) == Append(IF Len(list) >= Limit THEN Tail(list) ELSE list, k)

\* A bug: an entry is made for every INVITE.
GetNewInvite(i) ==
    /\ pc[i] = "sent"
    /\ pc' = [pc EXCEPT ![i] = "check"]
    /\ heap' = Append(heap, [id |-> from[i], nonce |-> 0])
    /\ list' = Add(Len(heap) + 1)
    /\ entry' = [entry EXCEPT ![i] = Len(heap) + 1]
    /\ UNCHANGED <<from, cred, reply, alone, nonces>>

\* getInvite: the entry of the Call-ID in the list, or a new one.
GetInvite(i) ==
    /\ pc[i] = "sent"
    /\ pc' = [pc EXCEPT ![i] = "check"]
    /\ \/ \E k \in ToSet(list) :
             /\ heap[k].id = from[i]
             /\ entry' = [entry EXCEPT ![i] = k] /\ UNCHANGED <<heap, list>>
       \/ /\ \A k \in ToSet(list) : heap[k].id # from[i]
          /\ heap' = Append(heap, [id |-> from[i], nonce |-> 0])
          /\ list' = Add(Len(heap) + 1)
          /\ entry' = [entry EXCEPT ![i] = Len(heap) + 1]
    /\ UNCHANGED <<from, cred, reply, alone, nonces>>

\* An INVITE without credentials: a new challenge in the entry.  The clock is read a moment
\* before the store: nonces are numbered in the order they are stored, which may not be the
\* order of their making, and nothing compares them but for equality.
StoreChallenge(i) ==
    /\ pc[i] = "check" /\ cred[i].nonce = 0
    /\ nonces' = nonces + 1
    /\ heap' = [heap EXCEPT ![entry[i]].nonce = nonces + 1]
    /\ pc' = [pc EXCEPT ![i] = "stored"]
    /\ UNCHANGED <<from, list, cred, entry, reply, alone>>

\* The 407 is made of the challenge in the entry, which is another handler's by now if that
\* has stored its own.
ReadChallenge(i) ==
    /\ pc[i] = "stored"
    /\ reply' = [reply EXCEPT ![i] = heap[entry[i]].nonce]
    /\ pc' = [pc EXCEPT ![i] = "read"]
    /\ UNCHANGED <<from, heap, list, cred, entry, alone, nonces>>

\* The 407 comes to the caller.
Respond(i) ==
    /\ pc[i] = "read"
    /\ pc' = [pc EXCEPT ![i] = "challenged"]
    /\ UNCHANGED <<from, heap, list, cred, entry, reply, alone, nonces>>

\* A bug: only the user's password is compared, with the digest over the nonce sent back.
PassesForOwnNonce(i) == cred[i].right

\* The digest over the entry's challenge is compared with the response of the INVITE.
Passes(i) == cred[i].right /\ cred[i].nonce = heap[entry[i]].nonce

\* An INVITE with credentials is admitted, or answered 401: an entry without a challenge
\* refuses all.
Verify(i) ==
    /\ pc[i] = "check" /\ cred[i].nonce # 0
    /\ pc' = [pc EXCEPT ![i] = IF Passes(i) THEN "admitted" ELSE "refused"]
    /\ UNCHANGED <<from, heap, list, cred, entry, reply, alone, nonces>>

Next ==
    \/ \E c \in Callers : Send(c)
    \/ \E i \in Invites : \/ GetInvite(i) \/ StoreChallenge(i) \/ ReadChallenge(i)
                          \/ Respond(i) \/ Verify(i)

Spec == Init /\ [][Next]_vars

------------------------------------------------------------------------------
(* Properties.                                                              *)

CallIDs == {heap[k].id : k \in DOMAIN heap}

\* The credentials of an INVITE are for the newest challenge its caller has got.
Newest(i) == \A n \in Challenges(from[i]) : n <= cred[i].nonce
Honest(i) == cred[i].right /\ Newest(i) /\ from[i] \in alone

Refuses(i) == pc[i] = "check" /\ pc'[i] = "refused"
Admits(i) == pc[i] = "check" /\ pc'[i] = "admitted"

\* A caller that sends one INVITE after the other and answers its newest challenge with the
\* right password is admitted, whatever others send meanwhile, unless more Call-IDs than the
\* limit came.
HonestIsAdmitted ==
    [][\A i \in Invites : Refuses(i) /\ Honest(i) => Cardinality(CallIDs) > Limit]_vars

\* "simultaneous calls from the same "from" number don't interfere with each other's digest
\* authentication state": an honest caller is never refused.
CallsDoNotInterfere == [][\A i \in Invites : Refuses(i) => ~Honest(i)]_vars

\* Only an answer to the newest challenge is admitted: a nonce older than one that the
\* Call-ID has got since admits nobody, in whatever order handlers and 407s overtook each
\* other.  (A handler that still works on an entry pushed out of the list would admit it.)
StaleIsRefused ==
    [][\A i \in Invites :
         Admits(i) => (cred[i].right /\ Newest(i)) \/ Cardinality(CallIDs) > Limit]_vars
=============================================================================
