-------------------------- MODULE InviteAuthProofs --------------------------
(***************************************************************************)
(* Theorems about InviteAuth for any Call-IDs, any limit of the list and    *)
(* any number of INVITEs.                                                   *)
(*                                                                         *)
(* The argument: as long as no more Call-IDs came than the list holds, each *)
(* has one entry for good.  The challenge in it is the newest its caller    *)
(* has got, unless a handler of that Call-ID is still busy, which cannot be *)
(* while a caller that sends one INVITE after the other waits for an        *)
(* answer.  What the list itself is holds for any number of Call-IDs.       *)
(***************************************************************************)
EXTENDS InviteAuth, FiniteSetTheorems, SequenceTheorems, TLAPS

\* A handler works on an entry of its Call-ID and never sends a nonce newer than the entry's;
\* credentials are for a challenge that was got.
HandlersOK ==
    \A i \in Invites :
        /\ pc[i] # "sent" => entry[i] \in DOMAIN heap /\ heap[entry[i]].id = from[i]
        /\ cred[i].nonce # 0 => cred[i].nonce \in Challenges(from[i])
        /\ pc[i] \in {"read", "challenged"} => reply[i] <= heap[entry[i]].nonce

\* The 407 with the challenge of an entry is on its way.
Sending(i, k) ==
    entry[i] = k /\ (pc[i] = "stored" \/ (pc[i] = "read" /\ reply[i] = heap[k].nonce))

EntriesOK ==
    \A k \in DOMAIN heap :
        \/ heap[k].nonce = 0 \/ heap[k].nonce \in Challenges(heap[k].id)
        \/ \E i \in Invites : Sending(i, k)

\* While the list is large enough, no entry is pushed out and no Call-ID gets a second one.
AllKept ==
    /\ Len(list) = Len(heap) /\ Len(heap) = Cardinality(CallIDs)
    /\ \A k \in DOMAIN heap : list[k] = k
    /\ \A k, l \in DOMAIN heap : heap[k].id = heap[l].id => k = l

KeptOK == IsFiniteSet(CallIDs) /\ (Cardinality(CallIDs) <= Limit => AllKept)

\* A caller that sends one INVITE after the other.
AloneOK ==
    \A i, j \in Invites :
        from[i] = from[j] /\ from[i] \in alone /\ {pc[i], pc[j]} \cap Answered = {} => i = j

IInv == TypeOK /\ HandlersOK /\ EntriesOK /\ KeptOK /\ AloneOK

\* The invariant holds before the first INVITE.
LEMMA InitIInv == Init => IInv
<1> SUFFICES ASSUME Init PROVE IInv OBVIOUS
<1> USE AuthAssumption DEF Init
<1>1. Len(heap) = 0 /\ Len(from) = 0 /\ DOMAIN heap = {} /\ Invites = {}
  BY DEF Invites
<1>2. TypeOK
  BY <1>1 DEF TypeOK
<1>3. CallIDs = {}
  BY <1>1 DEF CallIDs
<1>4. KeptOK
  BY <1>1, <1>3, FS_EmptySet DEF KeptOK, AllKept
<1>5. HandlersOK /\ EntriesOK /\ AloneOK
  BY <1>1 DEF HandlersOK, EntriesOK, AloneOK
<1> QED BY <1>2, <1>4, <1>5 DEF IInv

\* What TypeOK says of each INVITE and of each entry.
LEMMA Types ==
    ASSUME TypeOK
    PROVE  /\ nonces \in Nat /\ Len(heap) \in Nat /\ Len(list) \in Nat /\ Len(from) \in Nat
           /\ DOMAIN heap = 1 .. Len(heap) /\ DOMAIN list = 1 .. Len(list)
           /\ Invites = 1 .. Len(from)
           /\ Invites = DOMAIN pc /\ Invites = DOMAIN cred
           /\ Invites = DOMAIN entry /\ Invites = DOMAIN reply
           /\ \A i \in Invites :
                 /\ from[i] \in Callers /\ entry[i] \in 0 .. Len(heap) /\ reply[i] \in 0 .. nonces
                 /\ pc[i] \in Stages
                 /\ cred[i].nonce \in 0 .. nonces
           /\ \A k \in DOMAIN heap : heap[k].id \in Callers /\ heap[k].nonce \in 0 .. nonces
           /\ \A k \in DOMAIN list : list[k] \in DOMAIN heap
<1> USE DEF TypeOK, Invites
<1>1. nonces \in Nat /\ Len(heap) \in Nat /\ Len(list) \in Nat /\ Len(from) \in Nat
  OBVIOUS
<1>2. /\ DOMAIN heap = 1 .. Len(heap) /\ DOMAIN list = 1 .. Len(list)
      /\ Invites = 1 .. Len(from) /\ Invites = DOMAIN pc /\ Invites = DOMAIN cred
      /\ Invites = DOMAIN entry /\ Invites = DOMAIN reply
  OBVIOUS
<1>3. ASSUME NEW i \in Invites
      PROVE  /\ from[i] \in Callers /\ entry[i] \in 0 .. Len(heap) /\ reply[i] \in 0 .. nonces
             /\ pc[i] \in Stages
             /\ cred[i].nonce \in 0 .. nonces
  <2> DEFINE Creds == [nonce : 0 .. nonces, right : BOOLEAN]
  <2>1. cred \in Seq(Creds) /\ i \in 1 .. Len(cred)
    BY <1>2
  <2> HIDE DEF Creds
  <2>2. cred[i] \in Creds
    BY <2>1, ElementOfSeq
  <2>3. cred[i].nonce \in 0 .. nonces
    BY <2>2 DEF Creds
  <2> QED BY <1>2, <2>3
<1>4. ASSUME NEW k \in DOMAIN heap PROVE heap[k].id \in Callers /\ heap[k].nonce \in 0 .. nonces
  <2> DEFINE Entries == [id : Callers, nonce : 0 .. nonces]
  <2>1. heap \in Seq(Entries) /\ k \in 1 .. Len(heap)
    BY <1>2
  <2> HIDE DEF Entries
  <2>2. heap[k] \in Entries
    BY <2>1, ElementOfSeq
  <2> QED BY <2>2 DEF Entries
<1>5. ASSUME NEW k \in DOMAIN list PROVE list[k] \in DOMAIN heap
  BY <1>2
<1> HIDE DEF TypeOK, Invites
<1> QED BY <1>1, <1>2, <1>3, <1>4, <1>5

\* A new INVITE leaves the others as they are.
LEMMA SendIInv == ASSUME IInv, NEW c \in Callers, Send(c) PROVE IInv'
<1> USE DEF IInv
<1> DEFINE n == Len(from) + 1
<1> DEFINE Creds == [nonce : 0 .. nonces, right : BOOLEAN]
<1>1. PICK cr \in Creds : cred' = Append(cred, cr) /\ (cr.nonce = 0 \/ cr.nonce \in Challenges(c))
  <2>1. CASE cred' = Append(cred, [nonce |-> 0, right |-> FALSE])
    <3>1. [nonce |-> 0, right |-> FALSE] \in Creds
      BY Types
    <3> QED BY <2>1, <3>1
  <2>2. CASE \E m \in Challenges(c), right \in BOOLEAN :
                cred' = Append(cred, [nonce |-> m, right |-> right])
    <3>1. Challenges(c) \subseteq 0 .. nonces
      BY Types DEF Challenges
    <3> QED BY <2>2, <3>1
  <2> QED BY <2>1, <2>2 DEF Send
<1> HIDE DEF Creds
<1>0. Invites = 1 .. Len(from) /\ Len(from) \in Nat
  BY Types
<1>2. /\ from' \in Seq(Callers) /\ Len(from') = n
      /\ from'[n] = c /\ \A i \in Invites : from'[i] = from[i]
  BY <1>0, AppendProperties DEF TypeOK, Send
<1>3. /\ cred' \in Seq(Creds) /\ Len(cred') = n
      /\ cred'[n] = cr /\ \A i \in Invites : cred'[i] = cred[i]
  <2>1. cred \in Seq(Creds) /\ Len(cred) = Len(from)
    BY DEF TypeOK, Creds
  <2> QED BY <1>0, <1>1, <2>1, AppendProperties
<1>4. /\ entry' \in Seq(0 .. Len(heap)) /\ Len(entry') = n /\ \A i \in Invites : entry'[i] = entry[i]
      /\ reply' \in Seq(0 .. nonces) /\ Len(reply') = n /\ \A i \in Invites : reply'[i] = reply[i]
  <2>1. 0 \in 0 .. Len(heap) /\ 0 \in 0 .. nonces
    BY Types
  <2> QED BY <1>0, <2>1, AppendProperties DEF TypeOK, Send
<1>5. /\ pc' \in Seq(Stages) /\ Len(pc') = n
      /\ pc'[n] = "sent" /\ \A i \in Invites : pc'[i] = pc[i]
  <2>1. pc \in Seq(Stages) /\ Len(pc) = Len(from) /\ "sent" \in Stages
    BY DEF TypeOK, Stages
  <2>2. pc' = Append(pc, "sent")
    BY DEF Send
  <2> QED BY <1>0, <2>1, <2>2, AppendProperties
<1>6. UNCHANGED <<heap, list, nonces>> /\ n <= MaxInvites
  BY AuthAssumption, <1>0 DEF Send
<1>a. \/ alone' = alone /\ ~\E i \in Invites : from[i] = c /\ pc[i] \notin Answered
      \/ alone' = alone \ {c}
  BY DEF Send
<1>7. TypeOK'
  BY <1>2, <1>3, <1>4, <1>5, <1>6, <1>a DEF TypeOK, Creds
<1>8. Invites' = Invites \cup {n} /\ n \notin Invites
  BY <1>0, <1>2 DEF Invites
<1>9. \A d \in Callers : Challenges(d) \subseteq Challenges(d)'
  BY <1>2, <1>4, <1>5, <1>8 DEF Challenges
<1>10. HandlersOK'
  BY <1>1, <1>2, <1>3, <1>4, <1>5, <1>6, <1>8, <1>9, Types DEF HandlersOK
<1>11. EntriesOK'
  <2> SUFFICES ASSUME NEW k \in DOMAIN heap
               PROVE  \/ heap[k].nonce = 0 \/ heap[k].nonce \in Challenges(heap[k].id)'
                      \/ \E i \in Invites' : Sending(i, k)'
    BY <1>6 DEF EntriesOK
  <2>1. ASSUME NEW i \in Invites, Sending(i, k) PROVE i \in Invites' /\ Sending(i, k)'
    BY <2>1, <1>4, <1>5, <1>6, <1>8 DEF Sending
  <2>2. PICK d \in Callers : d = heap[k].id
    BY Types
  <2>3. heap[k].nonce \in Challenges(d) => heap[k].nonce \in Challenges(d)'
    BY <1>9
  <2>4. heap[k].nonce \in Challenges(d)' => heap[k].nonce \in Challenges(heap[k].id)'
    BY <1>6, <2>2 DEF Challenges
  <2> QED BY <2>1, <2>2, <2>3, <2>4 DEF EntriesOK
<1>12. KeptOK'
  BY <1>6 DEF KeptOK, AllKept, CallIDs
<1>13. AloneOK'
  <2> SUFFICES ASSUME NEW i \in Invites', NEW j \in Invites', from'[i] = from'[j],
                      from'[i] \in alone', pc'[i] \notin Answered, pc'[j] \notin Answered
               PROVE  i = j
    BY DEF AloneOK, Answered
  <2>1. CASE i \in Invites /\ j \in Invites
    BY <2>1, <1>2, <1>5, <1>a DEF AloneOK, Answered
  <2>2. CASE i = n /\ j \in Invites
    BY <2>2, <1>2, <1>5, <1>a
  <2>3. CASE i \in Invites /\ j = n
    BY <2>3, <1>2, <1>5, <1>a
  <2> QED BY <2>1, <2>2, <2>3, <1>8
<1> QED BY <1>7, <1>10, <1>11, <1>12, <1>13

\* A step of a handler moves that handler alone.
LEMMA StageIs ==
    ASSUME TypeOK, NEW i \in Invites, NEW p \in Stages, pc' = [pc EXCEPT ![i] = p]
    PROVE  /\ pc' \in Seq(Stages) /\ Len(pc') = Len(pc) /\ pc'[i] = p
           /\ \A j \in Invites : j # i => pc'[j] = pc[j]
<1>1. pc \in Seq(Stages) /\ Invites = 1 .. Len(pc)
  BY Types DEF TypeOK
<1> QED BY <1>1, ExceptSeq

\* It sends no INVITE, so a caller that is alone stays so.
LEMMA StaysAlone ==
    ASSUME IInv, NEW i \in Invites, pc[i] \notin Answered,
           \A j \in Invites : j # i => pc'[j] = pc[j], UNCHANGED <<from, alone>>
    PROVE  AloneOK'
BY DEF IInv, AloneOK, Answered, Invites

\* getInvite finds the entry of the Call-ID.
LEMMA FoundIInv ==
    ASSUME IInv, NEW i \in Invites, pc[i] = "sent", pc' = [pc EXCEPT ![i] = "check"],
           NEW k \in DOMAIN heap, heap[k].id = from[i], entry' = [entry EXCEPT ![i] = k],
           UNCHANGED <<heap, list, from, cred, reply, alone, nonces>>
    PROVE  IInv'
<1> USE DEF IInv
<1>1. /\ pc' \in Seq(Stages) /\ Len(pc') = Len(pc) /\ pc'[i] = "check"
      /\ \A j \in Invites : j # i => pc'[j] = pc[j]
  BY StageIs DEF Stages
<1>2. /\ entry' \in Seq(0 .. Len(heap)) /\ Len(entry') = Len(entry) /\ entry'[i] = k
      /\ \A j \in Invites : j # i => entry'[j] = entry[j]
  <2>1. entry \in Seq(0 .. Len(heap)) /\ Invites = 1 .. Len(entry) /\ k \in 0 .. Len(heap)
    BY Types DEF TypeOK
  <2> QED BY <2>1, ExceptSeq
<1>3. Invites' = Invites
  BY DEF Invites
<1>4. TypeOK'
  BY <1>1, <1>2 DEF TypeOK
<1>5. \A d \in Callers : Challenges(d)' = Challenges(d)
  BY <1>1, <1>3 DEF Challenges, Stages
<1>6. HandlersOK'
  BY <1>1, <1>2, <1>3, <1>5, Types DEF HandlersOK
<1>7. EntriesOK'
  <2>1. ASSUME NEW j \in Invites, NEW l \in DOMAIN heap, Sending(j, l) PROVE Sending(j, l)'
    BY <2>1, <1>1, <1>2 DEF Sending
  <2> QED BY <2>1, <1>3, <1>5, Types DEF EntriesOK
<1>8. KeptOK'
  BY DEF KeptOK, AllKept, CallIDs
<1>9. AloneOK'
  BY <1>1, StaysAlone DEF Answered
<1> QED BY <1>4, <1>6, <1>7, <1>8, <1>9

\* getInvite makes a new entry: as long as the list is large enough it goes to its end.
LEMMA NewEntryKept ==
    ASSUME IInv, NEW i \in Invites, \A k \in ToSet(list) : heap[k].id # from[i],
           heap' = Append(heap, [id |-> from[i], nonce |-> 0]), list' = Add(Len(heap) + 1)
    PROVE  /\ heap' \in Seq([id : Callers, nonce : 0 .. nonces]) /\ Len(heap') = Len(heap) + 1
           /\ heap'[Len(heap) + 1] = [id |-> from[i], nonce |-> 0]
           /\ \A k \in DOMAIN heap : heap'[k] = heap[k]
           /\ list' \in Seq(1 .. Len(heap'))
           /\ KeptOK'
<1> USE DEF IInv
<1> DEFINE Entries == [id : Callers, nonce : 0 .. nonces]
           e == [id |-> from[i], nonce |-> 0]
           n == Len(heap) + 1
<1>1. heap \in Seq(Entries) /\ e \in Entries /\ e.id = from[i] /\ Len(heap) \in Nat /\ DOMAIN heap = 1 .. Len(heap)
  BY Types DEF TypeOK
<1>2. heap' = Append(heap, e)
  OBVIOUS
<1> HIDE DEF Entries, e
<1>3. /\ heap' \in Seq(Entries) /\ Len(heap') = n /\ heap'[n] = e
      /\ \A k \in DOMAIN heap : heap'[k] = heap[k]
  BY <1>1, <1>2, AppendProperties
<1>4. DOMAIN heap' = DOMAIN heap \cup {n}
  <2>1. DOMAIN heap' = 1 .. Len(heap')
    BY <1>3, LenProperties
  <2> QED BY <1>1, <1>3, <2>1
<1>5. list \in Seq(1 .. n) /\ n \in 1 .. n /\ Len(list) \in Nat
  <2>1. list \in Seq(1 .. Len(heap)) /\ 1 .. Len(heap) \subseteq 1 .. n
    BY <1>1 DEF TypeOK
  <2> QED BY <1>1, <2>1, Types
<1>6. list' \in Seq(1 .. n)
  <2>1. CASE Len(list) >= Limit
    <3>1. Tail(list) \in Seq(1 .. n)
      BY <2>1, <1>5, AuthAssumption
    <3> QED BY <2>1, <3>1, <1>5, AppendProperties DEF Add
  <2>2. CASE ~(Len(list) >= Limit)
    BY <2>2, <1>5, AppendProperties DEF Add
  <2> QED BY <2>1, <2>2
<1>7. CallIDs' = CallIDs \cup {from[i]}
  BY <1>1, <1>3, <1>4 DEF CallIDs
<1>8. KeptOK'
  <2>1. /\ IsFiniteSet(CallIDs') 
        /\ Cardinality(CallIDs') = IF from[i] \in CallIDs THEN Cardinality(CallIDs) ELSE Cardinality(CallIDs) + 1
        /\ Cardinality(CallIDs) \in Nat
    BY <1>7, FS_AddElement, FS_CardinalityType DEF KeptOK
  <2>2. SUFFICES ASSUME Cardinality(CallIDs') <= Limit PROVE AllKept'
    BY <2>1 DEF KeptOK
  <2>3. AllKept
    BY <2>1, <2>2, AuthAssumption DEF KeptOK
  <2>4. from[i] \notin CallIDs
    <3>1. ASSUME NEW k \in DOMAIN heap PROVE k \in ToSet(list)
      <4>1. k \in DOMAIN list /\ list[k] = k
        BY <2>3, Types DEF AllKept
      <4> QED BY <4>1 DEF ToSet
    <3> QED BY <3>1 DEF CallIDs
  <2>5. Len(list) < Limit /\ Len(heap) = Cardinality(CallIDs) /\ Cardinality(CallIDs') = n
    BY <2>1, <2>2, <2>3, <2>4, <1>1, AuthAssumption DEF AllKept
  <2>6. list' = Append(list, n)
    BY <2>5, <1>5, AuthAssumption DEF Add
  <2>7. Len(list') = n /\ list'[n] = n /\ \A k \in DOMAIN heap : list'[k] = list[k]
    BY <2>3, <2>6, <1>1, <1>5, AppendProperties DEF AllKept
  <2>8. \A k \in DOMAIN heap' : list'[k] = k
    BY <2>3, <2>7, <1>4 DEF AllKept
  <2>9. \A k, l \in DOMAIN heap' : heap'[k].id = heap'[l].id => k = l
    <3>1. heap'[n].id = from[i] /\ \A k \in DOMAIN heap : heap[k].id # from[i]
      BY <2>4, <1>1, <1>3 DEF CallIDs
    <3>2. \A k \in DOMAIN heap : heap'[k].id # heap'[n].id
      BY <3>1, <1>3
    <3>3. \A k, l \in DOMAIN heap : heap'[k].id = heap'[l].id => k = l
      BY <2>3, <1>3 DEF AllKept
    <3> QED BY <3>2, <3>3, <1>4
  <2> QED BY <2>5, <2>7, <2>8, <2>9, <1>3 DEF AllKept
<1> QED BY <1>3, <1>6, <1>8 DEF Entries, e

LEMMA NewIInv ==
    ASSUME IInv, NEW i \in Invites, pc[i] = "sent", pc' = [pc EXCEPT ![i] = "check"],
           \A k \in ToSet(list) : heap[k].id # from[i],
           heap' = Append(heap, [id |-> from[i], nonce |-> 0]), list' = Add(Len(heap) + 1),
           entry' = [entry EXCEPT ![i] = Len(heap) + 1],
           UNCHANGED <<from, cred, reply, alone, nonces>>
    PROVE  IInv'
<1> USE DEF IInv
<1> DEFINE n == Len(heap) + 1
<1>1. /\ heap' \in Seq([id : Callers, nonce : 0 .. nonces]) /\ Len(heap') = n
      /\ heap'[n] = [id |-> from[i], nonce |-> 0]
      /\ \A k \in DOMAIN heap : heap'[k] = heap[k]
      /\ list' \in Seq(1 .. Len(heap')) /\ KeptOK'
  BY NewEntryKept
<1>2. /\ pc' \in Seq(Stages) /\ Len(pc') = Len(pc) /\ pc'[i] = "check"
      /\ \A j \in Invites : j # i => pc'[j] = pc[j]
  BY StageIs DEF Stages
<1>3. /\ entry' \in Seq(0 .. n) /\ Len(entry') = Len(entry) /\ entry'[i] = n
      /\ \A j \in Invites : j # i => entry'[j] = entry[j]
  <2>1. entry \in Seq(0 .. Len(heap)) /\ 0 .. Len(heap) \subseteq 0 .. n /\ n \in 0 .. n
    BY Types DEF TypeOK
  <2>2. entry \in Seq(0 .. n) /\ Invites = 1 .. Len(entry)
    BY <2>1, Types DEF TypeOK
  <2> QED BY <2>1, <2>2, ExceptSeq
<1>4. Invites' = Invites /\ DOMAIN heap' = DOMAIN heap \cup {n} /\ n \notin DOMAIN heap
  BY <1>1, Types DEF Invites
<1>5. TypeOK'
  BY <1>1, <1>2, <1>3 DEF TypeOK
<1>6. \A d \in Callers : Challenges(d)' = Challenges(d)
  BY <1>2, <1>4 DEF Challenges, Stages
<1>7. HandlersOK'
  <2> SUFFICES ASSUME NEW j \in Invites
               PROVE  /\ pc'[j] # "sent" => entry'[j] \in DOMAIN heap' /\ heap'[entry'[j]].id = from[j]
                      /\ cred[j].nonce # 0 => cred[j].nonce \in Challenges(from[j])'
                      /\ pc'[j] \in {"read", "challenged"} => reply[j] <= heap'[entry'[j]].nonce
    BY <1>4 DEF HandlersOK
  <2>1. cred[j].nonce # 0 => cred[j].nonce \in Challenges(from[j])'
    <3>1. PICK d \in Callers : d = from[j]
      BY Types
    <3>2. Challenges(from[j])' = Challenges(d)'
      BY <3>1 DEF Challenges
    <3> QED BY <3>1, <3>2, <1>6 DEF HandlersOK
  <2>2. CASE j = i
    BY <2>1, <2>2, <1>1, <1>2, <1>3, <1>4
  <2>3. CASE j # i /\ pc[j] # "sent"
    BY <2>1, <2>3, <1>1, <1>2, <1>3 , <1>4 DEF HandlersOK
  <2>4. CASE j # i /\ pc[j] = "sent"
    BY <2>1, <2>4, <1>2
  <2> QED BY <2>2, <2>3, <2>4
<1>8. EntriesOK'
  <2>1. ASSUME NEW j \in Invites, NEW l \in DOMAIN heap, Sending(j, l) PROVE Sending(j, l)'
    BY <2>1, <1>1, <1>2, <1>3 DEF Sending
  <2>2. ASSUME NEW k \in DOMAIN heap
        PROVE  \/ heap'[k].nonce = 0 \/ heap'[k].nonce \in Challenges(heap[k].id)'
               \/ \E j \in Invites' : Sending(j, k)'
    <3>1. PICK d \in Callers : d = heap[k].id
      BY Types
    <3>2. heap'[k].id = d /\ heap'[k].nonce = heap[k].nonce
      BY <2>2, <3>1, <1>1
    <3>3. Challenges(heap[k].id)' = Challenges(d)'
      BY <3>2 DEF Challenges
    <3> QED BY <2>1, <2>2, <3>1, <3>2, <3>3, <1>4, <1>6 DEF EntriesOK
  <2>3. heap'[n].nonce = 0
    BY <1>1
  <2> QED BY <2>2, <2>3, <1>4 DEF EntriesOK
<1>9. AloneOK'
  BY <1>2, StaysAlone DEF Answered
<1> QED BY <1>1, <1>5, <1>7, <1>8, <1>9

LEMMA GetInviteIInv == ASSUME IInv, NEW i \in Invites, GetInvite(i) PROVE IInv'
<1>1. CASE \E k \in ToSet(list) : /\ heap[k].id = from[i]
                                   /\ entry' = [entry EXCEPT ![i] = k] /\ UNCHANGED <<heap, list>>
  <2>1. PICK k \in ToSet(list) : /\ heap[k].id = from[i]
                                  /\ entry' = [entry EXCEPT ![i] = k] /\ UNCHANGED <<heap, list>>
    BY <1>1
  <2>2. k \in DOMAIN heap
    BY Types DEF IInv, ToSet
  <2> QED BY <2>1, <2>2, FoundIInv DEF GetInvite
<1>2. CASE /\ \A k \in ToSet(list) : heap[k].id # from[i]
           /\ heap' = Append(heap, [id |-> from[i], nonce |-> 0])
           /\ list' = Add(Len(heap) + 1)
           /\ entry' = [entry EXCEPT ![i] = Len(heap) + 1]
  BY <1>2, NewIInv DEF GetInvite
<1> QED BY <1>1, <1>2 DEF GetInvite

\* Nonces of before a new one are still nonces.
LEMMA MoreNonces ==
    ASSUME NEW m \in Nat, NEW n \in Nat, m <= n
    PROVE  /\ Seq([id : Callers, nonce : 0 .. m]) \subseteq Seq([id : Callers, nonce : 0 .. n])
           /\ Seq([nonce : 0 .. m, right : BOOLEAN]) \subseteq Seq([nonce : 0 .. n, right : BOOLEAN])
<1> DEFINE M == 0 .. m
           N == 0 .. n
<1>1. M \subseteq N
  OBVIOUS
<1> HIDE DEF M, N
<1>2. [id : Callers, nonce : M] \subseteq [id : Callers, nonce : N]
  BY <1>1
<1>3. [nonce : M, right : BOOLEAN] \subseteq [nonce : N, right : BOOLEAN]
  BY <1>1
<1>4. ASSUME NEW A, NEW B, A \subseteq B PROVE Seq(A) \subseteq Seq(B)
  BY <1>4
<1>5. /\ Seq([id : Callers, nonce : M]) \subseteq Seq([id : Callers, nonce : N])
      /\ Seq([nonce : M, right : BOOLEAN]) \subseteq Seq([nonce : N, right : BOOLEAN])
  BY <1>2, <1>3, <1>4
<1> QED BY <1>5 DEF M, N

\* A new challenge: nothing that was sent before is newer.
LEMMA StoreIInv == ASSUME IInv, NEW i \in Invites, StoreChallenge(i) PROVE IInv'
<1> USE DEF IInv
<1> DEFINE k == entry[i]
           new == [heap[k] EXCEPT !.nonce = nonces + 1]
           Entries == [id : Callers, nonce : 0 .. nonces + 1]
<1>0. pc[i] = "check" /\ k \in DOMAIN heap /\ heap[k].id = from[i] /\ nonces \in Nat
  BY Types DEF StoreChallenge, HandlersOK
<1>1. /\ pc' \in Seq(Stages) /\ Len(pc') = Len(pc) /\ pc'[i] = "stored"
      /\ \A j \in Invites : j # i => pc'[j] = pc[j]
  BY StageIs DEF Stages, StoreChallenge
<1>2. /\ heap' \in Seq(Entries) /\ Len(heap') = Len(heap)
      /\ heap'[k].id = heap[k].id /\ heap'[k].nonce = nonces + 1
      /\ \A l \in DOMAIN heap : l # k => heap'[l] = heap[l]
  <2>1. /\ heap \in Seq(Entries) /\ DOMAIN heap = 1 .. Len(heap)
    <3>1. heap \in Seq([id : Callers, nonce : 0 .. nonces]) /\ DOMAIN heap = 1 .. Len(heap)
      BY Types DEF TypeOK
    <3>2. nonces + 1 \in Nat /\ nonces <= nonces + 1
      BY <1>0
    <3> QED BY <1>0, <3>1, <3>2, MoreNonces
  <2>2. heap[k] \in [id : Callers, nonce : 0 .. nonces]
    <3>1. heap \in Seq([id : Callers, nonce : 0 .. nonces]) /\ k \in 1 .. Len(heap)
      BY <1>0, <2>1 DEF TypeOK
    <3> QED BY <3>1, ElementOfSeq
  <2>3. new \in Entries /\ new.id = heap[k].id /\ new.nonce = nonces + 1
    BY <2>2, <1>0
  <2>4. heap' = [heap EXCEPT ![k] = new]
    BY DEF StoreChallenge
  <2> HIDE DEF Entries, new, k
  <2> QED BY <1>0, <2>1, <2>3, <2>4, ExceptSeq
<1>3. Invites' = Invites /\ DOMAIN heap' = DOMAIN heap /\ UNCHANGED <<from, list, cred, entry, reply, alone>>
      /\ nonces' = nonces + 1
  <2>1. DOMAIN heap' = 1 .. Len(heap')
    BY <1>2, LenProperties
  <2> QED BY <1>2, <2>1, Types DEF Invites, StoreChallenge
<1>4. TypeOK'
  <2>1. cred' \in Seq([nonce : 0 .. nonces', right : BOOLEAN])
    <3>1. nonces' \in Nat /\ nonces <= nonces'
      BY <1>0, <1>3
    <3>2. cred \in Seq([nonce : 0 .. nonces, right : BOOLEAN])
      BY DEF TypeOK
    <3> QED BY <1>0, <1>3, <3>1, <3>2, MoreNonces
  <2>2. reply' \in Seq(0 .. nonces')
    <3>1. 0 .. nonces \subseteq 0 .. nonces'
      BY <1>0, <1>3
    <3> QED BY <3>1, <1>3 DEF TypeOK
  <2> QED BY <2>1, <2>2, <1>0, <1>1, <1>2, <1>3 DEF TypeOK
<1>5. \A d \in Callers : Challenges(d)' = Challenges(d)
  BY <1>0, <1>1, <1>3 DEF Challenges
<1>6. HandlersOK'
  <2> SUFFICES ASSUME NEW j \in Invites
               PROVE  /\ pc'[j] # "sent" => entry[j] \in DOMAIN heap' /\ heap'[entry[j]].id = from[j]
                      /\ cred[j].nonce # 0 => cred[j].nonce \in Challenges(from[j])'
                      /\ pc'[j] \in {"read", "challenged"} => reply[j] <= heap'[entry[j]].nonce
    BY <1>3 DEF HandlersOK
  <2>1. cred[j].nonce # 0 => cred[j].nonce \in Challenges(from[j])'
    <3>1. PICK d \in Callers : d = from[j]
      BY Types
    <3>2. Challenges(from[j])' = Challenges(d)'
      BY <3>1, <1>3 DEF Challenges
    <3> QED BY <3>1, <3>2, <1>5 DEF HandlersOK
  <2>2. pc'[j] # "sent" => entry[j] \in DOMAIN heap' /\ heap'[entry[j]].id = from[j]
    BY <1>0, <1>1, <1>2, <1>3 DEF HandlersOK
  <2>3. ASSUME pc'[j] \in {"read", "challenged"} PROVE reply[j] <= heap'[entry[j]].nonce
    <3>1. j # i /\ pc[j] = pc'[j] /\ entry[j] \in DOMAIN heap /\ reply[j] <= heap[entry[j]].nonce
      BY <2>3, <1>1 DEF HandlersOK
    <3>2. CASE entry[j] = k
      BY <3>2, <1>0, <1>2, Types
    <3>3. CASE entry[j] # k
      BY <3>1, <3>3, <1>2
    <3> QED BY <3>2, <3>3
  <2> QED BY <2>1, <2>2, <2>3
<1>7. EntriesOK'
  <2> SUFFICES ASSUME NEW l \in DOMAIN heap
               PROVE  \/ heap'[l].nonce = 0 \/ heap'[l].nonce \in Challenges(heap[l].id)'
                      \/ \E j \in Invites : Sending(j, l)'
    BY <1>3 DEF EntriesOK
  <2>1. CASE l = k
    BY <2>1, <1>1, <1>3 DEF Sending
  <2>2. CASE l # k
    <3>1. PICK d \in Callers : d = heap[l].id
      BY Types
    <3>2. Challenges(heap[l].id)' = Challenges(d)'
      BY <2>2, <3>1, <1>2 DEF Challenges
    <3>3. ASSUME NEW j \in Invites, Sending(j, l) PROVE Sending(j, l)'
      BY <2>2, <3>3, <1>0, <1>1, <1>2, <1>3 DEF Sending
    <3>4. heap'[l] = heap[l]
      BY <2>2, <1>2
    <3> QED BY <3>1, <3>2, <3>3, <3>4, <1>5 DEF EntriesOK
  <2> QED BY <2>1, <2>2
<1>8. KeptOK'
  <2>1. \A l \in DOMAIN heap : heap'[l].id = heap[l].id
    BY <1>2
  <2>2. CallIDs' = CallIDs
    BY <2>1, <1>3 DEF CallIDs
  <2>3. AllKept => AllKept'
    BY <2>1, <2>2, <1>2, <1>3 DEF AllKept
  <2> QED BY <2>2, <2>3 DEF KeptOK
<1>9. AloneOK'
  BY <1>0, <1>1, <1>3, StaysAlone DEF Answered
<1> QED BY <1>4, <1>6, <1>7, <1>8, <1>9

\* The 407 carries the challenge of the entry.
LEMMA ReadIInv == ASSUME IInv, NEW i \in Invites, ReadChallenge(i) PROVE IInv'
<1> USE DEF IInv
<1> DEFINE k == entry[i]
<1>0. pc[i] = "stored" /\ k \in DOMAIN heap /\ heap[k].nonce \in 0 .. nonces /\ nonces \in Nat
  BY Types DEF ReadChallenge, HandlersOK
<1>1. /\ pc' \in Seq(Stages) /\ Len(pc') = Len(pc) /\ pc'[i] = "read"
      /\ \A j \in Invites : j # i => pc'[j] = pc[j]
  BY StageIs DEF Stages, ReadChallenge
<1>2. /\ reply' \in Seq(0 .. nonces) /\ Len(reply') = Len(reply) /\ reply'[i] = heap[k].nonce
      /\ \A j \in Invites : j # i => reply'[j] = reply[j]
  <2>1. reply \in Seq(0 .. nonces) /\ Invites = 1 .. Len(reply)
    BY Types DEF TypeOK
  <2> QED BY <1>0, <2>1, ExceptSeq DEF ReadChallenge
<1>3. Invites' = Invites /\ UNCHANGED <<from, heap, list, cred, entry, alone, nonces>>
  BY DEF Invites, ReadChallenge
<1>4. TypeOK'
  BY <1>1, <1>2, <1>3 DEF TypeOK
<1>5. \A d \in Callers : Challenges(d)' = Challenges(d)
  BY <1>0, <1>1, <1>2, <1>3 DEF Challenges
<1>6. HandlersOK'
  <2> SUFFICES ASSUME NEW j \in Invites
               PROVE  /\ pc'[j] # "sent" => entry[j] \in DOMAIN heap /\ heap[entry[j]].id = from[j]
                      /\ cred[j].nonce # 0 => cred[j].nonce \in Challenges(from[j])'
                      /\ pc'[j] \in {"read", "challenged"} => reply'[j] <= heap[entry[j]].nonce
    BY <1>3 DEF HandlersOK
  <2>1. cred[j].nonce # 0 => cred[j].nonce \in Challenges(from[j])'
    <3>1. PICK d \in Callers : d = from[j]
      BY Types
    <3>2. Challenges(from[j])' = Challenges(d)'
      BY <3>1, <1>3 DEF Challenges
    <3> QED BY <3>1, <3>2, <1>5 DEF HandlersOK
  <2>2. CASE j = i
    BY <2>1, <2>2, <1>0, <1>2 DEF HandlersOK
  <2>3. CASE j # i
    BY <2>1, <2>3, <1>1, <1>2 DEF HandlersOK
  <2> QED BY <2>2, <2>3
<1>7. EntriesOK'
  <2>1. ASSUME NEW j \in Invites, NEW l \in DOMAIN heap, Sending(j, l) PROVE Sending(j, l)'
    BY <2>1, <1>1, <1>2, <1>3 DEF Sending
  <2>2. \A l \in DOMAIN heap : Challenges(heap[l].id)' = Challenges(heap[l].id)
    BY <1>0, <1>1, <1>2, <1>3 DEF Challenges
  <2> QED BY <2>1, <2>2, <1>3 DEF EntriesOK
<1>8. KeptOK'
  BY <1>3 DEF KeptOK, AllKept, CallIDs
<1>9. AloneOK'
  BY <1>0, <1>1, <1>3, StaysAlone DEF Answered
<1> QED BY <1>4, <1>6, <1>7, <1>8, <1>9

\* An answer that is sent adds at most its own challenge to those the caller has got.
LEMMA AnswerIInv ==
    ASSUME IInv, NEW i \in Invites, NEW p \in Answered, pc' = [pc EXCEPT ![i] = p],
           \/ pc[i] = "read" /\ p = "challenged"
           \/ pc[i] = "check" /\ p # "challenged",
           UNCHANGED <<from, heap, list, cred, entry, reply, alone, nonces>>
    PROVE  IInv'
<1> USE DEF IInv
<1>1. /\ pc' \in Seq(Stages) /\ Len(pc') = Len(pc) /\ pc'[i] = p
      /\ \A j \in Invites : j # i => pc'[j] = pc[j]
  BY StageIs DEF Stages
<1>2. Invites' = Invites
  BY DEF Invites
<1>3. TypeOK'
  BY <1>1 DEF TypeOK
<1>4. \A d \in Callers : Challenges(d) \subseteq Challenges(d)'
  BY <1>1, <1>2 DEF Challenges
<1>5. HandlersOK'
  <2> SUFFICES ASSUME NEW j \in Invites
               PROVE  /\ pc'[j] # "sent" => entry[j] \in DOMAIN heap /\ heap[entry[j]].id = from[j]
                      /\ cred[j].nonce # 0 => cred[j].nonce \in Challenges(from[j])'
                      /\ pc'[j] \in {"read", "challenged"} => reply[j] <= heap[entry[j]].nonce
    BY <1>2 DEF HandlersOK
  <2>1. cred[j].nonce # 0 => cred[j].nonce \in Challenges(from[j])'
    <3>1. PICK d \in Callers : d = from[j]
      BY Types
    <3>2. Challenges(from[j])' = Challenges(d)'
      BY <3>1 DEF Challenges
    <3> QED BY <3>1, <3>2, <1>4 DEF HandlersOK
  <2>2. CASE j = i
    BY <2>1, <2>2, <1>1 DEF HandlersOK, Answered
  <2>3. CASE j # i
    BY <2>1, <2>3, <1>1 DEF HandlersOK
  <2> QED BY <2>2, <2>3
<1>6. EntriesOK'
  <2> SUFFICES ASSUME NEW k \in DOMAIN heap
               PROVE  \/ heap[k].nonce = 0 \/ heap[k].nonce \in Challenges(heap[k].id)'
                      \/ \E j \in Invites : Sending(j, k)'
    BY <1>2 DEF EntriesOK
  <2>1. PICK d \in Callers : d = heap[k].id
    BY Types
  <2>2. Challenges(heap[k].id)' = Challenges(d)'
    BY <2>1 DEF Challenges
  <2>3. CASE heap[k].nonce \in Challenges(d)
    BY <2>2, <2>3, <1>4
  <2>4. CASE \E j \in Invites : Sending(j, k)
    <3>1. PICK j \in Invites : Sending(j, k)
      BY <2>4
    <3>2. CASE j # i
      BY <3>1, <3>2, <1>1 DEF Sending
    <3>3. CASE j = i
      <4>1. pc[i] = "read" /\ p = "challenged" /\ reply[i] = heap[k].nonce /\ entry[i] = k
        BY <3>1, <3>3 DEF Sending
      <4>2. from[i] = d
        BY <4>1, <2>1 DEF HandlersOK
      <4>3. heap[k].nonce \in Challenges(d)'
        BY <4>1, <4>2, <1>1, <1>2 DEF Challenges
      <4> QED BY <4>3, <2>2
    <3> QED BY <3>2, <3>3
  <2> QED BY <2>1, <2>3, <2>4 DEF EntriesOK
<1>7. KeptOK'
  BY DEF KeptOK, AllKept, CallIDs
<1>8. AloneOK'
  BY <1>1, StaysAlone DEF Answered
<1> QED BY <1>3, <1>5, <1>6, <1>7, <1>8

LEMMA NextIInv == ASSUME IInv, [Next]_vars PROVE IInv'
<1>1. ASSUME NEW c \in Callers, Send(c) PROVE IInv'
  BY <1>1, SendIInv
<1>2. ASSUME NEW i \in Invites, GetInvite(i) PROVE IInv'
  BY <1>2, GetInviteIInv
<1>3. ASSUME NEW i \in Invites, StoreChallenge(i) PROVE IInv'
  BY <1>3, StoreIInv
<1>4. ASSUME NEW i \in Invites, ReadChallenge(i) PROVE IInv'
  BY <1>4, ReadIInv
<1>5. ASSUME NEW i \in Invites, Respond(i) PROVE IInv'
  BY <1>5, AnswerIInv DEF Respond, Answered
<1>6. ASSUME NEW i \in Invites, Verify(i) PROVE IInv'
  <2>1. PICK p \in {"admitted", "refused"} : pc' = [pc EXCEPT ![i] = p]
    BY <1>6 DEF Verify
  <2> QED BY <1>6, <2>1, AnswerIInv DEF Verify, Answered
<1>7. CASE UNCHANGED vars
  <2> USE <1>7 DEF vars, IInv
  <2>1. Invites' = Invites /\ \A c : Challenges(c)' = Challenges(c)
    BY DEF Invites, Challenges
  <2>2. TypeOK'
    BY DEF TypeOK
  <2>3. HandlersOK'
    BY <2>1 DEF HandlersOK, Challenges
  <2>4. EntriesOK'
    BY <2>1 DEF EntriesOK, Challenges, Sending
  <2>5. KeptOK'
    BY DEF KeptOK, AllKept, CallIDs
  <2>6. AloneOK'
    BY <2>1 DEF AloneOK
  <2> QED BY <2>2, <2>3, <2>4, <2>5, <2>6
<1> QED BY <1>1, <1>2, <1>3, <1>4, <1>5, <1>6, <1>7 DEF Next

LEMMA Invariance == Spec => []IInv
<1>1. Init => IInv BY InitIInv
<1>2. IInv /\ [Next]_vars => IInv' BY NextIInv
<1> QED BY <1>1, <1>2, PTL DEF Spec

\* The list, the handlers and the nonces keep their types.
THEOREM TypeCorrect == Spec => []TypeOK
<1>1. IInv => TypeOK BY DEF IInv
<1> QED BY <1>1, Invariance, PTL

\* While the list is large enough, all challenges a caller has got are at most as new as the
\* one in the entry its handler works on.
LEMMA NoneIsNewer ==
    ASSUME IInv, Cardinality(CallIDs) <= Limit, NEW i \in Invites, pc[i] = "check",
           NEW n \in Challenges(from[i])
    PROVE  n <= heap[entry[i]].nonce
<1>1. PICK j \in Invites : from[j] = from[i] /\ pc[j] = "challenged" /\ n = reply[j]
  BY DEF Challenges
<1>2. /\ entry[j] \in DOMAIN heap /\ entry[i] \in DOMAIN heap
      /\ heap[entry[j]].id = heap[entry[i]].id /\ reply[j] <= heap[entry[j]].nonce
  BY <1>1 DEF IInv, HandlersOK
<1>3. entry[j] = entry[i]
  BY <1>2 DEF IInv, KeptOK, AllKept
<1> QED BY <1>1, <1>2, <1>3

\* A step answers an INVITE with a 401 or admits it only in Verify, from what the entry holds.
LEMMA VerifyDecides ==
    ASSUME TypeOK, [Next]_vars, NEW i \in Invites, Refuses(i) \/ Admits(i)
    PROVE  cred[i].nonce # 0 /\ (Admits(i) <=> Passes(i))
<1>0. Invites = DOMAIN pc
  BY Types
<1>1. ASSUME NEW c \in Callers, Send(c) PROVE FALSE
  <2>1. pc \in Seq(Stages) /\ i \in 1 .. Len(pc)
    BY Types DEF TypeOK
  <2>2. pc'[i] = pc[i]
    BY <1>1, <2>1, AppendProperties DEF Send, Stages
  <2> QED BY <2>2 DEF Refuses, Admits
<1>2. ASSUME NEW j \in Invites, GetInvite(j) \/ StoreChallenge(j) \/ ReadChallenge(j) \/ Respond(j)
      PROVE  FALSE
  BY <1>0, <1>2 DEF GetInvite, StoreChallenge, ReadChallenge, Respond, Refuses, Admits
<1>3. ASSUME NEW j \in Invites, Verify(j) PROVE cred[i].nonce # 0 /\ (Admits(i) <=> Passes(i))
  BY <1>0, <1>3 DEF Verify, Refuses, Admits
<1>4. CASE UNCHANGED vars
  BY <1>4 DEF vars, Refuses, Admits
<1> QED BY <1>1, <1>2, <1>3, <1>4 DEF Next

\* A nonce older than one the Call-ID has got since admits nobody, however many Call-IDs and
\* INVITEs there are, while the list is large enough for the Call-IDs.
THEOREM StaleRefused == Spec => StaleIsRefused
<1>1. ASSUME IInv, [Next]_vars, NEW i \in Invites, Admits(i), ~(Cardinality(CallIDs) > Limit)
      PROVE  cred[i].right /\ Newest(i)
  <2>1. Passes(i)
    BY <1>1, VerifyDecides DEF IInv
  <2>2. Cardinality(CallIDs) <= Limit
    BY <1>1, AuthAssumption, FS_CardinalityType DEF IInv, KeptOK
  <2>3. \A n \in Challenges(from[i]) : n <= heap[entry[i]].nonce
    BY <1>1, <2>2, NoneIsNewer DEF Admits
  <2> QED BY <2>1, <2>3 DEF Passes, Newest
<1>2. IInv /\ [Next]_vars =>
         [\A i \in Invites :
             Admits(i) => (cred[i].right /\ Newest(i)) \/ Cardinality(CallIDs) > Limit]_vars
  BY <1>1
<1> QED BY <1>2, Invariance, PTL DEF Spec, StaleIsRefused

\* A caller that sends one INVITE after the other and answers its newest challenge with the
\* right password is never refused while the list is large enough.
THEOREM HonestAdmitted == Spec => HonestIsAdmitted
<1>1. ASSUME IInv, [Next]_vars, NEW i \in Invites, Refuses(i), Honest(i),
             ~(Cardinality(CallIDs) > Limit)
      PROVE  FALSE
  <2> DEFINE k == entry[i]
             n == cred[i].nonce
  <2>1. n # 0 /\ ~Passes(i) /\ pc[i] = "check"
    BY <1>1, VerifyDecides DEF IInv, Refuses, Admits
  <2>2. Cardinality(CallIDs) <= Limit
    BY <1>1, AuthAssumption, FS_CardinalityType DEF IInv, KeptOK
  <2>3. n \in Challenges(from[i]) /\ k \in DOMAIN heap /\ heap[k].id = from[i]
    BY <1>1, <2>1 DEF IInv, HandlersOK
  <2>4. n <= heap[k].nonce /\ n \in Nat /\ heap[k].nonce \in Nat
    BY <1>1, <2>1, <2>2, <2>3, NoneIsNewer, Types DEF IInv
  <2>5. CASE heap[k].nonce = 0
    BY <2>1, <2>4, <2>5
  <2>6. CASE heap[k].nonce \in Challenges(from[i])
    <3>1. heap[k].nonce <= n
      BY <1>1, <2>6 DEF Honest, Newest
    <3> QED BY <1>1, <2>1, <2>4, <3>1 DEF Honest, Passes
  <2>7. CASE \E j \in Invites : Sending(j, k)
    <3>1. PICK j \in Invites : Sending(j, k)
      BY <2>7
    <3>2. pc[j] \in {"stored", "read"} /\ from[j] = from[i]
      BY <1>1, <2>3, <3>1 DEF IInv, HandlersOK, Sending
    <3>3. i = j
      BY <1>1, <2>1, <3>2 DEF IInv, AloneOK, Answered, Honest
    <3> QED BY <2>1, <3>2, <3>3
  <2> QED BY <1>1, <2>3, <2>5, <2>6, <2>7 DEF IInv, EntriesOK
<1>2. IInv /\ [Next]_vars =>
         [\A i \in Invites : Refuses(i) /\ Honest(i) => Cardinality(CallIDs) > Limit]_vars
  BY <1>1
<1> QED BY <1>2, Invariance, PTL DEF Spec, HonestIsAdmitted
------------------------------------------------------------------------------
(* The list itself, however many Call-IDs come.                             *)

\* inProgressInvites is the newest entries in the order they were made, at most digestLimit
\* of them, and no Call-ID has two of them: the scan of getInvite cannot find an older one
\* than the INVITE before it did.
ListIsRecent ==
    /\ Len(list) <= Limit /\ Len(list) <= Len(heap)
    /\ Len(list) < Limit => Len(list) = Len(heap)
    /\ \A k \in DOMAIN list : list[k] = Len(heap) - Len(list) + k
    /\ \A j, k \in DOMAIN list : heap[list[j]].id = heap[list[k]].id => j = k

\* Making room leaves the newest ones.
LEMMA RoomIsMade ==
    ASSUME TypeOK, ListIsRecent,
           NEW old, \/ Len(list) >= Limit /\ old = Tail(list)
                    \/ Len(list) < Limit /\ old = list
    PROVE  /\ old \in Seq(1 .. Len(heap)) /\ Len(old) < Limit /\ Len(old) <= Len(heap)
           /\ Len(old) + 1 < Limit => Len(old) = Len(heap)
           /\ \A k \in 1 .. Len(old) :
                 /\ old[k] = Len(heap) - Len(old) + k
                 /\ old[k] \in ToSet(list) /\ old[k] \in DOMAIN heap
           /\ \A j, k \in 1 .. Len(old) : heap[old[j]].id = heap[old[k]].id => j = k
<1>1. /\ list \in Seq(1 .. Len(heap)) /\ Len(list) \in Nat /\ Len(heap) \in Nat
      /\ DOMAIN list = 1 .. Len(list) /\ DOMAIN heap = 1 .. Len(heap)
  BY Types DEF TypeOK
<1>2. CASE Len(list) >= Limit
  <2>1. /\ old \in Seq(1 .. Len(heap)) /\ Len(old) = Len(list) - 1
        /\ \A k \in 1 .. Len(old) : old[k] = list[k + 1] /\ k + 1 \in DOMAIN list
    <3>0. Len(list) >= 1
      BY <1>1, <1>2, AuthAssumption
    <3>1. old = Tail(list)
      BY <1>1, <1>2, AuthAssumption
    <3>2. list # << >>
      BY <1>1, <3>0
    <3>3. /\ Tail(list) \in Seq(1 .. Len(heap)) /\ Len(Tail(list)) = Len(list) - 1
          /\ \A k \in 1 .. Len(Tail(list)) : Tail(list)[k] = list[k + 1]
      BY <1>1, <3>2, HeadTailProperties
    <3>4. \A k \in 1 .. Len(list) - 1 : k + 1 \in 1 .. Len(list)
      BY <1>1
    <3> QED BY <1>1, <3>1, <3>3, <3>4
  <2>2. ASSUME NEW k \in 1 .. Len(old)
        PROVE  old[k] = Len(heap) - Len(old) + k /\ old[k] \in ToSet(list) /\ old[k] \in DOMAIN heap
    <3>1. k + 1 \in DOMAIN list /\ old[k] = list[k + 1]
      BY <2>1
    <3>2. list[k + 1] = Len(heap) - Len(list) + (k + 1)
      BY <3>1 DEF ListIsRecent
    <3>3. list[k + 1] \in DOMAIN heap /\ list[k + 1] \in ToSet(list)
      BY <3>1, Types DEF ToSet
    <3>4. k \in Nat /\ Len(old) = Len(list) - 1
      BY <1>1, <2>1
    <3> QED BY <1>1, <3>1, <3>2, <3>3, <3>4
  <2>3. ASSUME NEW j \in 1 .. Len(old), NEW k \in 1 .. Len(old), heap[old[j]].id = heap[old[k]].id
        PROVE  j = k
    <3>1. heap[list[j + 1]].id = heap[list[k + 1]].id /\ j + 1 \in DOMAIN list /\ k + 1 \in DOMAIN list
      BY <2>1, <2>3
    <3>2. j + 1 = k + 1
      BY <3>1 DEF ListIsRecent
    <3>3. j \in Int /\ k \in Int
      BY <1>1, <2>1
    <3> QED BY <3>2, <3>3
  <2>4. Len(list) <= Limit /\ Len(list) <= Len(heap)
    BY DEF ListIsRecent
  <2> HIDE DEF ListIsRecent
  <2>5. Len(old) < Limit /\ Len(old) <= Len(heap) /\ ~(Len(old) + 1 < Limit)
    BY <1>1, <1>2, <2>1, <2>4, AuthAssumption
  <2> QED BY <2>1, <2>2, <2>3, <2>5
<1>3. CASE Len(list) < Limit
  <2>1. old = list
    BY <1>1, <1>3, AuthAssumption
  <2>2. \A k \in 1 .. Len(old) : old[k] \in ToSet(list) /\ old[k] \in DOMAIN heap
    BY <1>1, <2>1, Types DEF ToSet
  <2>3. /\ Len(old) <= Len(heap) /\ (Len(old) + 1 < Limit => Len(old) = Len(heap))
        /\ \A k \in 1 .. Len(old) : old[k] = Len(heap) - Len(old) + k
        /\ \A j, k \in 1 .. Len(old) : heap[old[j]].id = heap[old[k]].id => j = k
    BY <1>1, <1>3, <2>1 DEF ListIsRecent
  <2> QED BY <1>1, <1>3, <2>1, <2>2, <2>3
<1> QED BY <1>1, <1>2, <1>3, AuthAssumption

\* getInvite makes an entry.
LEMMA NewIsRecent ==
    ASSUME TypeOK, ListIsRecent, NEW c \in Callers, \A k \in ToSet(list) : heap[k].id # c,
           heap' = Append(heap, [id |-> c, nonce |-> 0]), list' = Add(Len(heap) + 1)
    PROVE  ListIsRecent'
<1> DEFINE n == Len(heap) + 1
           e == [id |-> c, nonce |-> 0]
           old == IF Len(list) >= Limit THEN Tail(list) ELSE list
<1>1. /\ Len(heap) \in Nat /\ DOMAIN heap = 1 .. Len(heap) /\ e.id = c
  BY Types
<1>2. /\ old \in Seq(1 .. Len(heap)) /\ Len(old) < Limit /\ Len(old) <= Len(heap)
      /\ Len(old) + 1 < Limit => Len(old) = Len(heap)
      /\ \A k \in 1 .. Len(old) :
            /\ old[k] = Len(heap) - Len(old) + k
            /\ old[k] \in ToSet(list) /\ old[k] \in DOMAIN heap
      /\ \A j, k \in 1 .. Len(old) : heap[old[j]].id = heap[old[k]].id => j = k
  <2>1. \/ Len(list) >= Limit /\ old = Tail(list)
        \/ Len(list) < Limit /\ old = list
    <3>1. CASE Len(list) >= Limit
      BY <3>1
    <3>2. CASE ~(Len(list) >= Limit)
      <4>1. old = list
        BY <3>2
      <4>2. Len(list) < Limit
        BY <3>2, Types, AuthAssumption
      <4> QED BY <4>1, <4>2
    <3> QED BY <3>1, <3>2
  <2> HIDE DEF old
  <2> QED BY <2>1, RoomIsMade
<1>3. list' = Append(old, n) /\ heap' = Append(heap, e)
  BY DEF Add
<1> HIDE DEF old, e
<1>4. /\ Len(heap') = n /\ heap'[n] = e /\ \A k \in DOMAIN heap : heap'[k] = heap[k]
  <2>1. heap \in Seq([id : Callers, nonce : 0 .. nonces])
    BY DEF TypeOK
  <2>2. e \in [id : Callers, nonce : Nat] /\ heap \in Seq([id : Callers, nonce : Nat])
    <3>1. 0 .. nonces \subseteq Nat /\ nonces \in Nat
      BY Types
    <3>2. [id : Callers, nonce : 0 .. nonces] \subseteq [id : Callers, nonce : Nat]
      BY <3>1
    <3> DEFINE Short == [id : Callers, nonce : 0 .. nonces]
               Long == [id : Callers, nonce : Nat]
    <3>3. Seq(Short) \subseteq Seq(Long)
      <4>1. Short \subseteq Long
        BY <3>2
      <4> HIDE DEF Short, Long
      <4> QED BY <4>1
    <3>4. heap \in Seq(Long)
      BY <2>1, <3>3
    <3> QED BY <3>4 DEF e
  <2> QED BY <1>1, <1>3, <2>2, AppendProperties
<1>5. /\ Len(list') = Len(old) + 1 /\ list'[Len(old) + 1] = n
      /\ DOMAIN list' = 1 .. Len(old) + 1 /\ Len(old) \in Nat
      /\ \A k \in 1 .. Len(old) : list'[k] = old[k]
  <2>1. old \in Seq(1 .. n) /\ n \in 1 .. n /\ Len(old) \in Nat
    <3>1. 1 .. Len(heap) \subseteq 1 .. n
      BY <1>1
    <3> QED BY <1>1, <1>2, <3>1, LenProperties
  <2> QED BY <1>3, <2>1, AppendProperties, LenProperties
<1>6. \A k \in DOMAIN list' : list'[k] = Len(heap') - Len(list') + k
  <2>1. ASSUME NEW k \in 1 .. Len(old) PROVE list'[k] = n - (Len(old) + 1) + k
    BY <1>1, <1>2, <1>5
  <2>2. list'[Len(old) + 1] = n - (Len(old) + 1) + (Len(old) + 1)
    BY <1>1, <1>5
  <2> QED BY <1>4, <1>5, <2>1, <2>2
<1>7. \A k \in 1 .. Len(old) : heap'[list'[k]].id = heap[old[k]].id /\ heap[old[k]].id # c
  BY <1>2, <1>4, <1>5
<1>8. heap'[list'[Len(old) + 1]].id = c
  BY <1>1, <1>4, <1>5
<1>9. ASSUME NEW j \in DOMAIN list', NEW k \in DOMAIN list',
             heap'[list'[j]].id = heap'[list'[k]].id
      PROVE  j = k
  <2>1. j \in 1 .. Len(old) \/ j = Len(old) + 1
    BY <1>5
  <2>2. k \in 1 .. Len(old) \/ k = Len(old) + 1
    BY <1>5
  <2> QED BY <1>2, <1>7, <1>8, <1>9, <2>1, <2>2
<1>10. Len(list') <= Limit /\ Len(list') <= Len(heap') /\ (Len(list') < Limit => Len(list') = Len(heap'))
  BY <1>1, <1>2, <1>4, <1>5, AuthAssumption
<1> QED BY <1>6, <1>9, <1>10 DEF ListIsRecent

\* Nobody but getInvite writes the list, and an entry keeps its Call-ID.
LEMMA StaysRecent ==
    ASSUME TypeOK, ListIsRecent, UNCHANGED list, Len(heap') = Len(heap),
           \A k \in DOMAIN heap : heap'[k].id = heap[k].id
    PROVE  ListIsRecent'
<1>1. \A k \in DOMAIN list : list[k] \in DOMAIN heap
  BY Types
<1> QED BY <1>1 DEF ListIsRecent

\* The list of INVITEs in progress is its newest entries, one of each Call-ID.
THEOREM ListRecent == Spec => []ListIsRecent
<1>1. Init => ListIsRecent
  BY AuthAssumption DEF Init, ListIsRecent
<1>2. ASSUME IInv, ListIsRecent, [Next]_vars PROVE ListIsRecent'
  <2>1. TypeOK
    BY <1>2 DEF IInv
  <2>2. ASSUME NEW i \in Invites, GetInvite(i) PROVE ListIsRecent'
    <3>1. CASE UNCHANGED <<heap, list>>
      BY <1>2, <2>1, <3>1, StaysRecent
    <3>2. CASE /\ \A k \in ToSet(list) : heap[k].id # from[i]
               /\ heap' = Append(heap, [id |-> from[i], nonce |-> 0])
               /\ list' = Add(Len(heap) + 1)
      <4>1. from[i] \in Callers
        BY <2>1, Types
      <4> QED BY <1>2, <2>1, <3>2, <4>1, NewIsRecent
    <3> QED BY <2>2, <3>1, <3>2 DEF GetInvite
  <2>3. ASSUME NEW i \in Invites, StoreChallenge(i) PROVE ListIsRecent'
    <3>1. heap' = [heap EXCEPT ![entry[i]].nonce = nonces + 1] /\ UNCHANGED list
      BY <2>3 DEF StoreChallenge
    <3>2. Len(heap') = Len(heap) /\ \A k \in DOMAIN heap : heap'[k].id = heap[k].id
      BY <2>1, <3>1, Types DEF TypeOK
    <3> QED BY <1>2, <2>1, <3>1, <3>2, StaysRecent
  <2>4. CASE UNCHANGED <<heap, list>>
    BY <1>2, <2>1, <2>4, StaysRecent
  <2> QED BY <1>2, <2>2, <2>3, <2>4 DEF Next, Send, ReadChallenge, Respond, Verify, vars
<1> QED BY <1>1, <1>2, Invariance, PTL DEF Spec
=============================================================================
