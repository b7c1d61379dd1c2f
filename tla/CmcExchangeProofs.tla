------------------------- MODULE CmcExchangeProofs -------------------------
(***************************************************************************)
(* For any relays, links, processes and bounds: no message is lost before  *)
(* it is processed, a lease is used once and only while the journal counts *)
(* it as open, and an outcome in the journal is the client's.              *)
(***************************************************************************)
EXTENDS CmcExchange, TLAPS

-----------------------------------------------------------------------------
(* The invariants.                                                          *)

\* Messages that may still be copied or processed.
Around(m) ==
    \/ m \in putting
    \/ \E n \in Nodes : m \in box[n]
    \/ \E l \in Links : thread[l] # Idle /\ thread[l].m = m

\* A settlement exists once its outcome is recorded, and a grant once the
\* journal has the lease.
MessagesInv ==
    /\ \A m \in Message : Around(m) =>
          /\ m.type = "settlement" => report[m.id] # "none"
          /\ m.type = "grant" => lease[m.id] # "none"
    /\ \A p \in Procs : proc[p].at = "answer" => lease[proc[p].m.id] # "none"

\* The client's records and the journal of one lease.
LeaseInv ==
    \A r \in Requests :
       /\ uses[r] \in {0, 1}
       /\ uses[r] = 1 => grant[r] = "consumed"
       /\ report[r] # "none" => uses[r] = 1
       /\ grant[r] # "none" => lease[r] # "none"
       /\ lease[r] = "expired" => LeaseOver(r)
       /\ lease[r] \in Outcomes => uses[r] = 1 /\ report[r] = lease[r]

\* A copy is dropped by a process only when it is processed, and collected
\* by a pass only when the recipient has or had it.
CopiesInv ==
    /\ \A p \in Procs : proc[p].at = "drop" => proc[p].m \in done
    /\ \A l \in Links : thread[l] # Idle => thread[l].from # thread[l].to
    /\ \A l \in Links :
          thread[l].at = "ack" /\ thread[l].to = Recipient(thread[l].m) =>
             thread[l].m \in box[thread[l].to] \cup done \cup late

-----------------------------------------------------------------------------

\* Type correctness, initially and over a step.
LEMMA TypeInit == Init => TypeOK
  BY ExchangeAssumption DEF Init, TypeOK, Epochs, Requests, Message

\* Facts about messages and their nodes.
LEMMA MessageFacts ==
  /\ \A t \in {"request", "grant", "settlement"}, r \in Requests :
        Msg(t, r) \in Message /\ Msg(t, r).type = t /\ Msg(t, r).id = r
  /\ \A m \in Message : Sender(m) \in Nodes /\ Recipient(m) \in Nodes
  BY DEF Msg, Message, Sender, Recipient, Nodes

\* One case for each action of the exchange.
LEMMA TypeStep == TypeOK /\ [Next]_vars => TypeOK'
<1> SUFFICES ASSUME TypeOK, [Next]_vars PROVE TypeOK'
  OBVIOUS
<1> USE ExchangeAssumption, MessageFacts DEF TypeOK
<1>1. CASE Ask
  <2>1. Now \in Epochs /\ NewRequest \in Requests /\ NewRequest \in 0..MaxRequests
    BY <1>1 DEF Ask, MayAsk, NewRequest, Now, Requests
  <2> QED
    BY <1>1, <2>1 DEF Ask, routes
<1>2. CASE AskAgain
  BY <1>2 DEF AskAgain, routes, client, Now
<1>3. CASE Use
  BY <1>3 DEF Use, routes, Now
<1>4. CASE Replace
  <2>1. Now \in Epochs /\ NewRequest \in Requests /\ NewRequest \in 0..MaxRequests
    BY <1>4 DEF Replace, MayAsk, NewRequest, Now, Requests
  <2> QED
    BY <1>4, <2>1 DEF Replace, routes
<1>5. ASSUME NEW r \in Requests, NEW o \in Outcomes, Settle(r, o) PROVE TypeOK'
  BY <1>5 DEF Settle, routes
<1>6. ASSUME NEW p \in Procs, Answer(p) PROVE TypeOK'
  BY <1>6 DEF Answer, routes, client, PutFile, Turn, Stop, Work, Idle, Nodes, Msg, Message
<1>7. ASSUME NEW p \in Procs, Discard(p) PROVE TypeOK'
  BY <1>7 DEF Discard, routes, client, Stop, Idle
<1>8. ASSUME NEW p \in Procs, Die(p) PROVE TypeOK'
  BY <1>8 DEF Fault, Die, routes, client, Stop, Idle
<1>9. ASSUME NEW l \in Links, Write(l) PROVE TypeOK'
  <2>1. thread[l] \in Copy
    BY <1>9 DEF Write, Idle
  <2>2. [thread[l] EXCEPT !.at = "ack"] \in Copy
    BY <2>1 DEF Copy
  <2>3. thread' \in [Links -> Copy \cup {Idle}]
    BY <1>9, <2>2 DEF Write
  <2>4. box' \in [Nodes -> SUBSET Message]
    BY <1>9, <2>1 DEF Write, PutFile, Copy
  <2> QED
    BY <1>9, <2>3, <2>4 DEF Write, routes, client
<1>10. ASSUME NEW l \in Links, Confirm(l) PROVE TypeOK'
  BY <1>10 DEF Confirm, routes, client, Collect, Copy, Idle
<1>11. ASSUME NEW l \in Links, Break(l) PROVE TypeOK'
  BY <1>11 DEF Fault, Break, routes, client, Idle
<1>12. ASSUME NEW m \in Message, Put(m) PROVE TypeOK'
  BY <1>12 DEF Put, routes, client, PutFile, Nodes
<1>13. ASSUME NEW m \in Message, PutLost(m) PROVE TypeOK'
  BY <1>13 DEF Fault, PutLost, routes, client
<1>14. ASSUME NEW m \in Message, Expire(m) PROVE TypeOK'
  BY <1>14 DEF Fault, Expire, routes, client
<1>15. ASSUME NEW m \in Message, HandleAck(m) PROVE TypeOK'
  BY <1>15 DEF HandleAck, routes, client
<1>16. ASSUME NEW m \in Message, NEW p \in Procs, HandleRequest(p, m) PROVE TypeOK'
  BY <1>16 DEF HandleRequest, routes, client, Turn, Work, Journal, Message
<1>17. ASSUME NEW m \in Message, NEW p \in Procs, HandleGrant(p, m) PROVE TypeOK'
  BY <1>17 DEF HandleGrant, routes, Turn, Work, Message
<1>18. ASSUME NEW m \in Message, NEW p \in Procs, HandleSettlement(p, m) PROVE TypeOK'
  BY <1>18 DEF HandleSettlement, routes, client, Turn, Work, Journal, Message
<1>19. ASSUME NEW m \in Message, NEW p \in Procs, RefuseRequest(p, m) PROVE TypeOK'
  BY <1>19 DEF RefuseRequest, routes, client, Journal
<1>20. ASSUME NEW m \in Message, NEW l \in Links, Read(l, m) PROVE TypeOK'
  BY <1>20 DEF Read, Ends, routes, client, Copy
<1>21. CASE AdvanceEpoch
  BY <1>21 DEF Fault, AdvanceEpoch, client, Epochs
<1>22. ASSUME NEW n \in {"client", "authority"}, Refresh(n) PROVE TypeOK'
  BY <1>22 DEF Refresh, client
<1>23. CASE UNCHANGED vars
  BY <1>23 DEF vars
<1> QED
  BY <1>1, <1>2, <1>3, <1>4, <1>5, <1>6, <1>7, <1>8, <1>9, <1>10, <1>11, <1>12, <1>13,
     <1>14, <1>15, <1>16, <1>17, <1>18, <1>19, <1>20, <1>21, <1>22, <1>23
     DEF Next, Finish, Handle

-----------------------------------------------------------------------------
(* Messages and leases.                                                     *)

\* An action that puts no new message about and forgets no record keeps
\* MessagesInv.
LEMMA MessagesKept ==
  ASSUME TypeOK, TypeOK', MessagesInv,
         \A m \in Message : Around(m)' => Around(m),
         \A r \in Requests : report'[r] = report[r],
         \A r \in Requests : lease[r] # "none" => lease'[r] # "none",
         \A p \in Procs : proc'[p] = proc[p] \/ proc'[p].at # "answer"
  PROVE  MessagesInv'
  <1>1. \A m \in Message : m.id \in Requests
    BY DEF Message
  <1>2. \A m \in Message : Around(m)' =>
          /\ m.type = "settlement" => report'[m.id] # "none"
          /\ m.type = "grant" => lease'[m.id] # "none"
    BY <1>1 DEF MessagesInv
  <1>3. ASSUME NEW p \in Procs, proc'[p].at = "answer" PROVE lease'[proc'[p].m.id] # "none"
    <2>1. proc[p] = proc'[p] /\ proc[p] \in Work
      BY <1>3 DEF TypeOK, Idle
    <2> QED
      BY <1>1, <1>3, <2>1 DEF MessagesInv, Work
  <1> QED
    BY <1>2, <1>3 DEF MessagesInv

\* What a call of the authority does to leases that are not its own.
LEMMA JournalFacts ==
  ASSUME TypeOK
  PROVE  \A r \in Requests :
            /\ Journal[r] = lease[r] \/ (Journal[r] = "expired" /\ lease[r] = "open" /\ LeaseOver(r))
            /\ lease[r] # "none" => Journal[r] # "none"
  BY DEF Journal, TypeOK

\* A step keeps what the client's records, the journal and the messages
\* about can say of one lease.
LEMMA ExchangeStep ==
  TypeOK /\ TypeOK' /\ MessagesInv /\ LeaseInv /\ [Next]_vars => MessagesInv' /\ LeaseInv'
<1> SUFFICES ASSUME TypeOK, TypeOK', MessagesInv, LeaseInv, [Next]_vars
             PROVE  MessagesInv' /\ LeaseInv'
  OBVIOUS
<1> USE ExchangeAssumption, MessageFacts
<1>id. \A m \in Message : m.id \in Requests
  BY DEF Message
<1>1. CASE Ask
  <2>1. UNCHANGED <<grant, report, uses, lease, box, late, proc, thread>>
    BY <1>1 DEF Ask
  <2>2. \A m \in putting' \ putting : m.type = "request"
    BY <1>1 DEF Ask, Msg
  <2>3. LeaseInv'
    BY <2>1 DEF LeaseInv, LeaseOver
  <2> QED
    BY <2>1, <2>2, <2>3 DEF MessagesInv, Around
<1>2. CASE AskAgain
  <2>1. UNCHANGED <<grant, report, uses, lease, box, late, proc, thread>>
    BY <1>2 DEF AskAgain, client
  <2>2. \A m \in putting' \ putting : m.type = "request"
    BY <1>2 DEF AskAgain, Msg
  <2>3. LeaseInv'
    BY <2>1 DEF LeaseInv, LeaseOver
  <2> QED
    BY <2>1, <2>2, <2>3 DEF MessagesInv, Around
<1>3. CASE Use
  <2>1. UNCHANGED <<report, putting, lease, box, late, proc, thread>>
    BY <1>3 DEF Use
  <2> DEFINE r == pending[Now]
  <2>r. r \in Requests
    BY <1>3 DEF Use, TypeOK, Now
  <2>2. /\ grant[r] = "held"
        /\ grant' = [grant EXCEPT ![r] = "consumed"]
        /\ uses' = [uses EXCEPT ![r] = @ + 1]
    BY <1>3 DEF Use
  <2> HIDE DEF r
  <2>3. LeaseInv'
    BY <2>r, <2>1, <2>2 DEF LeaseInv, LeaseOver, TypeOK
  <2> QED
    BY <2>1, <2>3 DEF MessagesInv, Around
<1>4. CASE Replace
  <2>1. UNCHANGED <<report, uses, lease, box, late, proc, thread>>
    BY <1>4 DEF Replace
  <2> DEFINE r == pending[Now]
  <2>r. r \in Requests
    BY <1>4 DEF Replace, TypeOK, Now
  <2>2. grant[r] = "held" /\ grant' = [grant EXCEPT ![r] = "consumed"]
    BY <1>4 DEF Replace
  <2> HIDE DEF r
  <2>3. \A m \in putting' \ putting : m.type = "request"
    BY <1>4 DEF Replace, Msg
  <2>4. LeaseInv'
    BY <2>r, <2>1, <2>2 DEF LeaseInv, LeaseOver, TypeOK
  <2> QED
    BY <2>1, <2>3, <2>4 DEF MessagesInv, Around
<1>5. ASSUME NEW r \in Requests, NEW o \in Outcomes, Settle(r, o)
      PROVE  MessagesInv' /\ LeaseInv'
  <2>1. UNCHANGED <<grant, uses, lease, box, late, proc, thread>>
    BY <1>5 DEF Settle
  <2>2. report' = [report EXCEPT ![r] = o] /\ report[r] = "none" /\ uses[r] = 1 /\ o # "none"
    BY <1>5 DEF Settle, LeaseInv, TypeOK
  <2>3. LeaseInv'
    BY <2>1, <2>2 DEF LeaseInv, LeaseOver, TypeOK
  <2>4. \A m \in putting' \ putting : m.type = "settlement" /\ m.id = r
    BY <1>5 DEF Settle, Msg
  <2>5. \A q \in Requests : report[q] # "none" => report'[q] # "none"
    BY <2>2 DEF TypeOK
  <2>6. report'[r] # "none"
    BY <2>2 DEF TypeOK
  <2> QED
    BY <1>id, <2>1, <2>3, <2>4, <2>5, <2>6 DEF MessagesInv, Around
<1>6. ASSUME NEW p \in Procs, Answer(p) PROVE MessagesInv' /\ LeaseInv'
  <2>1. UNCHANGED <<grant, report, uses, putting, lease, late, thread>>
    BY <1>6 DEF Answer, client
  <2>2. proc[p] \in Work /\ proc[p].at = "answer" /\ lease[proc[p].m.id] # "none"
    BY <1>6 DEF Answer, TypeOK, Idle, MessagesInv
  <2>3. \A n \in Nodes : \A m \in box'[n] \ box[n] : m = Msg("grant", proc[p].m.id)
    BY <1>6 DEF Answer, PutFile, TypeOK
  <2>4. \A m \in Message : Around(m)' => Around(m) \/ m = Msg("grant", proc[p].m.id)
    BY <2>1, <2>3 DEF Around
  <2>5. Msg("grant", proc[p].m.id).type = "grant" /\ Msg("grant", proc[p].m.id).id = proc[p].m.id
    BY DEF Msg
  <2>6. \A q \in Procs : proc'[q] = proc[q] \/ proc'[q].at # "answer"
    BY <1>6 DEF Answer, Turn, Stop, Idle, TypeOK
  <2>7. LeaseInv'
    BY <2>1 DEF LeaseInv, LeaseOver
  <2>8. \A m \in Message : Around(m)' =>
          /\ m.type = "settlement" => report'[m.id] # "none"
          /\ m.type = "grant" => lease'[m.id] # "none"
    BY <2>1, <2>2, <2>4, <2>5 DEF MessagesInv
  <2>9. \A q \in Procs : proc'[q].at = "answer" => lease'[proc'[q].m.id] # "none"
    BY <2>1, <2>6 DEF MessagesInv
  <2> QED
    BY <2>7, <2>8, <2>9 DEF MessagesInv
<1>7. ASSUME NEW p \in Procs, Discard(p) PROVE MessagesInv' /\ LeaseInv'
  <2>1. UNCHANGED <<grant, report, uses, putting, lease, late, thread>>
    BY <1>7 DEF Discard, client
  <2>2. LeaseInv'
    BY <2>1 DEF LeaseInv, LeaseOver
  <2>3. \A n \in Nodes : box'[n] \subseteq box[n]
    BY <1>7 DEF Discard, TypeOK
  <2>4. \A m \in Message : Around(m)' => Around(m)
    BY <2>1, <2>3 DEF Around
  <2>5. \A q \in Procs : proc'[q] = proc[q] \/ proc'[q].at # "answer"
    BY <1>7 DEF Discard, Stop, Idle, TypeOK
  <2> QED
    BY <2>1, <2>2, <2>4, <2>5, MessagesKept
<1>8. ASSUME NEW p \in Procs, Die(p) PROVE MessagesInv' /\ LeaseInv'
  <2>1. UNCHANGED <<grant, report, uses, putting, lease, late, thread, box>>
    BY <1>8 DEF Die, client
  <2>2. LeaseInv'
    BY <2>1 DEF LeaseInv, LeaseOver
  <2>4. \A m \in Message : Around(m)' => Around(m)
    BY <2>1 DEF Around
  <2>5. \A q \in Procs : proc'[q] = proc[q] \/ proc'[q].at # "answer"
    BY <1>8 DEF Die, Stop, Idle, TypeOK
  <2> QED
    BY <2>1, <2>2, <2>4, <2>5, MessagesKept
<1>9. ASSUME NEW l \in Links, Write(l) PROVE MessagesInv' /\ LeaseInv'
  <2>1. UNCHANGED <<grant, report, uses, putting, lease, late, proc>>
    BY <1>9 DEF Write, client
  <2>2. LeaseInv'
    BY <2>1 DEF LeaseInv, LeaseOver
  <2>3. thread[l] \in Copy /\ thread[l] # Idle
    BY <1>9 DEF Write, TypeOK, Idle
  <2>4. \A n \in Nodes : \A m \in box'[n] \ box[n] : m = thread[l].m
    BY <1>9 DEF Write, PutFile, TypeOK
  <2>5. \A k \in Links : thread'[k] # Idle => thread[k] # Idle /\ thread'[k].m = thread[k].m
    BY <1>9, <2>3 DEF Write, TypeOK, Copy
  <2>6. \A m \in Message : Around(m)' => Around(m)
    BY <2>1, <2>3, <2>4, <2>5 DEF Around
  <2> QED
    BY <2>1, <2>2, <2>6, MessagesKept
<1>10. ASSUME NEW l \in Links, Confirm(l) PROVE MessagesInv' /\ LeaseInv'
  <2>1. UNCHANGED <<grant, report, uses, putting, lease, late, proc>>
    BY <1>10 DEF Confirm, client
  <2>2. LeaseInv'
    BY <2>1 DEF LeaseInv, LeaseOver
  <2>4. \A n \in Nodes : box'[n] \subseteq box[n]
    BY <1>10 DEF Confirm, Collect, TypeOK
  <2>5. \A k \in Links : thread'[k] # Idle => thread'[k] = thread[k]
    BY <1>10 DEF Confirm, TypeOK
  <2>6. \A m \in Message : Around(m)' => Around(m)
    BY <2>1, <2>4, <2>5 DEF Around
  <2> QED
    BY <2>1, <2>2, <2>6, MessagesKept
<1>11. ASSUME NEW l \in Links, Break(l) PROVE MessagesInv' /\ LeaseInv'
  <2>1. UNCHANGED <<grant, report, uses, putting, lease, late, proc, box>>
    BY <1>11 DEF Break, client
  <2>2. LeaseInv'
    BY <2>1 DEF LeaseInv, LeaseOver
  <2>5. \A k \in Links : thread'[k] # Idle => thread'[k] = thread[k]
    BY <1>11 DEF Break, TypeOK
  <2>6. \A m \in Message : Around(m)' => Around(m)
    BY <2>1, <2>5 DEF Around
  <2> QED
    BY <2>1, <2>2, <2>6, MessagesKept
<1>12. ASSUME NEW m \in Message, Put(m) PROVE MessagesInv' /\ LeaseInv'
  <2>1. UNCHANGED <<grant, report, uses, lease, late, proc, thread>>
    BY <1>12 DEF Put, client
  <2>2. LeaseInv'
    BY <2>1 DEF LeaseInv, LeaseOver
  <2>3. m \in putting /\ putting' \subseteq putting
    BY <1>12 DEF Put
  <2>4. \A n \in Nodes : \A k \in box'[n] \ box[n] : k = m
    BY <1>12 DEF Put, PutFile, TypeOK
  <2>6. \A k \in Message : Around(k)' => Around(k)
    BY <2>1, <2>3, <2>4 DEF Around
  <2> QED
    BY <2>1, <2>2, <2>6, MessagesKept
<1>13. ASSUME NEW m \in Message, PutLost(m) PROVE MessagesInv' /\ LeaseInv'
  <2>1. UNCHANGED <<grant, report, uses, lease, late, proc, thread, box>>
    BY <1>13 DEF PutLost, client
  <2>2. LeaseInv'
    BY <2>1 DEF LeaseInv, LeaseOver
  <2>6. \A k \in Message : Around(k)' => Around(k)
    BY <1>13, <2>1 DEF Around, PutLost
  <2> QED
    BY <2>1, <2>2, <2>6, MessagesKept
<1>14. ASSUME NEW m \in Message, Expire(m) PROVE MessagesInv' /\ LeaseInv'
  <2>1. UNCHANGED <<grant, report, uses, putting, lease, proc, thread>> /\ late \subseteq late'
    BY <1>14 DEF Expire, client
  <2>2. LeaseInv'
    BY <2>1 DEF LeaseInv, LeaseOver
  <2>4. \A n \in Nodes : box'[n] \subseteq box[n]
    BY <1>14 DEF Expire, TypeOK
  <2>6. \A k \in Message : Around(k)' => Around(k)
    BY <2>1, <2>4 DEF Around
  <2> QED
    BY <2>1, <2>2, <2>6, MessagesKept
<1>15. ASSUME NEW m \in Message, HandleAck(m) PROVE MessagesInv' /\ LeaseInv'
  <2>1. UNCHANGED <<grant, report, uses, putting, lease, late, proc, thread>>
    BY <1>15 DEF HandleAck, client
  <2>2. LeaseInv'
    BY <2>1 DEF LeaseInv, LeaseOver
  <2>4. \A n \in Nodes : box'[n] \subseteq box[n]
    BY <1>15 DEF HandleAck, TypeOK
  <2>6. \A k \in Message : Around(k)' => Around(k)
    BY <2>1, <2>4 DEF Around
  <2> QED
    BY <2>1, <2>2, <2>6, MessagesKept
<1>16. ASSUME NEW m \in Message, NEW p \in Procs, HandleRequest(p, m)
       PROVE  MessagesInv' /\ LeaseInv'
  <2>1. UNCHANGED <<grant, report, uses, putting, box, late, thread>>
    BY <1>16 DEF HandleRequest, client
  <2>2. \A r \in Requests :
          \/ lease'[r] = Journal[r]
          \/ r = m.id /\ Journal[r] = "none" /\ lease'[r] = "open"
    BY <1>16, <1>id DEF HandleRequest, Journal, TypeOK
  <2>3. lease'[m.id] # "none"
    BY <1>16, <1>id DEF HandleRequest, Journal, TypeOK
  <2>4. \A r \in Requests : lease[r] # "none" => lease'[r] # "none"
    BY <2>2, JournalFacts
  <2>5. LeaseInv'
    BY <2>1, <2>2, <2>4, JournalFacts DEF LeaseInv, LeaseOver
  <2>6. \A k \in Message : Around(k)' = Around(k)
    BY <2>1 DEF Around
  <2>7. \A q \in Procs : proc'[q] = proc[q] \/ proc'[q].m = m
    BY <1>16 DEF HandleRequest, Turn, TypeOK
  <2>8. \A q \in Procs : proc[q].at = "answer" => proc[q].m.id \in Requests
    <3>1. \A q \in Procs : proc[q] \in Work \cup {Idle}
      BY <1>id DEF TypeOK
    <3>2. QED
      BY <3>1, <1>id DEF Work, Idle, Message
  <2>9. \A q \in Procs : proc'[q].at = "answer" => lease'[proc'[q].m.id] # "none"
    BY <2>3, <2>4, <2>7, <2>8 DEF MessagesInv
  <2>10. \A k \in Message : Around(k)' =>
          /\ k.type = "settlement" => report'[k.id] # "none"
          /\ k.type = "grant" => lease'[k.id] # "none"
    BY <1>id, <2>1, <2>4, <2>6 DEF MessagesInv
  <2> QED
    BY <2>5, <2>9, <2>10 DEF MessagesInv
<1>17. ASSUME NEW m \in Message, NEW p \in Procs, HandleGrant(p, m)
       PROVE  MessagesInv' /\ LeaseInv'
  <2>1. UNCHANGED <<report, uses, putting, lease, box, late, thread>>
    BY <1>17 DEF HandleGrant
  <2>2. lease[m.id] # "none"
    <3>1. m.type = "grant" /\ NodeOf(p) \in Nodes /\ m \in box[NodeOf(p)]
      BY <1>17 DEF HandleGrant, Inbox, NodeOf, Nodes
    <3> QED
      BY <3>1 DEF MessagesInv, Around
  <2>3. \A r \in Requests : grant'[r] = grant[r] \/ (r = m.id /\ grant[r] = "none")
    BY <1>17, <1>id DEF HandleGrant, TypeOK
  <2>4. LeaseInv'
    BY <2>1, <2>2, <2>3 DEF LeaseInv, LeaseOver
  <2>5. \A q \in Procs : proc'[q] = proc[q] \/ proc'[q].at # "answer"
    BY <1>17 DEF HandleGrant, Turn, TypeOK
  <2>6. \A k \in Message : Around(k)' => Around(k)
    BY <2>1 DEF Around
  <2> QED
    BY <2>1, <2>4, <2>5, <2>6, MessagesKept
<1>18. ASSUME NEW m \in Message, NEW p \in Procs, HandleSettlement(p, m)
       PROVE  MessagesInv' /\ LeaseInv'
  <2>1. UNCHANGED <<grant, report, uses, putting, box, late, thread>>
    BY <1>18 DEF HandleSettlement, client
  <2>2. report[m.id] # "none" /\ report[m.id] \in Outcomes /\ uses[m.id] = 1
    <3>1. m.type = "settlement" /\ NodeOf(p) \in Nodes /\ m \in box[NodeOf(p)]
      BY <1>18 DEF HandleSettlement, Inbox, NodeOf, Nodes
    <3>2. report[m.id] # "none"
      BY <3>1 DEF MessagesInv, Around
    <3> QED
      BY <1>id, <3>2 DEF LeaseInv, TypeOK
  <2>3. \A r \in Requests :
          \/ lease'[r] = Journal[r]
          \/ r = m.id /\ lease'[r] = report[r]
    BY <1>18, <1>id DEF HandleSettlement, Journal, TypeOK
  <2>4. \A r \in Requests : lease[r] # "none" => lease'[r] # "none"
    BY <2>2, <2>3, JournalFacts
  <2>5. LeaseInv'
    BY <2>1, <2>2, <2>3, <2>4, JournalFacts DEF LeaseInv, LeaseOver
  <2>6. \A q \in Procs : proc'[q] = proc[q] \/ proc'[q].at # "answer"
    BY <1>18 DEF HandleSettlement, Turn, TypeOK
  <2>7. \A k \in Message : Around(k)' => Around(k)
    BY <2>1 DEF Around
  <2> QED
    BY <2>1, <2>4, <2>5, <2>6, <2>7, MessagesKept
<1>19. ASSUME NEW m \in Message, NEW p \in Procs, RefuseRequest(p, m)
       PROVE  MessagesInv' /\ LeaseInv'
  <2>1. UNCHANGED <<grant, report, uses, putting, box, late, thread, proc>> /\ lease' = Journal
    BY <1>19 DEF RefuseRequest, client
  <2>2. LeaseInv'
    BY <2>1, JournalFacts DEF LeaseInv, LeaseOver
  <2>3. \A k \in Message : Around(k)' => Around(k)
    BY <2>1 DEF Around
  <2> QED
    BY <2>1, <2>2, <2>3, JournalFacts, MessagesKept
<1>20. ASSUME NEW m \in Message, NEW l \in Links, Read(l, m) PROVE MessagesInv' /\ LeaseInv'
  <2>1. UNCHANGED <<grant, report, uses, putting, lease, late, proc, box>>
    BY <1>20 DEF Read, client
  <2>2. LeaseInv'
    BY <2>1 DEF LeaseInv, LeaseOver
  <2>3. Around(m)
    BY <1>20 DEF Read, Ends, Around
  <2>4. \A k \in Links : thread'[k] = thread[k] \/ thread'[k].m = m
    BY <1>20 DEF Read, TypeOK
  <2>5. \A k \in Message : Around(k)' => Around(k)
    BY <2>1, <2>3, <2>4 DEF Around
  <2> QED
    BY <2>1, <2>2, <2>5, MessagesKept
<1>21. CASE AdvanceEpoch \/ (\E n \in {"client", "authority"} : Refresh(n)) \/ UNCHANGED vars
  <2>1. UNCHANGED <<grant, report, uses, putting, lease, late, proc, box, thread>>
    BY <1>21 DEF AdvanceEpoch, Refresh, client, vars
  <2> QED
    BY <2>1 DEF MessagesInv, Around, LeaseInv, LeaseOver
<1> QED
  BY <1>1, <1>2, <1>3, <1>4, <1>5, <1>6, <1>7, <1>8, <1>9, <1>10, <1>11, <1>12, <1>13,
     <1>14, <1>15, <1>16, <1>17, <1>18, <1>19, <1>20, <1>21
     DEF Next, Finish, Handle

-----------------------------------------------------------------------------
(* Copies.                                                                  *)

\* A step keeps unprocessed messages somewhere: only processed ones are
\* dropped, and a copy is collected only when the recipient has the message.
LEMMA CopiesStep ==
  TypeOK /\ TypeOK' /\ CopiesInv /\ NotLost /\ [Next]_vars => CopiesInv' /\ NotLost'
<1> SUFFICES ASSUME TypeOK, TypeOK', CopiesInv, NotLost, [Next]_vars
             PROVE  CopiesInv' /\ NotLost'
  OBVIOUS
<1> USE ExchangeAssumption, MessageFacts
<1>1. CASE \/ Ask \/ AskAgain \/ Use \/ Replace \/ AdvanceEpoch
           \/ \E r \in Requests, o \in Outcomes : Settle(r, o)
           \/ \E m \in Message : PutLost(m)
           \/ \E p \in Procs, m \in Message : RefuseRequest(p, m)
           \/ \E n \in {"client", "authority"} : Refresh(n)
           \/ UNCHANGED vars
  <2>1. UNCHANGED <<box, late, proc, thread, sent, done>>
    BY <1>1 DEF Ask, AskAgain, Use, Replace, Settle, PutLost, RefuseRequest, AdvanceEpoch,
                Refresh, vars
  <2> QED
    BY <2>1 DEF CopiesInv, NotLost
<1>2. ASSUME NEW p \in Procs, Answer(p) PROVE CopiesInv' /\ NotLost'
  <2>1. UNCHANGED <<late, thread>> /\ done \subseteq done'
    BY <1>2 DEF Answer
  <2>2. \A n \in Nodes : box[n] \subseteq box'[n]
    BY <1>2 DEF Answer, PutFile, TypeOK
  <2>3. \A q \in Procs : proc'[q].at = "drop" => proc'[q].m \in done'
    <3> SUFFICES ASSUME NEW q \in Procs, proc'[q].at = "drop" PROVE proc'[q].m \in done'
      OBVIOUS
    <3>1. CASE q = p
      BY <1>2, <3>1 DEF Answer, Turn, Stop, Idle, TypeOK
    <3>2. CASE q # p
      BY <1>2, <2>1, <3>2 DEF Answer, Turn, Stop, TypeOK, CopiesInv
    <3> QED
      BY <3>1, <3>2
  <2>4. \A l \in Links : thread[l].at = "ack" => thread[l].to \in Nodes
    BY DEF TypeOK, Copy, Idle
  <2>5. sent' \subseteq sent \cup (box'["authority"])
    BY <1>2 DEF Answer, PutFile, TypeOK, Nodes
  <2>6. NotLost'
    BY <2>1, <2>2, <2>5 DEF NotLost, Nodes
  <2> QED
    BY <2>1, <2>2, <2>3, <2>4, <2>6 DEF CopiesInv
<1>3. ASSUME NEW p \in Procs, Discard(p) PROVE CopiesInv' /\ NotLost'
  <2>1. UNCHANGED <<late, thread, sent, done>> /\ proc[p].m \in done
    BY <1>3 DEF Discard, CopiesInv
  <2>2. \A n \in Nodes : \A m \in box[n] \ box'[n] : m \in done
    BY <1>3, <2>1 DEF Discard, TypeOK
  <2>3. \A q \in Procs : proc'[q] = proc[q] \/ proc'[q].at # "drop"
    BY <1>3 DEF Discard, Stop, Idle, TypeOK
  <2>4. \A l \in Links : thread[l].at = "ack" => thread[l].to \in Nodes
    BY DEF TypeOK, Copy, Idle
  <2> QED
    BY <2>1, <2>2, <2>3, <2>4 DEF CopiesInv, NotLost
<1>4. ASSUME NEW p \in Procs, Die(p) PROVE CopiesInv' /\ NotLost'
  <2>1. UNCHANGED <<late, thread, sent, done, box>>
    BY <1>4 DEF Die
  <2>3. \A q \in Procs : proc'[q] = proc[q] \/ proc'[q].at # "drop"
    BY <1>4 DEF Die, Stop, Idle, TypeOK
  <2> QED
    BY <2>1, <2>3 DEF CopiesInv, NotLost
<1>5. ASSUME NEW l \in Links, Write(l) PROVE CopiesInv' /\ NotLost'
  <2>1. UNCHANGED <<late, proc, sent, done>>
    BY <1>5 DEF Write
  <2>2. \A n \in Nodes : box[n] \subseteq box'[n]
    BY <1>5 DEF Write, PutFile, TypeOK
  <2>3. thread[l] \in Copy /\ thread[l] # Idle
    BY <1>5 DEF Write, TypeOK, Idle
  <2>4. thread[l].m \in box'[thread[l].to] \cup late
    BY <1>5, <2>3 DEF Write, PutFile, TypeOK, Copy
  <2>5. \A k \in Links \ {l} : thread'[k] = thread[k]
    BY <1>5 DEF Write, TypeOK
  <2>6. \/ thread'[l] = Idle
        \/ /\ thread'[l].m = thread[l].m /\ thread'[l].to = thread[l].to
           /\ thread'[l].from = thread[l].from
    BY <1>5, <2>3 DEF Write, TypeOK, Copy
  <2>7. \A k \in Links : thread[k].at = "ack" => thread[k].to \in Nodes
    BY DEF TypeOK, Copy, Idle
  <2>8. NotLost'
    BY <2>1, <2>2 DEF NotLost
  <2>9. \A k \in Links : thread'[k] # Idle => thread'[k].from # thread'[k].to
    BY <2>3, <2>5, <2>6 DEF CopiesInv
  <2>10. ASSUME NEW k \in Links, thread'[k].at = "ack", thread'[k].to = Recipient(thread'[k].m)
         PROVE  thread'[k].m \in box'[thread'[k].to] \cup done' \cup late'
    <3>1. CASE k = l
      BY <2>1, <2>4, <2>6, <2>10, <3>1 DEF Idle
    <3>2. CASE k # l
      <4>1. thread[k].m \in box[thread[k].to] \cup done \cup late /\ thread[k].to \in Nodes
        BY <2>5, <2>7, <2>10, <3>2 DEF CopiesInv
      <4> QED
        BY <2>1, <2>2, <2>5, <3>2, <4>1
    <3> QED
      BY <3>1, <3>2
  <2> QED
    BY <2>1, <2>8, <2>9, <2>10 DEF CopiesInv
<1>6. ASSUME NEW l \in Links, Confirm(l) PROVE CopiesInv' /\ NotLost'
  <2>1. UNCHANGED <<late, proc, sent, done>>
    BY <1>6 DEF Confirm
  <2>2. thread[l] \in Copy /\ thread[l] # Idle /\ thread[l].at = "ack"
    BY <1>6 DEF Confirm, TypeOK, Idle
  <2>3. /\ thread[l].m \in Message /\ thread[l].to \in Nodes /\ thread[l].from \in Nodes
        /\ thread[l].from # thread[l].to
    BY <2>2 DEF Copy, CopiesInv
  \* Only a copy at another node than the recipient is collected.
  <2>4. \A n \in Nodes : \A m \in box[n] \ box'[n] :
          /\ m = thread[l].m /\ n # Recipient(m)
          /\ m \in box'[Recipient(m)] \cup done \cup late
    <3> SUFFICES ASSUME NEW n \in Nodes, NEW m \in box[n] \ box'[n]
                 PROVE  /\ m = thread[l].m /\ n # Recipient(m)
                        /\ m \in box'[Recipient(m)] \cup done \cup late
      OBVIOUS
    <3>1. m = thread[l].m /\ n = thread[l].from /\ thread[l].to = Recipient(m)
      BY <1>6, <2>3 DEF Confirm, Collect, TypeOK
    <3>2. box'[thread[l].to] = box[thread[l].to]
      BY <1>6, <2>3 DEF Confirm, Collect, TypeOK
    <3>3. m \in box[Recipient(m)] \cup done \cup late
      BY <2>2, <3>1 DEF CopiesInv
    <3> QED
      BY <2>3, <3>1, <3>2, <3>3
  <2>5. \A k \in Links : thread'[k] = thread[k] \/ thread'[k] = Idle
    BY <1>6 DEF Confirm, TypeOK
  <2>6. NotLost'
    BY <2>1, <2>3, <2>4 DEF NotLost
  <2>7. ASSUME NEW k \in Links, thread'[k].at = "ack", thread'[k].to = Recipient(thread'[k].m)
        PROVE  thread'[k].m \in box'[thread'[k].to] \cup done' \cup late'
    <3>1. thread'[k] = thread[k] /\ thread[k] \in Copy
      BY <2>5, <2>7 DEF Idle, TypeOK
    <3>2. thread[k].to \in Nodes /\ thread[k].m \in box[thread[k].to] \cup done \cup late
      BY <2>7, <3>1 DEF CopiesInv, Copy
    <3> QED
      BY <2>1, <2>4, <2>7, <3>1, <3>2
  <2>8. \A k \in Links : thread'[k] # Idle => thread'[k].from # thread'[k].to
    BY <2>5 DEF CopiesInv
  <2> QED
    BY <2>1, <2>6, <2>7, <2>8 DEF CopiesInv
<1>7. ASSUME NEW l \in Links, Break(l) PROVE CopiesInv' /\ NotLost'
  <2>1. UNCHANGED <<late, proc, sent, done, box>>
    BY <1>7 DEF Break
  <2>2. \A k \in Links : thread'[k] = thread[k] \/ thread'[k] = Idle
    BY <1>7 DEF Break, TypeOK
  <2> QED
    BY <2>1, <2>2 DEF CopiesInv, NotLost, Idle
<1>8. ASSUME NEW m \in Message, Put(m) PROVE CopiesInv' /\ NotLost'
  <2>1. UNCHANGED <<late, proc, thread, done>>
    BY <1>8 DEF Put
  <2>2. \A n \in Nodes : box[n] \subseteq box'[n]
    BY <1>8 DEF Put, PutFile, TypeOK
  <2>3. sent' \subseteq sent \cup box'["client"]
    BY <1>8 DEF Put, PutFile, TypeOK, Nodes
  <2>4. \A l \in Links : thread[l].at = "ack" => thread[l].to \in Nodes
    BY DEF TypeOK, Copy, Idle
  <2>5. NotLost'
    BY <2>1, <2>2, <2>3 DEF NotLost, Nodes
  <2> QED
    BY <2>1, <2>2, <2>4, <2>5 DEF CopiesInv
<1>9. ASSUME NEW m \in Message, Expire(m) PROVE CopiesInv' /\ NotLost'
  <2>1. UNCHANGED <<proc, thread, sent, done>> /\ late' = late \cup {m}
    BY <1>9 DEF Expire
  <2>2. \A n \in Nodes : box[n] \subseteq box'[n] \cup late'
    BY <1>9 DEF Expire
  <2>4. \A l \in Links : thread[l].at = "ack" => thread[l].to \in Nodes
    BY DEF TypeOK, Copy, Idle
  <2>5. NotLost'
    BY <2>1, <2>2 DEF NotLost
  <2> QED
    BY <2>1, <2>2, <2>4, <2>5 DEF CopiesInv
<1>10. ASSUME NEW m \in Message, HandleAck(m) PROVE CopiesInv' /\ NotLost'
  <2>1. UNCHANGED <<late, proc, thread, sent, done>>
    BY <1>10 DEF HandleAck
  <2>2. \A n \in Nodes : \A k \in box[n] \ box'[n] : k \in done
    BY <1>10 DEF HandleAck, TypeOK
  <2>4. \A l \in Links : thread[l].at = "ack" => thread[l].to \in Nodes
    BY DEF TypeOK, Copy, Idle
  <2> QED
    BY <2>1, <2>2, <2>4 DEF CopiesInv, NotLost
<1>11. ASSUME NEW m \in Message, NEW p \in Procs, HandleRequest(p, m)
       PROVE  CopiesInv' /\ NotLost'
  <2>1. UNCHANGED <<late, thread, sent, done, box>>
    BY <1>11 DEF HandleRequest
  <2>2. \A q \in Procs : proc'[q] = proc[q] \/ proc'[q].at # "drop"
    BY <1>11 DEF HandleRequest, Turn, TypeOK
  <2> QED
    BY <2>1, <2>2 DEF CopiesInv, NotLost
<1>12. ASSUME NEW m \in Message, NEW p \in Procs, HandleGrant(p, m) \/ HandleSettlement(p, m)
       PROVE  CopiesInv' /\ NotLost'
  <2>1. UNCHANGED <<late, thread, sent, box>> /\ done' = done \cup {m}
    BY <1>12 DEF HandleGrant, HandleSettlement
  <2>2. \A q \in Procs : proc'[q] = proc[q] \/ proc'[q].m = m
    BY <1>12 DEF HandleGrant, HandleSettlement, Turn, TypeOK
  <2> QED
    BY <2>1, <2>2 DEF CopiesInv, NotLost
<1>13. ASSUME NEW m \in Message, NEW l \in Links, Read(l, m) PROVE CopiesInv' /\ NotLost'
  <2>1. UNCHANGED <<late, proc, sent, done, box>>
    BY <1>13 DEF Read
  <2>2. l[1] # l[2]
    OBVIOUS
  <2>3. \A k \in Links : \/ thread'[k] = thread[k]
                         \/ thread'[k].at = "put" /\ thread'[k].from # thread'[k].to
    BY <1>13, <2>2 DEF Read, Ends, TypeOK
  <2> QED
    BY <2>1, <2>3 DEF CopiesInv, NotLost
<1> QED
  BY <1>1, <1>2, <1>3, <1>4, <1>5, <1>6, <1>7, <1>8, <1>9, <1>10, <1>11, <1>12, <1>13
     DEF Next, Finish, Handle

-----------------------------------------------------------------------------
(* The theorems.                                                            *)

IInv == TypeOK /\ MessagesInv /\ LeaseInv /\ CopiesInv /\ NotLost

\* The inductive invariant holds initially.
LEMMA InvInit == Init => IInv
<1> SUFFICES ASSUME Init PROVE IInv
  OBVIOUS
<1>1. TypeOK
  BY TypeInit
<1>2. MessagesInv
  BY DEF Init, MessagesInv, Around, Idle
<1>3. LeaseInv
  BY ExchangeAssumption DEF Init, LeaseInv
<1>4. CopiesInv /\ NotLost
  BY DEF Init, CopiesInv, NotLost, Idle
<1> QED
  BY <1>1, <1>2, <1>3, <1>4 DEF IInv

\* Every step of the exchange preserves it.
LEMMA InvStep == IInv /\ [Next]_vars => IInv'
  BY TypeStep, ExchangeStep, CopiesStep DEF IInv

\* The records, mailboxes, turns and passes of the exchange stay well formed.
THEOREM ExchangeTyped == Spec => []TypeOK
<1>1. IInv => TypeOK
  BY DEF IInv
<1> QED
  BY InvInit, InvStep, <1>1, PTL DEF Spec

\* Whatever relays and links there are, a message that was put stays in some
\* mailbox until it has been processed or has expired.
THEOREM MessagesAreKept == Spec => []NotLost
<1>1. IInv => NotLost
  BY DEF IInv
<1> QED
  BY InvInit, InvStep, <1>1, PTL DEF Spec

\* The outcome the journal has for a lease is the one the client recorded,
\* of the only call it made with that lease.
THEOREM OutcomesAreTrue == Spec => []SettledTrue
<1>1. IInv => SettledTrue
  BY DEF IInv, LeaseInv, SettledTrue
<1> QED
  BY InvInit, InvStep, <1>1, PTL DEF Spec

\* A lease is used at most once, at a time when the journal has it as open.
THEOREM UsedLeasesAreOpen == Spec => UsedLeaseOpen
<1>1. IInv /\ [Next]_vars =>
        [\A r \in Requests : uses'[r] # uses[r] =>
            uses[r] = 0 /\ uses'[r] = 1 /\ lease[r] = "open"]_vars
  <2> SUFFICES ASSUME IInv, [Next]_vars, NEW r \in Requests, uses'[r] # uses[r]
               PROVE  uses[r] = 0 /\ uses'[r] = 1 /\ lease[r] = "open"
    OBVIOUS
  <2>1. Use
    BY DEF Next, Finish, Handle, Ask, AskAgain, Replace, Settle, Answer, Discard, Die, Write,
           Confirm, Break, Put, PutLost, Expire, HandleAck, HandleRequest, HandleGrant,
           HandleSettlement, RefuseRequest, Read, AdvanceEpoch, Refresh, client, vars
  <2>2. grant[r] = "held" /\ ~LeaseOver(r) /\ uses'[r] = uses[r] + 1
    BY <2>1 DEF Use, IInv, TypeOK
  <2>3. uses[r] = 0 /\ lease[r] # "none" /\ lease[r] # "expired" /\ lease[r] \notin Outcomes
    BY <2>2 DEF IInv, LeaseInv
  <2> QED
    BY <2>2, <2>3 DEF IInv, TypeOK
<1> QED
  BY InvInit, InvStep, <1>1, PTL DEF Spec, UsedLeaseOpen
=============================================================================
