--------------------------- MODULE Services_proofs ---------------------------
(***************************************************************************)
(* Proofs about the modules of one service each, as MCServices composes    *)
(* them: a step of the composition while a service is on is a step of that *)
(* service, so that an invariant of the service is one of the composition. *)
(***************************************************************************)
EXTENDS MCServices, FiniteSetTheorems, SequenceTheorems, WellFoundedInduction, TLAPS

(* Which service it is never changes.                                      *)
LEMMA ServiceStays ==
    ASSUME [Next]_vars
    PROVE  on' = on
BY DEF Next, vars

-----------------------------------------------------------------------------
(* Reordering: ranks written in one transaction                            *)

Replaced == [item : Items, rank : Ranks \cup {0}]

OrderRequests ==
    [step : {"idle", "read", "update", "delete"},
     body : Seq(Order!Entry), todo : Seq(Order!Entry), old : Seq(Replaced)]

OrderTypes ==
    /\ rank \in [Items -> Ranks \cup {0}] /\ agreed \in [Items -> Ranks \cup {0}]
    /\ lock \in [Items -> Clients \cup {Order!NoClient}]
    /\ request \in [Clients -> OrderRequests]

(* What a transaction has replaced and has to do is its body.              *)
Progress(q) ==
    /\ Len(q.old) + Len(q.todo) = Len(q.body)
    /\ \A n \in 1..Len(q.old) : q.old[n].item = q.body[n].item
    /\ \A n \in 1..Len(q.todo) : q.todo[n] = q.body[Len(q.old) + n]

(* It holds the rows it wrote, and can put back what was agreed.           *)
Holds(c, q) ==
    \A n \in 1..Len(q.old) :
        /\ lock[q.old[n].item] = c
        /\ rank[q.old[n].item] = q.body[n].rank
        /\ agreed[q.old[n].item] = q.old[n].rank

Transaction(c, q) ==
    /\ q.step \in {"read", "update"} => Order!Distinct(q.body)
    /\ q.step = "read" => q.old = <<>>
    /\ q.step = "update" => Progress(q) /\ Holds(c, q)
    /\ \A i \in Items :
          lock[i] = c => q.step = "update" /\ \E n \in 1..Len(q.old) : q.old[n].item = i

OrderInv ==
    /\ OrderTypes
    /\ \A c \in Clients : Transaction(c, request[c])
    /\ Order!ReorderIsSerial

(* The body of a request is a sequence of entries.                         *)
LEMMA BodiesAreSequences ==
    ASSUME NEW body \in Order!Bodies
    PROVE  body \in Seq(Order!Entry) /\ Order!Distinct(body)
<1>1. Order!Cardinality(Items) = Cardinality(Items)
    BY DEF Order!Cardinality, Cardinality
<1>2. IsFiniteSet(Items)
    BY ServicesAssumption DEF Order!ReorderingAssumption, Order!IsFiniteSet, IsFiniteSet
<1>3. PICK n \in {1, Cardinality(Items)} : body \in [1..n -> Order!Entry]
    BY <1>1 DEF Order!Bodies
<1>4. n \in Nat
    BY <1>2, <1>3, FS_CardinalityType
<1>5. QED
    BY <1>3, <1>4 DEF Order!Bodies

(* A transaction whose rows another request does not touch goes on.        *)
LEMMA OthersKeep ==
    ASSUME OrderTypes, OrderTypes', NEW d \in Clients, Transaction(d, request[d]),
           request'[d] = request[d],
           \A i \in Items : lock[i] = d => rank'[i] = rank[i] /\ agreed'[i] = agreed[i],
           \A i \in Items : lock'[i] = d <=> lock[i] = d
    PROVE  Transaction(d, request[d])'
<1>1. PICK q \in OrderRequests : q = request[d]
    BY DEF OrderTypes
<1>2. \A n \in 1..Len(q.old) : q.old[n].item \in Items
  <2>1. PICK old \in Seq(Replaced) : old = q.old
      BY DEF OrderRequests
  <2>2. \A n \in 1..Len(old) : old[n] \in Replaced
      OBVIOUS
  <2>3. QED
      BY <2>1, <2>2 DEF Replaced
<1>3. Transaction(d, q) /\ request'[d] = q
    BY <1>1
<1>4. ASSUME q.step = "update", NEW n \in 1..Len(q.old)
      PROVE  /\ lock'[q.old[n].item] = d
             /\ rank'[q.old[n].item] = q.body[n].rank
             /\ agreed'[q.old[n].item] = q.old[n].rank
    BY <1>2, <1>3, <1>4 DEF Transaction, Holds
<1>5. q.step = "update" => Progress(q)
    BY <1>3 DEF Transaction
<1>6. /\ q.step \in {"read", "update"} => Order!Distinct(q.body)
      /\ q.step = "read" => q.old = <<>>
    BY <1>3 DEF Transaction
<1>7. \A i \in Items :
          lock'[i] = d => q.step = "update" /\ \E n \in 1..Len(q.old) : q.old[n].item = i
    BY <1>3 DEF Transaction
<1>8. q.step = "update" => Holds(d, request[d])'
    BY <1>3, <1>4 DEF Holds
<1>9. QED
    BY <1>3, <1>5, <1>6, <1>7, <1>8 DEF Transaction

(* A request that begins or goes on without writing.                       *)
LEMMA OrderReads ==
    ASSUME OrderInv, NEW c \in Clients, NEW q \in OrderRequests, Order!GoTo(c, q),
           UNCHANGED <<rank, lock, agreed>>, Transaction(c, q)
    PROVE  OrderInv'
<1>1. /\ request' \in [Clients -> OrderRequests] /\ request'[c] = q
      /\ \A d \in Clients \ {c} : request'[d] = request[d]
    BY DEF OrderInv, OrderTypes, Order!GoTo
<1>2. OrderTypes'
    BY <1>1 DEF OrderInv, OrderTypes, OrderRequests
<1>3. Order!ReorderIsSerial'
    BY DEF OrderInv, Order!ReorderIsSerial
<1>4. ASSUME NEW d \in Clients PROVE Transaction(d, request[d])'
  <2>1. CASE d = c
    <3>1. request'[d] = q /\ Transaction(d, q)
        BY <1>1, <2>1
    <3>2. q.step = "update" => Holds(d, request[d])'
        BY <3>1 DEF Transaction, Holds
    <3>3. QED
        BY <3>1, <3>2 DEF Transaction
  <2>2. CASE d # c
      BY <1>1, <1>2, <2>2, OthersKeep DEF OrderInv
  <2>3. QED
      BY <2>1, <2>2
<1>5. QED
    BY <1>2, <1>3, <1>4 DEF OrderInv

(* No client has the name of no client.                                    *)
LEMMA ClientsAreNamed == Order!NoClient \notin Clients
BY ServicesAssumption DEF Order!ReorderingAssumption

(* What is known of the transaction of a request.                          *)
LEMMA InTransaction ==
    ASSUME OrderInv, NEW c \in Clients, Order!At(c, "update"), NEW q, q = request[c]
    PROVE  /\ q \in OrderRequests
           /\ q.body \in Seq(Order!Entry) /\ q.todo \in Seq(Order!Entry) /\ q.old \in Seq(Replaced)
           /\ Order!Distinct(q.body) /\ Progress(q) /\ Holds(c, q)
           /\ \A i \in Items : lock[i] = c => \E n \in 1..Len(q.old) : q.old[n].item = i
           /\ \A n \in 1..Len(q.old) : q.old[n].item \in Items
<1>1. q \in OrderRequests /\ Transaction(c, q) /\ q.step = "update"
    BY DEF OrderInv, OrderTypes, Order!At
<1>2. PICK old \in Seq(Replaced) : old = q.old
    BY <1>1 DEF OrderRequests
<1>3. \A n \in 1..Len(old) : old[n] \in Replaced
    BY <1>2
<1>4. \A n \in 1..Len(q.old) : q.old[n].item \in Items
    BY <1>2, <1>3 DEF Replaced
<1>5. q.body \in Seq(Order!Entry) /\ q.todo \in Seq(Order!Entry) /\ q.old \in Seq(Replaced)
    BY <1>1 DEF OrderRequests
<1>6. Order!Distinct(q.body) /\ Progress(q) /\ Holds(c, q)
    BY <1>1 DEF Transaction
<1>7. \A i \in Items : lock[i] = c => \E n \in 1..Len(q.old) : q.old[n].item = i
    BY <1>1 DEF Transaction
<1>8. QED
    BY <1>1, <1>4, <1>5, <1>6, <1>7

(* Writing one rank inside the transaction keeps the invariant.            *)
LEMMA RankUpdated ==
    ASSUME OrderInv, NEW c \in Clients, Order!UpdateRank(c)
    PROVE  OrderInv'
<1>1. PICK q : q = request[c]
    OBVIOUS
<1>2. /\ q \in OrderRequests
      /\ q.body \in Seq(Order!Entry) /\ q.todo \in Seq(Order!Entry) /\ q.old \in Seq(Replaced)
      /\ Order!Distinct(q.body) /\ Progress(q) /\ Holds(c, q)
      /\ \A i \in Items : lock[i] = c => \E n \in 1..Len(q.old) : q.old[n].item = i
      /\ \A n \in 1..Len(q.old) : q.old[n].item \in Items
  <2>1. Order!At(c, "update")
      BY DEF Order!UpdateRank
  <2>2. QED
      BY <1>1, <2>1, InTransaction
<1>3. PICK body, todo, old : body = q.body /\ todo = q.todo /\ old = q.old
    OBVIOUS
<1>4. /\ body \in Seq(Order!Entry) /\ todo \in Seq(Order!Entry) /\ old \in Seq(Replaced)
      /\ todo # <<>>
      /\ Len(old) + Len(todo) = Len(body)
      /\ \A n \in 1..Len(old) : old[n].item = body[n].item
      /\ \A n \in 1..Len(todo) : todo[n] = body[Len(old) + n]
    BY <1>1, <1>2, <1>3 DEF Progress, Order!UpdateRank
<1>5. PICK e : e = Head(todo)
    OBVIOUS
<1>6. e \in Order!Entry /\ e = body[Len(old) + 1] /\ Len(todo) > 0
  <2>1. Len(todo) > 0 /\ e = todo[1] /\ e \in Order!Entry
      BY <1>4, <1>5
  <2>2. QED
      BY <1>4, <2>1
<1>7. PICK o : o = [item |-> e.item, rank |-> rank[e.item]]
    OBVIOUS
<1>8. e.item \in Items /\ e.rank \in Ranks /\ o \in Replaced
    BY <1>6, <1>7 DEF Order!Entry, Replaced, OrderInv, OrderTypes
<1>9. PICK r : r = [q EXCEPT !.todo = Tail(todo), !.old = Append(old, o)]
    OBVIOUS
<1>10. /\ r \in OrderRequests /\ r.body = body /\ r.todo = Tail(todo) /\ r.old = Append(old, o)
       /\ r.step = q.step /\ q.step = "update"
  <2>1. Tail(todo) \in Seq(Order!Entry) /\ Append(old, o) \in Seq(Replaced)
      BY <1>4, <1>8
  <2>2. QED
      BY <1>1, <1>2, <1>3, <1>9, <2>1 DEF OrderRequests, Order!UpdateRank, Order!At
<1>11. /\ lock[e.item] = Order!NoClient
       /\ rank' = [rank EXCEPT ![e.item] = e.rank]
       /\ lock' = [lock EXCEPT ![e.item] = c]
       /\ Order!GoTo(c, r) /\ agreed' = agreed
    BY <1>1, <1>3, <1>5, <1>7, <1>9 DEF Order!UpdateRank
<1>12. /\ request' \in [Clients -> OrderRequests] /\ request'[c] = r
       /\ \A d \in Clients \ {c} : request'[d] = request[d]
    BY <1>10, <1>11 DEF OrderInv, OrderTypes, Order!GoTo
<1>13. /\ rank' \in [Items -> Ranks \cup {0}] /\ lock' \in [Items -> Clients \cup {Order!NoClient}]
       /\ rank'[e.item] = e.rank /\ lock'[e.item] = c
       /\ \A i \in Items \ {e.item} : rank'[i] = rank[i] /\ lock'[i] = lock[i]
    BY <1>8, <1>11 DEF OrderInv, OrderTypes
<1>14. OrderTypes'
    BY <1>11, <1>12, <1>13 DEF OrderInv, OrderTypes, OrderRequests
<1>15. /\ Len(r.old) = Len(old) + 1 /\ r.old[Len(old) + 1] = o
       /\ \A n \in 1..Len(old) : r.old[n] = old[n]
       /\ Len(r.todo) = Len(todo) - 1
       /\ \A n \in 1..(Len(todo) - 1) : r.todo[n] = todo[n + 1]
    BY <1>4, <1>6, <1>8, <1>10
<1>16. Len(old) \in Nat /\ Len(todo) \in Nat
    BY <1>4
<1>17. Progress(r)
  <2>1. Len(r.old) + Len(r.todo) = Len(r.body)
      BY <1>4, <1>10, <1>15, <1>16
  <2>2. \A n \in 1..Len(r.old) : r.old[n].item = r.body[n].item
    <3>1. SUFFICES ASSUME NEW n \in 1..Len(r.old) PROVE r.old[n].item = body[n].item
        BY <1>10
    <3>2. CASE n = Len(old) + 1
        BY <1>6, <1>7, <1>15, <3>2
    <3>3. CASE n \in 1..Len(old)
        BY <1>4, <1>15, <3>3
    <3>4. QED
        BY <1>15, <1>16, <3>2, <3>3
  <2>3. ASSUME NEW n \in 1..Len(r.todo) PROVE r.todo[n] = r.body[Len(r.old) + n]
    <3>1. n + 1 \in 1..Len(todo) /\ n \in 1..(Len(todo) - 1) /\ Len(old) + (n + 1) = Len(r.old) + n
        BY <1>15, <1>16, <2>3
    <3>2. r.todo[n] = body[Len(old) + (n + 1)]
        BY <1>4, <1>15, <3>1
    <3>3. QED
        BY <1>10, <3>1, <3>2
  <2>4. QED
      BY <2>1, <2>2, <2>3 DEF Progress
<1>18. rank[e.item] = agreed[e.item]
    BY <1>8, <1>11 DEF OrderInv, Order!ReorderIsSerial
<1>19. ASSUME NEW n \in 1..Len(r.old)
       PROVE  /\ lock'[r.old[n].item] = c
              /\ rank'[r.old[n].item] = r.body[n].rank
              /\ agreed'[r.old[n].item] = r.old[n].rank
  <2>1. CASE n = Len(old) + 1
    <3>1. r.old[n] = o /\ o.item = e.item /\ o.rank = rank[e.item] /\ r.body[n] = e
        BY <1>6, <1>7, <1>10, <1>15, <2>1
    <3>2. QED
        BY <1>11, <1>13, <1>18, <3>1
  <2>2. CASE n \in 1..Len(old)
    <3>1. /\ old[n].item \in Items /\ lock[old[n].item] = c
          /\ rank[old[n].item] = body[n].rank /\ agreed[old[n].item] = old[n].rank
        BY <1>2, <1>3, <2>2 DEF Holds
    <3>2. old[n].item # e.item
        BY <1>11, <3>1, ClientsAreNamed
    <3>3. QED
        BY <1>10, <1>11, <1>13, <1>15, <2>2, <3>1, <3>2
  <2>3. QED
      BY <1>15, <1>16, <2>1, <2>2
<1>20. ASSUME NEW i \in Items, lock'[i] = c
       PROVE  \E n \in 1..Len(r.old) : r.old[n].item = i
  <2>1. CASE i = e.item
      BY <1>7, <1>15, <1>16, <2>1
  <2>2. CASE i # e.item
    <3>1. PICK n \in 1..Len(old) : old[n].item = i
        BY <1>2, <1>3, <1>13, <1>20, <2>2
    <3>2. n \in 1..Len(r.old) /\ r.old[n].item = i
        BY <1>15, <1>16, <3>1
    <3>3. QED
        BY <3>2
  <2>3. QED
      BY <2>1, <2>2
<1>21. ASSUME NEW d \in Clients PROVE Transaction(d, request[d])'
  <2>1. CASE d = c
    <3>1. Order!Distinct(r.body) /\ r.step = "update"
        BY <1>2, <1>3, <1>10
    <3>2. request'[d] = r
        BY <1>12, <2>1
    <3>3. Holds(d, request[d])'
        BY <1>19, <2>1, <3>2 DEF Holds
    <3>4. /\ Order!Distinct(request'[d].body) /\ Progress(request'[d])
          /\ request'[d].step = "update"
        BY <1>17, <3>1, <3>2
    <3>5. \A i \in Items : lock'[i] = d =>
              \E n \in 1..Len(request'[d].old) : request'[d].old[n].item = i
        BY <1>20, <2>1, <3>2
    <3>6. QED
        BY <3>3, <3>4, <3>5 DEF Transaction
  <2>2. CASE d # c
    <3>1. Transaction(d, request[d]) /\ request'[d] = request[d]
        BY <1>12, <2>2 DEF OrderInv
    <3>2. \A i \in Items : lock'[i] = d <=> lock[i] = d
        BY <1>11, <1>13, <2>2, ClientsAreNamed
    <3>3. \A i \in Items : lock[i] = d => rank'[i] = rank[i] /\ agreed'[i] = agreed[i]
        BY <1>11, <1>13, ClientsAreNamed
    <3>4. QED
        BY <1>14, <3>1, <3>2, <3>3, OthersKeep DEF OrderInv
  <2>3. QED
      BY <2>1, <2>2
<1>22. Order!ReorderIsSerial'
    BY <1>11, <1>13, ClientsAreNamed DEF OrderInv, Order!ReorderIsSerial
<1>23. QED
    BY <1>14, <1>21, <1>22 DEF OrderInv

(* What is written over ranks: those of the items that are named, each of  *)
(* them once.                                                              *)
LEMMA OverWrites ==
    ASSUME NEW ranks \in [Items -> Ranks \cup {0}],
           NEW body \in Seq(Replaced), Order!Distinct(body)
    PROVE  /\ Order!Over(ranks, body) \in [Items -> Ranks \cup {0}]
           /\ \A n \in 1..Len(body) :
                 body[n].item \in Items /\ Order!Over(ranks, body)[body[n].item] = body[n].rank
           /\ \A i \in Items : (\A n \in 1..Len(body) : body[n].item # i) =>
                 Order!Over(ranks, body)[i] = ranks[i]
<1>1. DOMAIN body = 1..Len(body) /\ \A n \in 1..Len(body) : body[n] \in Replaced
    OBVIOUS
<1>2. \A n \in 1..Len(body) : body[n].item \in Items /\ body[n].rank \in Ranks \cup {0}
    BY <1>1 DEF Replaced
<1>3. \A n, m \in 1..Len(body) : body[n].item = body[m].item => n = m
    BY <1>1 DEF Order!Distinct
<1>4. ASSUME NEW i \in Items, NEW n \in 1..Len(body), body[n].item = i
      PROVE  Order!Over(ranks, body)[i] = body[n].rank
  <2>1. n = CHOOSE m \in DOMAIN body : body[m].item = i
      BY <1>1, <1>3, <1>4
  <2>2. i \in Order!Named(body)
      BY <1>1, <1>4 DEF Order!Named
  <2>3. QED
      BY <2>1, <2>2 DEF Order!Over
<1>5. ASSUME NEW i \in Items, \A n \in 1..Len(body) : body[n].item # i
      PROVE  Order!Over(ranks, body)[i] = ranks[i]
  <2>1. i \notin Order!Named(body)
      BY <1>1, <1>5 DEF Order!Named
  <2>2. QED
      BY <2>1 DEF Order!Over
<1>6. ASSUME NEW i \in Items PROVE Order!Over(ranks, body)[i] \in Ranks \cup {0}
  <2>1. CASE \A n \in 1..Len(body) : body[n].item # i
      BY <1>5, <2>1
  <2>2. ASSUME NEW n \in 1..Len(body), body[n].item = i
        PROVE  Order!Over(ranks, body)[i] \in Ranks \cup {0}
      BY <1>2, <1>4, <2>2
  <2>3. QED
      BY <2>1, <2>2
<1>7. Order!Over(ranks, body) = [i \in Items |-> Order!Over(ranks, body)[i]]
    BY DEF Order!Over
<1>8. Order!Over(ranks, body) \in [Items -> Ranks \cup {0}]
    BY <1>6, <1>7
<1>9. QED
    BY <1>2, <1>4, <1>5, <1>8

(* A request that ends frees its rows, and what it leaves of them is       *)
(* agreed.                                                                 *)
LEMMA OrderEnds ==
    ASSUME OrderInv, NEW c \in Clients, Order!Unlock(c), Order!GoTo(c, Order!Idle),
           rank' \in [Items -> Ranks \cup {0}], agreed' \in [Items -> Ranks \cup {0}],
           \A i \in Items : lock[i] # c => rank'[i] = rank[i] /\ agreed'[i] = agreed[i],
           \A i \in Items : lock[i] = c => rank'[i] = agreed'[i]
    PROVE  OrderInv'
<1>1. /\ Order!Idle \in OrderRequests /\ Order!Idle.step = "idle"
    BY DEF Order!Idle, OrderRequests
<1>2. /\ request' \in [Clients -> OrderRequests] /\ request'[c] = Order!Idle
      /\ \A d \in Clients \ {c} : request'[d] = request[d]
    BY <1>1 DEF OrderInv, OrderTypes, Order!GoTo
<1>3. /\ lock' \in [Items -> Clients \cup {Order!NoClient}]
      /\ \A i \in Items : lock'[i] = IF lock[i] = c THEN Order!NoClient ELSE lock[i]
    BY DEF OrderInv, OrderTypes, Order!Unlock
<1>4. OrderTypes'
    BY <1>2, <1>3 DEF OrderTypes, OrderRequests
<1>5. ASSUME NEW d \in Clients PROVE Transaction(d, request[d])'
  <2>1. CASE d = c
    <3>1. \A i \in Items : lock'[i] # d
        BY <1>3, <2>1, ClientsAreNamed
    <3>2. request'[d].step = "idle"
        BY <1>1, <1>2, <2>1
    <3>3. QED
        BY <3>1, <3>2 DEF Transaction
  <2>2. CASE d # c
    <3>1. \A i \in Items : lock'[i] = d <=> lock[i] = d
        BY <1>3, <2>2, ClientsAreNamed
    <3>2. Transaction(d, request[d]) /\ request'[d] = request[d] /\ OrderTypes
        BY <1>2, <2>2 DEF OrderInv
    <3>3. \A i \in Items : lock[i] = d => rank'[i] = rank[i] /\ agreed'[i] = agreed[i]
        BY <2>2
    <3>4. QED
        BY <1>4, <3>1, <3>2, <3>3, OthersKeep
  <2>3. QED
      BY <2>1, <2>2
<1>6. Order!ReorderIsSerial'
    BY <1>3 DEF OrderInv, Order!ReorderIsSerial
<1>7. QED
    BY <1>4, <1>5, <1>6 DEF OrderInv

(* Committing a reorder keeps the invariant: its ranks are the agreed      *)
(* order.                                                                  *)
LEMMA ReorderCommitted ==
    ASSUME OrderInv, NEW c \in Clients, Order!Commit(c)
    PROVE  OrderInv'
<1>1. PICK q : q = request[c]
    OBVIOUS
<1>2. /\ q.body \in Seq(Order!Entry) /\ q.todo = <<>> /\ q.old \in Seq(Replaced)
      /\ Order!Distinct(q.body) /\ Progress(q) /\ Holds(c, q)
      /\ \A i \in Items : lock[i] = c => \E n \in 1..Len(q.old) : q.old[n].item = i
  <2>1. Order!At(c, "update") /\ request[c].todo = <<>>
      BY DEF Order!Commit
  <2>2. QED
      BY <1>1, <2>1, InTransaction
<1>3. PICK body, old : body = q.body /\ old = q.old
    OBVIOUS
<1>4. /\ body \in Seq(Replaced) /\ old \in Seq(Replaced) /\ Len(old) = Len(body)
      /\ \A n \in 1..Len(body) : old[n].item = body[n].item
  <2>1. Order!Entry \subseteq Replaced
      BY DEF Order!Entry, Replaced
  <2>2. body \in Seq(Replaced) /\ old \in Seq(Replaced)
      BY <1>2, <1>3, <2>1
  <2>3. Len(q.todo) = 0
      BY <1>2
  <2>4. QED
      BY <1>2, <1>3, <2>2, <2>3 DEF Progress
<1>5. PICK ranks : ranks = agreed
    OBVIOUS
<1>6. ranks \in [Items -> Ranks \cup {0}]
    BY <1>5 DEF OrderInv, OrderTypes
<1>7. /\ agreed' = Order!Over(ranks, body) /\ rank' = rank
      /\ Order!Unlock(c) /\ Order!GoTo(c, Order!Idle)
    BY <1>1, <1>3, <1>5 DEF Order!Commit
<1>8. /\ agreed' \in [Items -> Ranks \cup {0}]
      /\ \A n \in 1..Len(body) : agreed'[body[n].item] = body[n].rank
      /\ \A i \in Items : (\A n \in 1..Len(body) : body[n].item # i) => agreed'[i] = agreed[i]
  <2>1. Order!Distinct(body)
      BY <1>2, <1>3
  <2>2. QED
      BY <1>4, <1>5, <1>6, <1>7, <2>1, OverWrites
<1>9. \A n \in 1..Len(body) : lock[body[n].item] = c /\ rank[body[n].item] = body[n].rank
    BY <1>2, <1>3, <1>4 DEF Holds
<1>10. \A i \in Items : lock[i] # c => agreed'[i] = agreed[i]
    BY <1>8, <1>9
<1>11. \A i \in Items : lock[i] = c => rank'[i] = agreed'[i]
  <2>1. SUFFICES ASSUME NEW i \in Items, lock[i] = c PROVE rank[i] = agreed'[i]
      BY <1>7
  <2>2. PICK n \in 1..Len(body) : body[n].item = i
      BY <1>2, <1>3, <1>4, <2>1
  <2>3. QED
      BY <1>8, <1>9, <2>2
<1>12. rank' \in [Items -> Ranks \cup {0}]
    BY <1>7 DEF OrderInv, OrderTypes
<1>13. QED
    BY <1>7, <1>8, <1>10, <1>11, <1>12, OrderEnds

(* Rolling a reorder back restores the ranks, and so keeps the invariant.  *)
LEMMA ReorderRolledBack ==
    ASSUME OrderInv, NEW c \in Clients, Order!At(c, "update"), Order!RollBack(c), agreed' = agreed
    PROVE  OrderInv'
<1>1. PICK q : q = request[c]
    OBVIOUS
<1>2. /\ q.body \in Seq(Order!Entry) /\ q.todo \in Seq(Order!Entry) /\ q.old \in Seq(Replaced)
      /\ Order!Distinct(q.body) /\ Progress(q) /\ Holds(c, q)
      /\ \A i \in Items : lock[i] = c => \E n \in 1..Len(q.old) : q.old[n].item = i
    BY <1>1, InTransaction
<1>3. PICK body, todo, old : body = q.body /\ todo = q.todo /\ old = q.old
    OBVIOUS
<1>4. /\ old \in Seq(Replaced) /\ Len(old) \in Nat /\ Len(body) \in Nat /\ Len(old) <= Len(body)
      /\ \A n \in 1..Len(old) : old[n].item = body[n].item
      /\ DOMAIN body = 1..Len(body) /\ DOMAIN old = 1..Len(old)
  <2>1. body \in Seq(Order!Entry) /\ todo \in Seq(Order!Entry) /\ old \in Seq(Replaced)
      BY <1>2, <1>3
  <2>2. Len(old) + Len(todo) = Len(body) /\ \A n \in 1..Len(old) : old[n].item = body[n].item
      BY <1>2, <1>3 DEF Progress
  <2>3. Len(old) \in Nat /\ Len(todo) \in Nat /\ Len(body) \in Nat
      BY <2>1
  <2>4. QED
      BY <2>1, <2>2, <2>3
<1>5. Order!Distinct(old)
    BY <1>2, <1>3, <1>4 DEF Order!Distinct
<1>6. PICK ranks : ranks = rank
    OBVIOUS
<1>7. ranks \in [Items -> Ranks \cup {0}]
    BY <1>6 DEF OrderInv, OrderTypes
<1>8. /\ rank' = Order!Over(ranks, old)
      /\ Order!Unlock(c) /\ Order!GoTo(c, Order!Idle)
    BY <1>1, <1>3, <1>6 DEF Order!RollBack
<1>9. /\ rank' \in [Items -> Ranks \cup {0}]
      /\ \A n \in 1..Len(old) : rank'[old[n].item] = old[n].rank
      /\ \A i \in Items : (\A n \in 1..Len(old) : old[n].item # i) => rank'[i] = rank[i]
    BY <1>4, <1>5, <1>6, <1>7, <1>8, OverWrites
<1>10. \A n \in 1..Len(old) : lock[old[n].item] = c /\ agreed[old[n].item] = old[n].rank
    BY <1>2, <1>3 DEF Holds
<1>11. \A i \in Items : lock[i] # c => rank'[i] = rank[i] /\ agreed'[i] = agreed[i]
    BY <1>9, <1>10
<1>12. \A i \in Items : lock[i] = c => rank'[i] = agreed'[i]
  <2>1. SUFFICES ASSUME NEW i \in Items, lock[i] = c PROVE rank'[i] = agreed[i]
      OBVIOUS
  <2>2. PICK n \in 1..Len(old) : old[n].item = i
      BY <1>2, <1>3, <2>1
  <2>3. QED
      BY <1>9, <1>10, <2>2
<1>13. agreed' \in [Items -> Ranks \cup {0}]
    BY DEF OrderInv, OrderTypes
<1>14. QED
    BY <1>8, <1>9, <1>11, <1>12, <1>13, OrderEnds

(* Every step of a request keeps the invariant.                            *)
LEMMA OrderStep ==
    ASSUME OrderInv, NEW c \in Clients,
           \/ \E body \in Order!Bodies : Order!Reorder(c, body)
           \/ \E i \in Items : Order!DeleteWorkItem(c, i)
           \/ Order!GetWorkItems(c) \/ Order!UpdateRank(c) \/ Order!Commit(c)
           \/ Order!AbortDeadlock(c) \/ Order!Fail(c) \/ Order!SoftDelete(c)
    PROVE  OrderInv'
<1>1. PICK q \in OrderRequests : q = request[c]
    BY DEF OrderInv, OrderTypes
<1>2. Transaction(c, q)
    BY <1>1 DEF OrderInv
<1>3. <<>> \in Seq(Order!Entry) /\ <<>> \in Seq(Replaced)
    OBVIOUS
<1>4. Order!Idle \in OrderRequests
    BY <1>3 DEF Order!Idle, OrderRequests
<1>5. ASSUME q.step # "update", NEW r \in OrderRequests, Order!GoTo(c, r),
             UNCHANGED <<rank, lock, agreed>>, r.step \notin {"read", "update"}
      PROVE  OrderInv'
  <2>1. Transaction(c, r)
      BY <1>2, <1>5 DEF Transaction
  <2>2. QED
      BY <1>5, <2>1, OrderReads
<1>6. ASSUME NEW body \in Order!Bodies, Order!Reorder(c, body) PROVE OrderInv'
  <2>1. PICK r : r = [Order!Idle EXCEPT !.step = "read", !.body = body]
      OBVIOUS
  <2>2. Order!GoTo(c, r) /\ UNCHANGED <<rank, lock, agreed>> /\ q = Order!Idle
      BY <1>1, <1>6, <2>1 DEF Order!Reorder
  <2>3. q.step = "idle"
      BY <2>2 DEF Order!Idle
  <2>4. r \in OrderRequests /\ r.step = "read" /\ r.body = body /\ r.old = <<>>
      BY <1>3, <2>1, BodiesAreSequences DEF Order!Idle, OrderRequests
  <2>5. Transaction(c, r)
      BY <1>2, <2>3, <2>4, BodiesAreSequences DEF Transaction
  <2>6. QED
      BY <2>2, <2>4, <2>5, OrderReads
<1>7. ASSUME NEW i \in Items, Order!DeleteWorkItem(c, i) PROVE OrderInv'
  <2>1. PICK k \in Ranks :
            Order!GoTo(c, [Order!Idle EXCEPT !.step = "delete", !.body = <<[item |-> i, rank |-> k]>>])
      BY <1>7 DEF Order!DeleteWorkItem
  <2>2. PICK r : r = [Order!Idle EXCEPT !.step = "delete", !.body = <<[item |-> i, rank |-> k]>>]
      OBVIOUS
  <2>3. <<[item |-> i, rank |-> k]>> \in Seq(Order!Entry)
      BY DEF Order!Entry
  <2>4. r \in OrderRequests /\ r.step = "delete"
      BY <1>3, <2>2, <2>3 DEF Order!Idle, OrderRequests
  <2>5. q = Order!Idle /\ UNCHANGED <<rank, lock, agreed>>
      BY <1>1, <1>7 DEF Order!DeleteWorkItem
  <2>6. q.step = "idle"
      BY <2>5 DEF Order!Idle
  <2>7. QED
      BY <1>5, <2>1, <2>2, <2>4, <2>5, <2>6
<1>8. CASE Order!GetWorkItems(c)
  <2>1. q.step = "read" /\ UNCHANGED <<rank, lock, agreed>>
      BY <1>1, <1>8 DEF Order!GetWorkItems, Order!At
  <2>2. CASE Order!GoTo(c, Order!Idle)
      BY <1>4, <1>5, <2>1, <2>2 DEF Order!Idle
  <2>3. CASE Order!GoTo(c, [q EXCEPT !.step = "update", !.todo = q.body])
    <3>1. \A i \in Items : lock[i] # c
        BY <1>2, <2>1 DEF Transaction
    <3>2. PICK r : r = [q EXCEPT !.step = "update", !.todo = q.body]
        OBVIOUS
    <3>3. /\ r \in OrderRequests /\ r.step = "update"
          /\ r.body = q.body /\ r.todo = q.body /\ r.old = q.old
        BY <3>2 DEF OrderRequests
    <3>4. q.old = <<>> /\ Order!Distinct(q.body) /\ q.body \in Seq(Order!Entry)
        BY <1>2, <2>1 DEF Transaction, OrderRequests
    <3>5. Len(q.old) = 0 /\ Len(q.body) \in Nat /\ \A n \in Nat : 0 + n = n
        BY <3>4
    <3>6. Transaction(c, r)
        BY <3>1, <3>3, <3>4, <3>5 DEF Transaction, Progress, Holds
    <3>7. QED
        BY <2>1, <2>3, <3>2, <3>3, <3>6, OrderReads
  <2>4. QED
      BY <1>1, <1>8, <2>2, <2>3 DEF Order!GetWorkItems
<1>9. CASE Order!AbortDeadlock(c)
  <2>1. Order!At(c, "update")
      BY <1>9 DEF Order!AbortDeadlock, Order!Deadlocked, Order!Blocker
  <2>2. QED
      BY <1>9, <2>1, ReorderRolledBack DEF Order!AbortDeadlock
<1>10. CASE Order!Fail(c)
    BY <1>10, ReorderRolledBack DEF Order!Fail
<1>11. CASE Order!SoftDelete(c)
  <2>1. q.step = "delete" /\ Order!GoTo(c, Order!Idle) /\ UNCHANGED <<rank, lock, agreed>>
      BY <1>1, <1>11 DEF Order!SoftDelete, Order!At
  <2>2. QED
      BY <1>4, <1>5, <2>1 DEF Order!Idle
<1>12. QED
    BY <1>6, <1>7, <1>8, <1>9, <1>10, <1>11, RankUpdated, ReorderCommitted

(* The invariant holds of the seeded order.                                *)
LEMMA OrderInitially ==
    ASSUME Order!Init
    PROVE  OrderInv
<1>1. Order!Idle \in OrderRequests /\ Order!Idle.step = "idle"
    BY DEF Order!Idle, OrderRequests
<1>2. /\ rank = [i \in Items |-> 0] /\ agreed = [i \in Items |-> 0]
      /\ lock = [i \in Items |-> Order!NoClient]
      /\ request = [c \in Clients |-> Order!Idle]
    BY Zenon DEF Order!Init
<1>3. OrderTypes /\ Order!ReorderIsSerial
    BY <1>1, <1>2 DEF OrderTypes, Order!ReorderIsSerial
<1>4. \A c \in Clients : Transaction(c, request[c])
    BY <1>1, <1>2, ClientsAreNamed DEF Transaction
<1>5. QED
    BY <1>3, <1>4 DEF OrderInv

(* The invariant of the order holds in every state of the composition.     *)
LEMMA OrderInvariant == Spec => [](on = "order" => OrderInv)
<1> DEFINE Inv == on = "order" => OrderInv
<1>1. Init => Inv
    BY OrderInitially DEF Init
<1>2. Inv /\ [Next]_vars => Inv'
  <2>1. SUFFICES ASSUME on = "order", OrderInv, [Next]_vars PROVE OrderInv'
      BY ServiceStays
  <2>2. CASE UNCHANGED vars
    <3>1. UNCHANGED <<rank, agreed, lock, request>>
        BY <2>2 DEF vars
    <3>2. \A c \in Clients : Transaction(c, request[c])'
      <4>1. SUFFICES ASSUME NEW c \in Clients PROVE Transaction(c, request[c])'
          OBVIOUS
      <4>2. Transaction(c, request[c]) /\ OrderTypes
          BY <2>1 DEF OrderInv
      <4>3. OrderTypes'
          BY <3>1, <4>2 DEF OrderTypes
      <4>4. QED
          BY <3>1, <4>2, <4>3, OthersKeep
    <3>3. QED
        BY <2>1, <3>1, <3>2 DEF OrderInv, OrderTypes, Order!ReorderIsSerial
  <2>3. CASE Order!Next
      BY <2>1, <2>3, OrderStep DEF Order!Next
  <2>4. QED
      BY <2>1, <2>2, <2>3 DEF Next
<1> QED
    BY <1>1, <1>2, PTL DEF Spec

(* "all rank UPDATEs are one atomic transaction": whichever requests are   *)
(* in flight, deleted rows, lost connections and deadlocks they meet, the  *)
(* ranks nobody is writing are those of whole reorders, one after the      *)
(* other in the order of their commits.                                    *)
THEOREM ReordersAreAtomic == Spec => []ReorderIsSerial
<1>1. (on = "order" => OrderInv) => ReorderIsSerial
    BY DEF OrderInv, ReorderIsSerial
<1> QED
    BY <1>1, OrderInvariant, PTL

(* What a request has still to do is an end of a body.                     *)
BodyTypes ==
    /\ deleted \subseteq Items /\ aborted \in BOOLEAN
    /\ \A c \in Clients : /\ request[c].body \in Order!Bodies \cup {<<>>}
                          /\ request[c].todo \in Order!Suffixes \cup {<<>>}
                          /\ request[c].step = "delete" => request[c].body[1].item \in Items

(* What a request starts with is the end of a body.                        *)
LEMMA BodiesAreSuffixes ==
    ASSUME NEW b \in Order!Bodies
    PROVE  b \in Order!Suffixes
<1>1. b \in Seq(Order!Entry)
    BY BodiesAreSequences
<1>2. SubSeq(b, 1, Len(b)) = b /\ 1 \in 1..Len(b) + 1
    BY <1>1
<1> QED
    BY <1>2 DEF Order!Suffixes

(* The tail of an end of a body is one too.                                *)
LEMMA TailsAreSuffixes ==
    ASSUME NEW s \in Order!Suffixes, s # <<>>
    PROVE  Tail(s) \in Order!Suffixes
<1>1. PICK b \in Order!Bodies : \E n \in 1..Len(b) + 1 : s = SubSeq(b, n, Len(b))
    BY DEF Order!Suffixes
<1> PICK n \in 1..Len(b) + 1 : s = SubSeq(b, n, Len(b))
    BY <1>1
<1>2. b \in Seq(Order!Entry) /\ Len(b) \in Nat
    BY BodiesAreSequences
<1>3. n <= Len(b)
    BY <1>2
<1>4. n + 1 \in 1..Len(b) + 1
    BY <1>2, <1>3
<1>5. Tail(s) = SubSeq(b, n + 1, Len(b))
    BY <1>2, <1>3
<1>6. Tail(s) \in {SubSeq(b, m, Len(b)) : m \in 1..Len(b) + 1}
    BY <1>4, <1>5
<1> QED
    BY <1>6 DEF Order!Suffixes

(* A request goes on with what it has still to do.                         *)
LEMMA BodiesGoOn ==
    ASSUME OrderInv, BodyTypes, NEW c \in Clients, NEW q,
           q.body \in Order!Bodies \cup {<<>>}, q.todo \in Order!Suffixes \cup {<<>>},
           q.step = "delete" => q.body[1].item \in Items,
           request' = [request EXCEPT ![c] = q],
           deleted' \subseteq Items, aborted' \in BOOLEAN
    PROVE  BodyTypes'
BY DEF OrderInv, OrderTypes, BodyTypes

(* Every step leaves requests with an end of a body.                       *)
LEMMA BodiesStep ==
    ASSUME OrderInv, BodyTypes, Order!Next
    PROVE  BodyTypes'
<1>1. Order!Idle.body = <<>> /\ Order!Idle.todo = <<>> /\ Order!Idle.step = "idle"
    BY DEF Order!Idle
<1>2. PICK c \in Clients :
       \/ \E body \in Order!Bodies : Order!Reorder(c, body)
       \/ \E i \in Items : Order!DeleteWorkItem(c, i)
       \/ Order!GetWorkItems(c) \/ Order!UpdateRank(c) \/ Order!Commit(c)
       \/ Order!AbortDeadlock(c) \/ Order!Fail(c) \/ Order!SoftDelete(c)
    BY DEF Order!Next
<1>3. PICK r : r = request[c]
    OBVIOUS
<1>4. r \in OrderRequests /\ r.body \in Order!Bodies \cup {<<>>} /\ r.todo \in Order!Suffixes \cup {<<>>}
    BY <1>3 DEF OrderInv, OrderTypes, BodyTypes
<1>5. CASE Order!Commit(c) \/ Order!AbortDeadlock(c) \/ Order!Fail(c)
    <2>1. request' = [request EXCEPT ![c] = Order!Idle] /\ deleted' = deleted
          /\ (aborted' = aborted \/ aborted' = TRUE)
        BY <1>5 DEF Order!Commit, Order!AbortDeadlock, Order!Fail, Order!RollBack, Order!GoTo
    <2> QED
        BY <1>1, <2>1, BodiesGoOn DEF BodyTypes
<1>6. ASSUME NEW body \in Order!Bodies, Order!Reorder(c, body) PROVE BodyTypes'
    <2> DEFINE q == [Order!Idle EXCEPT !.step = "read", !.body = body]
    <2>1. q.body = body /\ q.todo = <<>> /\ q.step = "read"
        BY DEF Order!Idle
    <2>2. request' = [request EXCEPT ![c] = q] /\ deleted' = deleted /\ aborted' = aborted
        BY <1>6 DEF Order!Reorder, Order!GoTo
    <2> HIDE DEF q
    <2> QED
        BY <2>1, <2>2, BodiesGoOn DEF BodyTypes
<1>7. ASSUME NEW i \in Items, Order!DeleteWorkItem(c, i) PROVE BodyTypes'
    <2>1. PICK k \in Ranks :
             /\ request' = [request EXCEPT ![c] = [Order!Idle EXCEPT !.step = "delete", !.body = <<[item |-> i, rank |-> k]>>]]
             /\ deleted' = deleted /\ aborted' = aborted
        BY <1>7 DEF Order!DeleteWorkItem, Order!GoTo
    <2> DEFINE b == <<[item |-> i, rank |-> k]>>
               q == [Order!Idle EXCEPT !.step = "delete", !.body = b]
    <2>2. b \in [1..1 -> Order!Entry] /\ Order!Distinct(b)
        BY DEF Order!Entry, Order!Distinct
    <2>3. b \in Order!Bodies
        BY <2>2 DEF Order!Bodies
    <2>4. q.body = b /\ q.todo = <<>> /\ b[1].item = i
        BY DEF Order!Idle
    <2> HIDE DEF b, q
    <2>5. request' = [request EXCEPT ![c] = q]
        BY <2>1 DEF b, q
    <2> QED
        BY <2>1, <2>3, <2>4, <2>5, BodiesGoOn DEF BodyTypes
<1>8. CASE Order!GetWorkItems(c)
    <2> DEFINE q == IF Order!Named(r.body) \cap deleted # {} THEN Order!Idle
                    ELSE [r EXCEPT !.step = "update", !.todo = r.body]
    <2>1. request' = [request EXCEPT ![c] = q] /\ deleted' = deleted /\ aborted' = aborted
        BY <1>3, <1>8 DEF Order!GetWorkItems, Order!GoTo
    <2>2. q.body \in Order!Bodies \cup {<<>>} /\ q.todo \in Order!Suffixes \cup {<<>>} /\ q.step # "delete"
        BY <1>1, <1>4, BodiesAreSuffixes DEF OrderRequests
    <2> HIDE DEF q
    <2> QED
        BY <2>1, <2>2, BodiesGoOn DEF BodyTypes
<1>9. CASE Order!UpdateRank(c)
    <2>1. PICK o : request' = [request EXCEPT ![c] = [r EXCEPT !.todo = Tail(r.todo), !.old = o]]
        BY <1>3, <1>9 DEF Order!UpdateRank, Order!GoTo
    <2> DEFINE q == [r EXCEPT !.todo = Tail(r.todo), !.old = o]
    <2>2. r.step = "update" /\ r.todo # <<>> /\ deleted' = deleted /\ aborted' = aborted
        BY <1>3, <1>9 DEF Order!UpdateRank, Order!At
    <2>3. q.body \in Order!Bodies \cup {<<>>} /\ q.todo \in Order!Suffixes \cup {<<>>} /\ q.step # "delete"
        BY <1>4, <2>2, TailsAreSuffixes DEF OrderRequests
    <2> HIDE DEF q
    <2>4. request' = [request EXCEPT ![c] = q]
        BY <2>1 DEF q
    <2> QED
        BY <2>2, <2>3, <2>4, BodiesGoOn DEF BodyTypes
<1>10. CASE Order!SoftDelete(c)
    <2>1. r.step = "delete" /\ r.body[1].item \in Items
        BY <1>3, <1>10 DEF Order!SoftDelete, Order!At, BodyTypes
    <2>2. /\ request' = [request EXCEPT ![c] = Order!Idle]
          /\ deleted' = deleted \cup {r.body[1].item} /\ aborted' = aborted
        BY <1>3, <1>10 DEF Order!SoftDelete, Order!GoTo
    <2> QED
        BY <1>1, <2>1, <2>2, BodiesGoOn DEF BodyTypes
<1> QED
    BY <1>2, <1>5, <1>6, <1>7, <1>8, <1>9, <1>10

(* Ranks, the locked rows and the requests are what they are declared to   *)
(* be.                                                                     *)
LEMMA OrderTyped == Spec => [](on = "order" => Order!TypeOK)
<1> DEFINE Inv == on = "order" => BodyTypes
<1>1. Init => Inv
    <2> SUFFICES ASSUME Order!Init PROVE BodyTypes
        BY DEF Init
    <2>1. deleted = {} /\ aborted = FALSE /\ request = [c \in Clients |-> Order!Idle]
        BY Zenon DEF Order!Init
    <2> QED
        BY <2>1 DEF BodyTypes, Order!Idle
<1>2. (on = "order" => OrderInv) /\ Inv /\ [Next]_vars => Inv'
    <2> SUFFICES ASSUME OrderInv, BodyTypes, [Next]_vars, on = "order" PROVE BodyTypes'
        BY ServiceStays
    <2>1. CASE UNCHANGED vars
        BY <2>1 DEF vars, BodyTypes
    <2>2. CASE Next
        BY <2>2, BodiesStep DEF Next
    <2> QED
        BY <2>1, <2>2
<1>3. (on = "order" => OrderInv) /\ Inv => (on = "order" => Order!TypeOK)
    <2> SUFFICES ASSUME OrderInv, BodyTypes PROVE Order!TypeOK
        OBVIOUS
    <2>1. \A c \in Clients : /\ request[c].step \in {"idle", "read", "update", "delete"}
                             /\ request[c].old \in Seq([item : Items, rank : Ranks \cup {0}])
        BY DEF OrderInv, OrderTypes, OrderRequests, Replaced
    <2> QED
        BY <2>1 DEF OrderInv, OrderTypes, BodyTypes, Order!TypeOK
<1> QED
    BY <1>1, <1>2, <1>3, OrderInvariant, PTL DEF Spec

-----------------------------------------------------------------------------
(* ItemTree: parents of work items                                         *)

Row(i) == item[i] # Tree!None

(* What a request has found out is so until it ends: rows are never taken  *)
(* away, and their project stays.                                          *)
Carried(q) ==
    /\ q.step \in {"move", "delete"} => Row(q.item)
    /\ q.step = "insert" /\ q.parent # Tree!NoItem =>
          Row(q.parent) /\ item[q.parent].project = q.project

ParentsAreRows == \A i \in Items \ moved : Tree!Parent(i) # Tree!NoItem => Row(Tree!Parent(i))

TreeInv ==
    /\ Tree!TypeOK
    /\ \A c \in Clients : Carried(request[c])
    /\ ParentsAreRows
    /\ Tree!CreatedInPlace

(* The fields a request carries at each of its steps.                      *)
LEMMA TreeRequestFields ==
    ASSUME NEW q \in Tree!Requests
    PROVE  /\ q.step = "type" => q.parent \in Items
           /\ q.step \in {"parent", "insert"} =>
                 /\ q.type \in Tree!Types /\ q.project \in Projects
                 /\ q.parent \in Items \cup {Tree!NoItem}
           /\ q.step = "move" => q.item \in Items /\ q.parent \in Items \cup {Tree!NoItem}
           /\ q.step = "delete" => q.item \in Items
BY DEF Tree!Requests, Tree!Idle

(* The columns of a row that exists.                                       *)
LEMMA RowTypes ==
    ASSUME Tree!TypeOK, NEW i \in Items, Row(i)
    PROVE  item[i] \in Tree!Rows
BY DEF Tree!TypeOK, Row

(* A step that takes no row away and leaves projects as they are, and goes *)
(* on with a request that carries what is so.                              *)
LEMMA TreeGoesOn ==
    ASSUME TreeInv, NEW c \in Clients, NEW q \in Tree!Requests, Tree!GoTo(c, q), Carried(q)',
           item' \in [Items -> Tree!Rows \cup {Tree!None}], moved' \subseteq Items,
           \A i \in Items : Row(i) => Row(i)' /\ item'[i].project = item[i].project
    PROVE  Tree!TypeOK' /\ \A d \in Clients : Carried(request[d])'
<1>1. /\ request' \in [Clients -> Tree!Requests] /\ request'[c] = q
      /\ \A d \in Clients \ {c} : request'[d] = request[d]
    BY DEF TreeInv, Tree!TypeOK, Tree!GoTo
<1>2. Tree!TypeOK'
    BY <1>1 DEF Tree!TypeOK
<1>3. ASSUME NEW d \in Clients PROVE Carried(request[d])'
  <2>1. CASE d = c
      BY <1>1, <2>1 DEF Carried, Row
  <2>2. CASE d # c
    <3>1. PICK r \in Tree!Requests : r = request[d] /\ Carried(r) /\ request'[d] = r
        BY <1>1, <2>2 DEF TreeInv, Tree!TypeOK
    <3>2. r.step \in {"move", "delete"} => Row(r.item)'
        BY <3>1, TreeRequestFields DEF Carried
    <3>3. r.step = "insert" /\ r.parent # Tree!NoItem =>
              Row(r.parent)' /\ item'[r.parent].project = r.project
        BY <3>1, TreeRequestFields DEF Carried
    <3>4. QED
        BY <3>1, <3>2, <3>3 DEF Carried, Row
  <2>3. QED
      BY <2>1, <2>2
<1>4. QED
    BY <1>2, <1>3

(* A step that only reads.                                                 *)
LEMMA TreeReads ==
    ASSUME TreeInv, NEW c \in Clients, NEW q \in Tree!Requests, Tree!GoTo(c, q), Carried(q),
           UNCHANGED <<item, moved>>
    PROVE  TreeInv'
<1>1. /\ item' \in [Items -> Tree!Rows \cup {Tree!None}] /\ moved' \subseteq Items
      /\ \A i \in Items : Row(i) => Row(i)' /\ item'[i].project = item[i].project
      /\ Carried(q)'
    BY DEF TreeInv, Tree!TypeOK, Row, Carried
<1>2. Tree!TypeOK' /\ \A d \in Clients : Carried(request[d])'
    BY <1>1, TreeGoesOn
<1>3. ParentsAreRows' /\ Tree!CreatedInPlace'
    BY DEF TreeInv, ParentsAreRows, Tree!CreatedInPlace, Tree!Parent, Row
<1>4. QED
    BY <1>2, <1>3 DEF TreeInv

(* An insert keeps the invariant: what the request carries was checked.    *)
LEMMA WorkItemInserted ==
    ASSUME TreeInv, NEW c \in Clients, Tree!InsertWorkItem(c)
    PROVE  TreeInv'
<1>1. PICK q \in Tree!Requests : q = request[c] /\ Carried(q) /\ q.step = "insert"
    BY DEF TreeInv, Tree!TypeOK, Tree!InsertWorkItem, Tree!At
<1>2. PICK n \in Items : /\ item[n] = Tree!None
                         /\ item' = [item EXCEPT ![n] = [type |-> q.type, project |-> q.project,
                                                         parent |-> q.parent, deleted |-> FALSE]]
    BY <1>1 DEF Tree!InsertWorkItem
<1>3. PICK r : r = [type |-> q.type, project |-> q.project, parent |-> q.parent, deleted |-> FALSE]
    OBVIOUS
<1>4. /\ r \in Tree!Rows /\ r # Tree!None
      /\ r.parent = q.parent /\ r.project = q.project
    BY <1>1, <1>3, TreeRequestFields DEF Tree!Rows, Tree!None, Tree!Types
<1>5. /\ item' \in [Items -> Tree!Rows \cup {Tree!None}]
      /\ item'[n] = r /\ \A i \in Items \ {n} : item'[i] = item[i]
    BY <1>2, <1>3, <1>4 DEF TreeInv, Tree!TypeOK
<1>6. \A i \in Items : Row(i) => i # n /\ Row(i)' /\ item'[i] = item[i]
    BY <1>2, <1>5 DEF Row
<1>7. moved' = moved /\ Tree!GoTo(c, Tree!Idle)
    BY DEF Tree!InsertWorkItem, Tree!Return
<1>8. Tree!TypeOK' /\ \A d \in Clients : Carried(request[d])'
  <2>1. Carried(Tree!Idle)' /\ Tree!Idle \in Tree!Requests
      BY DEF Carried, Tree!Idle, Tree!Requests
  <2>2. moved' \subseteq Items
      BY <1>7 DEF TreeInv, Tree!TypeOK
  <2>3. QED
      BY <1>5, <1>6, <1>7, <2>1, <2>2, TreeGoesOn
<1>9. q.parent # Tree!NoItem => q.parent \in Items /\ Row(q.parent) /\ item[q.parent].project = q.project
    BY <1>1, TreeRequestFields DEF Carried
<1>10. ASSUME NEW i \in Items \ moved, Tree!Parent(i)' # Tree!NoItem
       PROVE  /\ Tree!Parent(i)' \in Items /\ Row(Tree!Parent(i)') /\ Tree!Parent(i)' # n
              /\ item'[Tree!Parent(i)'].project = item'[i].project
              /\ Tree!Parent(i)' \notin moved => item'[Tree!Parent(i)'].parent # i
  <2>1. CASE i = n
    <3>1. Tree!Parent(i)' = q.parent
        BY <1>4, <1>5, <2>1 DEF Tree!Parent
    <3>2. q.parent \in Items /\ Row(q.parent) /\ q.parent # n /\ item'[q.parent] = item[q.parent]
        BY <1>6, <1>9, <1>10, <3>1
    <3>3. item'[q.parent].project = item'[i].project
        BY <1>4, <1>5, <1>9, <1>10, <2>1, <3>1, <3>2
    <3>4. q.parent \notin moved => item[q.parent].parent # n
      <4>1. SUFFICES ASSUME q.parent \notin moved, item[q.parent].parent = n PROVE FALSE
          OBVIOUS
      <4>2. n # Tree!NoItem
          BY ServicesAssumption DEF Tree!ItemTreeAssumption
      <4>3. Row(n)
          BY <3>2, <4>1, <4>2 DEF TreeInv, ParentsAreRows, Tree!Parent
      <4>4. QED
          BY <1>2, <4>3 DEF Row
    <3>5. QED
        BY <2>1, <3>1, <3>2, <3>3, <3>4
  <2>2. CASE i # n
    <3>1. Tree!Parent(i)' = Tree!Parent(i) /\ item'[i] = item[i]
        BY <1>5, <2>2 DEF Tree!Parent
    <3>2. PICK p : p = Tree!Parent(i)
        OBVIOUS
    <3>3. p \in Items /\ Row(p) /\ item'[p] = item[p] /\ p # n
      <4>1. Row(p) /\ p # Tree!NoItem
          BY <1>10, <3>1, <3>2 DEF TreeInv, ParentsAreRows
      <4>2. p \in Items
          BY <3>2, <4>1 DEF TreeInv, Tree!TypeOK, Tree!Parent, Tree!Rows, Tree!None, Tree!NoItem
      <4>3. QED
          BY <1>6, <4>1, <4>2
    <3>4. item[p].project = item[i].project /\ (p \notin moved => item[p].parent # i)
        BY <1>10, <3>1, <3>2 DEF TreeInv, Tree!CreatedInPlace, Tree!Parent
    <3>5. QED
        BY <3>1, <3>2, <3>3, <3>4
  <2>3. QED
      BY <2>1, <2>2
<1>11. ParentsAreRows' /\ Tree!CreatedInPlace'
  <2>1. ParentsAreRows'
    <3>1. SUFFICES ASSUME NEW i \in Items \ moved, Tree!Parent(i)' # Tree!NoItem
                   PROVE  Row(Tree!Parent(i))'
        BY <1>7 DEF ParentsAreRows
    <3>2. PICK p : p = Tree!Parent(i)'
        OBVIOUS
    <3>3. p \in Items /\ Row(p)
        BY <1>10, <3>1, <3>2
    <3>4. Row(p)'
        BY <1>6, <3>3
    <3>5. QED
        BY <3>2, <3>4 DEF Row
  <2>2. Tree!CreatedInPlace'
      BY <1>7, <1>10 DEF Tree!CreatedInPlace, Tree!Parent
  <2>3. QED
      BY <2>1, <2>2
<1>12. QED
    BY <1>8, <1>11 DEF TreeInv

(* Moving and deleting: the parents of items that were not moved stay.     *)
LEMMA WorkItemWritten ==
    ASSUME TreeInv, NEW c \in Clients, Tree!WriteParent(c) \/ Tree!SoftDelete(c)
    PROVE  TreeInv'
<1>1. PICK q \in Tree!Requests : q = request[c] /\ Carried(q)
    BY DEF TreeInv, Tree!TypeOK
<1>2. q.step \in {"move", "delete"} /\ Tree!GoTo(c, Tree!Idle)
    BY <1>1 DEF Tree!WriteParent, Tree!SoftDelete, Tree!At, Tree!Return
<1>3. /\ q.item \in Items /\ Row(q.item) /\ item[q.item] \in Tree!Rows
      /\ q.step = "move" => q.parent \in Items \cup {Tree!NoItem}
    BY <1>1, <1>2, TreeRequestFields, RowTypes DEF Carried, TreeInv
<1>4. PICK r \in Tree!Rows : /\ item' = [item EXCEPT ![q.item] = r]
                             /\ r.project = item[q.item].project
                             /\ r.parent # item[q.item].parent => moved' = moved \cup {q.item}
  <2>1. CASE Tree!WriteParent(c)
    <3>1. PICK r : r = [item[q.item] EXCEPT !.parent = q.parent]
        OBVIOUS
    <3>2. q.step = "move"
        BY <1>1, <2>1 DEF Tree!WriteParent, Tree!At
    <3>3. r \in Tree!Rows /\ r.project = item[q.item].project
        BY <1>3, <3>1, <3>2 DEF Tree!Rows
    <3>4. item' = [item EXCEPT ![q.item] = r] /\ moved' = moved \cup {q.item}
        BY <1>1, <2>1, <3>1 DEF Tree!WriteParent
    <3>5. QED
        BY <3>3, <3>4
  <2>2. CASE Tree!SoftDelete(c)
    <3>1. PICK r : r = [item[q.item] EXCEPT !.deleted = TRUE]
        OBVIOUS
    <3>2. /\ r \in Tree!Rows /\ r.project = item[q.item].project
          /\ r.parent = item[q.item].parent
        BY <1>3, <3>1 DEF Tree!Rows
    <3>3. item' = [item EXCEPT ![q.item] = r]
        BY <1>1, <2>2, <3>1 DEF Tree!SoftDelete
    <3>4. QED
        BY <3>2, <3>3
  <2>3. QED
      BY <2>1, <2>2
<1>5. moved \subseteq moved' /\ moved' \subseteq Items
    BY <1>1, <1>3 DEF TreeInv, Tree!TypeOK, Tree!WriteParent, Tree!SoftDelete
<1>6. r # Tree!None
    BY <1>4 DEF Tree!Rows, Tree!None, Tree!Types
<1>7. /\ item' \in [Items -> Tree!Rows \cup {Tree!None}]
      /\ item'[q.item] = r /\ \A i \in Items \ {q.item} : item'[i] = item[i]
    BY <1>3, <1>4 DEF TreeInv, Tree!TypeOK
<1>8. \A i \in Items : Row(i) => Row(i)'
    BY <1>6, <1>7 DEF Row
<1>9. \A i \in Items : item'[i].project = item[i].project
    BY <1>3, <1>4, <1>7
<1>10. \A i \in Items \ moved' : item'[i].parent = item[i].parent
    BY <1>4, <1>5, <1>7
<1>11. Tree!TypeOK' /\ \A d \in Clients : Carried(request[d])'
  <2>1. Carried(Tree!Idle)' /\ Tree!Idle \in Tree!Requests
      BY DEF Carried, Tree!Idle, Tree!Requests
  <2>2. QED
      BY <1>2, <1>5, <1>7, <1>8, <1>9, <2>1, TreeGoesOn
<1>12. \A i \in Items : Tree!Parent(i) # Tree!NoItem => Tree!Parent(i) \in Items
    BY DEF TreeInv, Tree!TypeOK, Tree!Parent, Tree!Rows, Tree!None
<1>13. ParentsAreRows'
    BY <1>5, <1>8, <1>10, <1>12 DEF TreeInv, ParentsAreRows, Tree!Parent, Row
<1>14. Tree!CreatedInPlace'
    BY <1>5, <1>9, <1>10, <1>12 DEF TreeInv, Tree!CreatedInPlace, Tree!Parent
<1>15. QED
    BY <1>11, <1>13, <1>14 DEF TreeInv

(* Every step keeps the invariant of the hierarchy.                        *)
LEMMA TreeStep ==
    ASSUME TreeInv, Tree!Next
    PROVE  TreeInv'
<1>1. PICK c \in Clients :
          \/ \E i \in Items :
                \/ Tree!CreateTask(c, i) \/ Tree!DeleteWorkItem(c, i)
                \/ \E parent \in Items \cup {Tree!NoItem} : Tree!UpdateParent(c, i, parent)
          \/ \E type \in Tree!Types, p \in Projects, parent \in Items \cup {Tree!NoItem} :
                Tree!CreateWorkItem(c, type, p, parent)
          \/ Tree!GetParent(c) \/ Tree!CheckParent(c) \/ Tree!InsertWorkItem(c)
          \/ Tree!WriteParent(c) \/ Tree!SoftDelete(c)
    BY DEF Tree!Next
<1>2. PICK q \in Tree!Requests : q = request[c] /\ Carried(q)
    BY DEF TreeInv, Tree!TypeOK
<1>3. Tree!Idle \in Tree!Requests /\ Carried(Tree!Idle)
    BY DEF Carried, Tree!Idle, Tree!Requests
<1>4. ASSUME NEW r \in Tree!Requests, Carried(r), Tree!Begin(c, r) PROVE TreeInv'
    BY <1>4, TreeReads DEF Tree!Begin
<1>5. ASSUME NEW i \in Items, Tree!CreateTask(c, i) PROVE TreeInv'
  <2>1. PICK r : r = [step |-> "type", parent |-> i]
      OBVIOUS
  <2>2. r \in Tree!Requests /\ Carried(r)
      BY <2>1 DEF Tree!Requests, Carried
  <2>3. QED
      BY <1>4, <1>5, <2>1, <2>2 DEF Tree!CreateTask
<1>6. ASSUME NEW i \in Items, Tree!DeleteWorkItem(c, i) PROVE TreeInv'
  <2>1. PICK r : r = [step |-> "delete", item |-> i]
      OBVIOUS
  <2>2. r \in Tree!Requests /\ Carried(r)
      BY <1>6, <2>1 DEF Tree!Requests, Carried, Tree!DeleteWorkItem, Tree!Found, Row
  <2>3. QED
      BY <1>4, <1>6, <2>1, <2>2 DEF Tree!DeleteWorkItem
<1>7. ASSUME NEW i \in Items, NEW parent \in Items \cup {Tree!NoItem}, Tree!UpdateParent(c, i, parent)
      PROVE  TreeInv'
  <2>1. PICK r : r = [step |-> "move", item |-> i, parent |-> parent]
      OBVIOUS
  <2>2. r \in Tree!Requests /\ Carried(r)
      BY <1>7, <2>1 DEF Tree!Requests, Carried, Tree!UpdateParent, Tree!Found, Row
  <2>3. QED
      BY <1>4, <1>7, <2>1, <2>2 DEF Tree!UpdateParent
<1>8. ASSUME NEW type \in Tree!Types, NEW p \in Projects, NEW parent \in Items \cup {Tree!NoItem},
             Tree!CreateWorkItem(c, type, p, parent)
      PROVE  TreeInv'
  <2>1. PICK r : r = [step |-> IF parent = Tree!NoItem THEN "insert" ELSE "parent",
                      type |-> type, project |-> p, parent |-> parent]
      OBVIOUS
  <2>2. /\ r.step = IF parent = Tree!NoItem THEN "insert" ELSE "parent"
        /\ r.parent = parent /\ r \in Tree!Requests
      BY <2>1 DEF Tree!Requests
  <2>3. Carried(r)
      BY <2>2 DEF Carried
  <2>4. QED
      BY <1>4, <1>8, <2>1, <2>2, <2>3 DEF Tree!CreateWorkItem
<1>9. CASE Tree!GetParent(c)
  <2>1. CASE Tree!GoTo(c, Tree!Idle)
      BY <1>3, <1>9, <2>1, TreeReads DEF Tree!GetParent
  <2>2. CASE ~Tree!GoTo(c, Tree!Idle)
    <3>1. PICK r : r = [step |-> "parent", type |-> "task",
                        project |-> item[q.parent].project, parent |-> q.parent]
        OBVIOUS
    <3>2. /\ Tree!Found(q.parent) /\ Tree!GoTo(c, r) /\ q.parent \in Items
          /\ UNCHANGED <<item, moved>>
        BY <1>2, <1>9, <2>2, <3>1, TreeRequestFields DEF Tree!GetParent, Tree!At
    <3>3. item[q.parent] \in Tree!Rows
        BY <3>2, RowTypes DEF Tree!Found, Row, TreeInv
    <3>4. r \in Tree!Requests /\ Carried(r)
        BY <3>1, <3>2, <3>3 DEF Tree!Requests, Tree!Rows, Tree!Types, Carried
    <3>5. QED
        BY <3>2, <3>4, TreeReads
  <2>3. QED
      BY <2>1, <2>2
<1>10. CASE Tree!CheckParent(c)
  <2>1. CASE Tree!GoTo(c, Tree!Idle)
      BY <1>3, <1>10, <2>1, TreeReads DEF Tree!CheckParent
  <2>2. CASE ~Tree!GoTo(c, Tree!Idle)
    <3>1. PICK r : r = [q EXCEPT !.step = "insert"]
        OBVIOUS
    <3>2. /\ Tree!Found(q.parent) /\ item[q.parent].project = q.project
          /\ Tree!GoTo(c, r) /\ q.step = "parent" /\ UNCHANGED <<item, moved>>
        BY <1>2, <1>10, <2>2, <3>1 DEF Tree!CheckParent, Tree!At
    <3>3. r \in Tree!Requests /\ r.step = "insert" /\ r.parent = q.parent /\ r.project = q.project
        BY <3>1, <3>2 DEF Tree!Requests, Tree!Idle
    <3>4. Carried(r)
        BY <3>2, <3>3 DEF Carried, Tree!Found, Row
    <3>5. QED
        BY <3>2, <3>3, <3>4, TreeReads
  <2>3. QED
      BY <2>1, <2>2
<1>11. QED
    BY <1>1, <1>5, <1>6, <1>7, <1>8, <1>9, <1>10, WorkItemInserted, WorkItemWritten

(* The invariant of the hierarchy holds in every state of the composition. *)
LEMMA TreeInvariant == Spec => [](on = "tree" => TreeInv)
<1> DEFINE Inv == on = "tree" => TreeInv
<1>1. Init => Inv
  <2>1. SUFFICES ASSUME Tree!Init PROVE TreeInv
      BY DEF Init
  <2>2. /\ item = [i \in Items |-> Tree!None] /\ moved = {}
        /\ request = [c \in Clients |-> Tree!Idle]
      BY <2>1, Zenon DEF Tree!Init
  <2>3. Tree!Idle \in Tree!Requests /\ Carried(Tree!Idle)
      BY DEF Carried, Tree!Idle, Tree!Requests
  <2>4. Tree!TypeOK /\ \A c \in Clients : Carried(request[c])
      BY <2>2, <2>3 DEF Tree!TypeOK
  <2>5. \A i \in Items : Tree!Parent(i) = Tree!NoItem
      BY <2>2 DEF Tree!Parent, Tree!None
  <2>6. QED
      BY <2>4, <2>5 DEF TreeInv, ParentsAreRows, Tree!CreatedInPlace
<1>2. Inv /\ [Next]_vars => Inv'
  <2>1. SUFFICES ASSUME on = "tree", TreeInv, [Next]_vars PROVE TreeInv'
      BY ServiceStays
  <2>2. CASE UNCHANGED vars
    <3>1. UNCHANGED <<item, moved, request>>
        BY <2>2 DEF vars
    <3>2. Tree!TypeOK' /\ ParentsAreRows' /\ Tree!CreatedInPlace'
        BY <2>1, <3>1 DEF TreeInv, Tree!TypeOK, ParentsAreRows, Tree!CreatedInPlace, Tree!Parent, Row
    <3>3. \A c \in Clients : Carried(request[c])'
        BY <2>1, <3>1 DEF TreeInv, Carried, Row
    <3>4. QED
        BY <3>2, <3>3 DEF TreeInv
  <2>3. CASE Tree!Next
      BY <2>1, <2>3, TreeStep
  <2>4. QED
      BY <2>1, <2>2, <2>3 DEF Next
<1> QED
    BY <1>1, <1>2, PTL DEF Spec

(* "parentId must belong to the same project": whichever creations, moves  *)
(* and deletions run at the same time, an item that no PATCH moved is      *)
(* under one of its own project, and the two are not under each other.     *)
THEOREM CreatedItemsAreInPlace == Spec => []CreatedInPlace
<1>1. (on = "tree" => TreeInv) => CreatedInPlace
    BY DEF TreeInv, CreatedInPlace
<1> QED
    BY <1>1, TreeInvariant, PTL

-----------------------------------------------------------------------------
(* Snapshots: the nightly job and its lock                                 *)

(* Every sprint of the list that a job is done with has its snapshot, or   *)
(* failed; the others were active when the list was read, so that there is *)
(* something to be read of them.                                           *)
JobCovers(j) ==
    j.step \in {"next", "upsert"} =>
        /\ \A s \in j.listed :
              \/ s \in j.todo
              \/ j.step = "upsert" /\ s = j.sprint
              \/ snapshot[<<s, j.day>>] # 0
              \/ s \in j.failed
        /\ \A s \in j.todo : version[s] # 0

SprintsCovered == \A p \in Pods : JobCovers(job[p])

SnapshotInv == Snapshot!TypeOK /\ SprintsCovered

(* What the assumption on the constants says of the snapshot job.          *)
LEMMA SnapshotBounds ==
    MaxDay \in Nat \ {0} /\ MaxVersion \in Nat \ {0} /\ MaxCrashes \in Nat
BY ServicesAssumption DEF Snapshot!DaysAssumption, Email!DeliveryAssumption

(* The fields a run of the job carries at each of its steps.               *)
LEMMA JobFields ==
    ASSUME NEW j \in Snapshot!Jobs
    PROVE  /\ j.step \in {"none", "list", "next", "upsert"}
           /\ j.step = "none" <=> j = Snapshot!NoJob
           /\ j.step \in {"next", "upsert"} =>
                 /\ j.day \in Snapshot!Days /\ j.listed \subseteq Sprints
                 /\ j.todo \subseteq Sprints /\ j.failed \subseteq Sprints
           /\ j.step = "upsert" => j.sprint \in Sprints /\ j.read \in 1..MaxVersion
BY DEF Snapshot!Jobs, Snapshot!NoJob

(* The records a run of the job goes through are runs.                     *)
LEMMA JobTypes ==
    /\ Snapshot!NoJob \in Snapshot!Jobs
    /\ [step |-> "list"] \in Snapshot!Jobs
    /\ \A d \in Snapshot!Days, l, todo, f \in SUBSET Sprints :
          /\ [step |-> "next", day |-> d, listed |-> l, todo |-> todo, failed |-> f] \in Snapshot!Jobs
          /\ \A s \in Sprints, v \in 1..MaxVersion :
                [step |-> "upsert", day |-> d, listed |-> l, todo |-> todo, failed |-> f,
                 sprint |-> s, read |-> v] \in Snapshot!Jobs
BY DEF Snapshot!Jobs, Snapshot!NoJob

(* What happens besides the job.                                           *)
LEMMA BesidesTheJob ==
    ASSUME SnapshotInv,
           \/ Snapshot!NextDay \/ Snapshot!ExpireJobLock
           \/ \E s \in Sprints : Snapshot!StartSprint(s) \/ Snapshot!ChangeItems(s) \/ Snapshot!CompleteSprint(s)
    PROVE  SnapshotInv'
<1>1. UNCHANGED <<snapshot, job, tried, running>>
    BY DEF Snapshot!StartSprint, Snapshot!NextDay, Snapshot!ExpireJobLock, Snapshot!ChangeItems, Snapshot!CompleteSprint,
           Snapshot!lockVars, Snapshot!Expire
<1>2. Snapshot!LockTypeOK'
    BY DEF SnapshotInv, Snapshot!TypeOK, Snapshot!LockTypeOK, Snapshot!NextDay, Snapshot!ExpireJobLock,
           Snapshot!StartSprint, Snapshot!ChangeItems, Snapshot!CompleteSprint, Snapshot!lockVars,
           Snapshot!Expire
<1>3. /\ today' \in Snapshot!Days /\ version' \in [Sprints -> 0..MaxVersion]
      /\ final' \in [Sprints -> 0..MaxVersion]
      /\ \A s \in Sprints : version[s] # 0 => version'[s] # 0
    BY SnapshotBounds
    DEF SnapshotInv, Snapshot!TypeOK, Snapshot!NextDay, Snapshot!ExpireJobLock, Snapshot!work,
        Snapshot!StartSprint, Snapshot!ChangeItems, Snapshot!CompleteSprint, Snapshot!Days
<1>4. Snapshot!TypeOK'
    BY <1>1, <1>2, <1>3 DEF SnapshotInv, Snapshot!TypeOK
<1>5. SprintsCovered'
  <2>1. SUFFICES ASSUME NEW p \in Pods PROVE JobCovers(job[p])'
      BY DEF SprintsCovered
  <2>2. PICK j \in Snapshot!Jobs : j = job[p] /\ j = job'[p]
      BY <1>1 DEF SnapshotInv, Snapshot!TypeOK
  <2>3. JobCovers(j)
      BY <2>2 DEF SnapshotInv, SprintsCovered
  <2>4. JobCovers(j)'
      BY <1>1, <1>3, <2>3, JobFields DEF JobCovers
  <2>5. QED
      BY <2>2, <2>4
<1>6. QED
    BY <1>4, <1>5 DEF SnapshotInv

(* A job that goes on to j, which has covered all but what it has to do.   *)
LEMMA JobGoesOn ==
    ASSUME SnapshotInv, NEW p \in Pods, NEW j \in Snapshot!Jobs, Snapshot!Work(p, j),
           UNCHANGED <<today, version, final>>, Snapshot!LockTypeOK',
           tried' \in [Pods -> 0..MaxDay],
           running' \ {p} = running \ {p}, p \in running' <=> j # Snapshot!NoJob,
           snapshot' \in [Sprints \X Snapshot!Days -> 0..MaxVersion],
           \A k \in Sprints \X Snapshot!Days : snapshot[k] # 0 => snapshot'[k] # 0,
           JobCovers(j)'
    PROVE  SnapshotInv'
<1>1. /\ job' \in [Pods -> Snapshot!Jobs] /\ job'[p] = j
      /\ \A o \in Pods \ {p} : job'[o] = job[o]
    BY DEF SnapshotInv, Snapshot!TypeOK, Snapshot!Work
<1>2. Snapshot!TypeOK'
    BY <1>1 DEF SnapshotInv, Snapshot!TypeOK, Snapshot!LockTypeOK
<1>3. ASSUME NEW o \in Pods PROVE JobCovers(job[o])'
  <2>1. CASE o = p
      BY <1>1, <2>1
  <2>2. CASE o # p
    <3>1. PICK i \in Snapshot!Jobs : i = job[o] /\ job'[o] = i
        BY <1>1, <2>2 DEF SnapshotInv, Snapshot!TypeOK
    <3>2. i.step \in {"next", "upsert"} => \A s \in i.listed : <<s, i.day>> \in Sprints \X Snapshot!Days
        BY JobFields
    <3>3. JobCovers(i)
        BY <3>1 DEF SnapshotInv, SprintsCovered
    <3>4. JobCovers(i)'
        BY <3>2, <3>3 DEF JobCovers
    <3>5. QED
        BY <3>1, <3>4
  <2>3. QED
      BY <2>1, <2>2
<1>4. SprintsCovered'
    BY <1>3 DEF SprintsCovered
<1>5. QED
    BY <1>2, <1>4 DEF SnapshotInv

(* Every step of a run of the job keeps the invariant.                     *)
LEMMA JobStep ==
    ASSUME SnapshotInv, NEW p \in Pods,
           \/ Snapshot!Tick(p) \/ Snapshot!ListActive(p) \/ Snapshot!UpsertSnapshot(p)
           \/ Snapshot!SkipSprint(p) \/ Snapshot!FinishJob(p) \/ Snapshot!ListThrows(p)
           \/ Snapshot!CrashJob(p) \/ \E s \in Sprints : Snapshot!Aggregate(p, s)
    PROVE  SnapshotInv'
<1>1. PICK i \in Snapshot!Jobs : i = job[p]
    BY DEF SnapshotInv, Snapshot!TypeOK
<1>2. JobCovers(i)
    BY <1>1 DEF SnapshotInv, SprintsCovered
<1>3. /\ snapshot \in [Sprints \X Snapshot!Days -> 0..MaxVersion]
      /\ tried \in [Pods -> 0..MaxDay]
      /\ running \subseteq Pods /\ Snapshot!LockTypeOK /\ today \in Snapshot!Days
      /\ p \in running <=> i # Snapshot!NoJob
      /\ crashes \in Nat
    BY <1>1 DEF SnapshotInv, Snapshot!TypeOK, Snapshot!LockTypeOK
<1>4. ASSUME Snapshot!Work(p, Snapshot!NoJob), UNCHANGED <<today, version, final, snapshot, tried>>,
             Snapshot!Release(p) \/ Snapshot!ReleaseFails(p) \/ Snapshot!Throw(p) \/ Snapshot!Crash(p)
      PROVE  SnapshotInv'
  <2>1. Snapshot!LockTypeOK' /\ running' = running \ {p}
    <3>1. lock' \in BOOLEAN /\ outlived' \in BOOLEAN
        BY <1>3, <1>4, Zenon DEF Snapshot!LockTypeOK, Snapshot!Release, Snapshot!ReleaseFails,
           Snapshot!Throw, Snapshot!Crash
    <3>2. running' = running \ {p} /\ owner' \in {owner, {}}
        BY <1>4 DEF Snapshot!Release, Snapshot!ReleaseFails, Snapshot!Throw, Snapshot!Crash
    <3>3. crashes' \in 0..MaxCrashes
        BY <1>3, <1>4, SnapshotBounds DEF Snapshot!LockTypeOK, Snapshot!Release,
           Snapshot!ReleaseFails, Snapshot!Throw, Snapshot!Crash
    <3>4. running' \subseteq Pods /\ owner' \subseteq Pods
        BY <1>3, <3>2 DEF Snapshot!LockTypeOK
    <3>5. QED
        BY <3>1, <3>2, <3>3, <3>4, Zenon DEF Snapshot!LockTypeOK
  <2>2. Snapshot!NoJob.step = "none"
      BY DEF Snapshot!NoJob
  <2>3. JobCovers(Snapshot!NoJob)'
      BY <2>2 DEF JobCovers
  <2>4. QED
      BY <1>3, <1>4, <2>1, <2>2, <2>3, JobTypes, JobGoesOn
<1>5. CASE Snapshot!FinishJob(p) \/ Snapshot!ListThrows(p) \/ Snapshot!CrashJob(p)
    BY <1>4, <1>5 DEF Snapshot!FinishJob, Snapshot!ListThrows, Snapshot!CrashJob, Snapshot!work
<1>6. ASSUME NEW j \in Snapshot!Jobs, j # Snapshot!NoJob, i # Snapshot!NoJob,
             Snapshot!Work(p, j), UNCHANGED <<today, version, final, tried, lock, running, owner, outlived>>,
             crashes' \in 0..MaxCrashes,
             snapshot' \in [Sprints \X Snapshot!Days -> 0..MaxVersion],
             \A k \in Sprints \X Snapshot!Days : snapshot[k] # 0 => snapshot'[k] # 0,
             JobCovers(j)'
      PROVE  SnapshotInv'
  <2>1. Snapshot!LockTypeOK'
      BY <1>3, <1>6 DEF Snapshot!LockTypeOK
  <2>2. QED
      BY <1>3, <1>6, <2>1, JobGoesOn
<1>7. crashes \in 0..MaxCrashes
    BY <1>3 DEF Snapshot!LockTypeOK
<1>8. CASE Snapshot!Tick(p)
  <2>1. CASE Snapshot!Acquire(p) /\ Snapshot!Work(p, [step |-> "list"])
    <3>1. PICK j : j = [step |-> "list"]
        OBVIOUS
    <3>2. j \in Snapshot!Jobs /\ j.step = "list" /\ j # Snapshot!NoJob
        BY <3>1, JobTypes DEF Snapshot!NoJob
    <3>3. Snapshot!LockTypeOK' /\ running' = running \cup {p}
        BY <1>3, <2>1 DEF Snapshot!LockTypeOK, Snapshot!Acquire
    <3>4. /\ UNCHANGED <<today, version, final, snapshot>>
          /\ tried' \in [Pods -> 0..MaxDay]
        BY <1>3, <1>8, SnapshotBounds DEF Snapshot!Tick, Snapshot!work, Snapshot!Days
    <3>5. JobCovers(j)'
        BY <3>2 DEF JobCovers
    <3>6. QED
        BY <1>3, <2>1, <3>1, <3>2, <3>3, <3>4, <3>5, JobGoesOn
  <2>2. CASE UNCHANGED <<Snapshot!lockVars, job>>
    <3>1. UNCHANGED <<today, version, final, snapshot, job, running>> /\ Snapshot!LockTypeOK'
        BY <1>3, <1>8, <2>2 DEF Snapshot!Tick, Snapshot!work, Snapshot!lockVars, Snapshot!LockTypeOK
    <3>2. tried' \in [Pods -> 0..MaxDay]
        BY <1>3, <1>8, SnapshotBounds DEF Snapshot!Tick, Snapshot!Days
    <3>3. Snapshot!TypeOK'
        BY <3>1, <3>2 DEF SnapshotInv, Snapshot!TypeOK
    <3>4. SprintsCovered'
        BY <3>1 DEF SnapshotInv, SprintsCovered, JobCovers
    <3>5. QED
        BY <3>3, <3>4 DEF SnapshotInv
  <2>3. QED
      BY <1>8, <2>1, <2>2 DEF Snapshot!Tick, Snapshot!Work
<1>9. CASE Snapshot!ListActive(p)
  <2>1. PICK j : j = [step |-> "next", day |-> today, listed |-> Snapshot!Active,
                      todo |-> Snapshot!Active, failed |-> {}]
      OBVIOUS
  <2>2. Snapshot!Active \subseteq Sprints
      BY DEF Snapshot!Active
  <2>3. /\ j \in Snapshot!Jobs /\ j # Snapshot!NoJob /\ i # Snapshot!NoJob
        /\ j.todo = Snapshot!Active /\ j.listed = Snapshot!Active
      BY <1>1, <1>3, <1>9, <2>1, <2>2, JobTypes, JobFields DEF Snapshot!ListActive, Snapshot!NoJob
  <2>4. Snapshot!Work(p, j) /\ UNCHANGED <<lock, running, owner, outlived, crashes, today, tried,
                                          version, final, snapshot>>
      BY <1>9, <2>1 DEF Snapshot!ListActive, Snapshot!lockVars, Snapshot!work
  <2>5. JobCovers(j)'
      BY <2>3, <2>4 DEF JobCovers, Snapshot!Active
  <2>6. QED
      BY <1>3, <1>6, <1>7, <2>3, <2>4, <2>5
<1>10. ASSUME NEW s \in Sprints, Snapshot!Aggregate(p, s) PROVE SnapshotInv'
  <2>1. PICK j : j = [step |-> "upsert", day |-> i.day, listed |-> i.listed, todo |-> i.todo \ {s},
                      failed |-> i.failed, sprint |-> s, read |-> version[s]]
      OBVIOUS
  <2>2. /\ i.step = "next" /\ i.day \in Snapshot!Days /\ i # Snapshot!NoJob /\ s \in i.todo
        /\ i.listed \subseteq Sprints /\ i.todo \subseteq Sprints /\ i.failed \subseteq Sprints
    <3>1. i.step = "next" /\ s \in i.todo
        BY <1>1, <1>10 DEF Snapshot!Aggregate
    <3>2. QED
        BY <3>1, JobFields
  <2>3. version[s] \in 1..MaxVersion /\ i.todo \ {s} \in SUBSET Sprints
    <3>1. version[s] \in 0..MaxVersion /\ version[s] # 0
        BY <1>2, <2>2 DEF SnapshotInv, Snapshot!TypeOK, JobCovers
    <3>2. QED
        BY <2>2, <3>1, SnapshotBounds
  <2>4. /\ j \in Snapshot!Jobs /\ j # Snapshot!NoJob
        /\ j.step = "upsert" /\ j.day = i.day /\ j.todo = i.todo \ {s} /\ j.sprint = s
        /\ j.listed = i.listed /\ j.failed = i.failed
    <3>1. j \in Snapshot!Jobs
        BY <2>1, <2>2, <2>3, JobTypes
    <3>2. /\ j.step = "upsert" /\ j.day = i.day /\ j.todo = i.todo \ {s} /\ j.sprint = s
          /\ j.listed = i.listed /\ j.failed = i.failed
        BY <2>1
    <3>3. QED
        BY <3>1, <3>2, JobFields
  <2>5. Snapshot!Work(p, j) /\ UNCHANGED <<lock, running, owner, outlived, crashes, today, tried,
                                          version, final, snapshot>>
      BY <1>1, <1>10, <2>1 DEF Snapshot!Aggregate, Snapshot!lockVars, Snapshot!work
  <2>6. JobCovers(j)'
      BY <1>2, <2>2, <2>4, <2>5 DEF JobCovers
  <2>7. QED
      BY <1>3, <1>6, <1>7, <2>2, <2>4, <2>5, <2>6
<1>11. ASSUME Snapshot!UpsertSnapshot(p) \/ Snapshot!SkipSprint(p) PROVE SnapshotInv'
  <2>1. /\ i.step = "upsert" /\ i.day \in Snapshot!Days
        /\ i.listed \subseteq Sprints /\ i.todo \subseteq Sprints /\ i.failed \subseteq Sprints
        /\ i # Snapshot!NoJob /\ i.sprint \in Sprints /\ i.read \in 1..MaxVersion
    <3>1. i.step = "upsert"
        BY <1>1, <1>11 DEF Snapshot!UpsertSnapshot, Snapshot!SkipSprint, Snapshot!Fail
    <3>2. QED
        BY <3>1, JobFields
  <2>2. PICK k : k = <<i.sprint, i.day>>
      OBVIOUS
  <2>3. k \in Sprints \X Snapshot!Days
      BY <2>1, <2>2
  <2>4. ASSUME NEW f \in SUBSET Sprints, i.failed \subseteq f,
               Snapshot!Continue(p, i.todo, f), crashes' \in 0..MaxCrashes,
               UNCHANGED <<lock, running, owner, outlived, today, tried, version, final>>,
               snapshot' \in [Sprints \X Snapshot!Days -> 0..MaxVersion],
               \A x \in Sprints \X Snapshot!Days : snapshot[x] # 0 => snapshot'[x] # 0,
               snapshot'[k] # 0 \/ i.sprint \in f
        PROVE  SnapshotInv'
    <3>1. PICK j : j = [step |-> "next", day |-> i.day, listed |-> i.listed,
                        todo |-> i.todo, failed |-> f]
        OBVIOUS
    <3>2. /\ j.step = "next" /\ j.day = i.day /\ j.listed = i.listed /\ j.todo = i.todo
          /\ j.failed = f
        BY <3>1
    <3>3. j \in Snapshot!Jobs /\ j # Snapshot!NoJob
      <4>1. j \in Snapshot!Jobs
          BY <2>1, <3>1, JobTypes
      <4>2. QED
          BY <3>2, <4>1, JobFields
    <3>4. Snapshot!Work(p, j)
        BY <1>1, <2>4, <3>1 DEF Snapshot!Continue
    <3>5. JobCovers(j)'
      <4>1. ASSUME NEW z \in i.listed
            PROVE  z \in i.todo \/ snapshot'[<<z, i.day>>] # 0 \/ z \in f
        <5>1. <<z, i.day>> \in Sprints \X Snapshot!Days
            BY <2>1
        <5>2. CASE z = i.sprint
            BY <2>2, <2>4, <5>2
        <5>3. CASE z # i.sprint
            BY <1>2, <2>1, <2>4, <5>1, <5>3 DEF JobCovers
        <5>4. QED
            BY <5>2, <5>3
      <4>2. \A z \in i.todo : version'[z] # 0
          BY <1>2, <2>1, <2>4 DEF JobCovers
      <4>3. QED
          BY <3>2, <4>1, <4>2 DEF JobCovers
    <3>6. QED
        BY <1>6, <2>1, <2>4, <3>3, <3>4, <3>5
  <2>5. CASE Snapshot!UpsertSnapshot(p)
    <3>1. snapshot' = [snapshot EXCEPT ![k] = i.read] /\ Snapshot!Continue(p, i.todo, i.failed)
        BY <1>1, <2>2, <2>5 DEF Snapshot!UpsertSnapshot
    <3>2. UNCHANGED <<lock, running, owner, outlived, crashes, today, tried, version, final>>
        BY <2>5 DEF Snapshot!UpsertSnapshot, Snapshot!lockVars, Snapshot!work
    <3>3. /\ snapshot' \in [Sprints \X Snapshot!Days -> 0..MaxVersion] /\ snapshot'[k] # 0
          /\ \A x \in Sprints \X Snapshot!Days : snapshot[x] # 0 => snapshot'[x] # 0
        BY <1>3, <2>1, <2>3, <3>1
    <3>4. QED
        BY <1>7, <2>1, <2>4, <3>1, <3>2, <3>3
  <2>6. CASE Snapshot!SkipSprint(p)
    <3>1. /\ Snapshot!Continue(p, i.todo, i.failed \cup {i.sprint}) /\ snapshot' = snapshot
          /\ UNCHANGED <<lock, running, owner, outlived, today, tried, version, final>>
        BY <1>1, <2>6 DEF Snapshot!SkipSprint, Snapshot!Fail, Snapshot!work
    <3>2. crashes' \in 0..MaxCrashes
        BY <1>7, <2>6, SnapshotBounds DEF Snapshot!SkipSprint, Snapshot!Fail
    <3>3. QED
        BY <1>3, <2>1, <2>4, <3>1, <3>2
  <2>7. QED
      BY <1>11, <2>5, <2>6
<1>12. QED
    BY <1>5, <1>8, <1>9, <1>10, <1>11

(* The invariant of the snapshot job holds in every state of the           *)
(* composition.                                                            *)
LEMMA SnapshotInvariant == Spec => [](on = "snapshot" => SnapshotInv)
<1> DEFINE Inv == on = "snapshot" => SnapshotInv
<1>1. Init => Inv
  <2>1. SUFFICES ASSUME Snapshot!Init PROVE SnapshotInv
      BY DEF Init
  <2>2. /\ job = [p \in Pods |-> Snapshot!NoJob] /\ running = {}
        /\ lock = FALSE /\ owner = {} /\ outlived = FALSE /\ crashes = 0
      BY <2>1, Zenon DEF Snapshot!Init, Snapshot!LockInit
  <2>3. /\ today = 1 /\ tried = [p \in Pods |-> 0]
        /\ version \in [Sprints -> {0, 1}] /\ final = [s \in Sprints |-> 0]
        /\ snapshot = [k \in Sprints \X Snapshot!Days |-> 0]
      BY <2>1, Zenon DEF Snapshot!Init
  <2>4. Snapshot!NoJob.step = "none" /\ Snapshot!NoJob \in Snapshot!Jobs
      BY JobTypes DEF Snapshot!NoJob
  <2>5. Snapshot!LockTypeOK
    <3>1. lock \in BOOLEAN /\ outlived \in BOOLEAN
        BY <2>2, Zenon
    <3>2. crashes \in 0..MaxCrashes /\ running \subseteq Pods /\ owner \subseteq Pods
        BY <2>2, SnapshotBounds
    <3>3. QED
        BY <3>1, <3>2, Zenon DEF Snapshot!LockTypeOK
  <2>6. QED
      BY <2>2, <2>3, <2>4, <2>5, SnapshotBounds
      DEF SnapshotInv, Snapshot!TypeOK, SprintsCovered, JobCovers, Snapshot!Days
<1>2. Inv /\ [Next]_vars => Inv'
  <2>1. SUFFICES ASSUME on = "snapshot", SnapshotInv, [Next]_vars PROVE SnapshotInv'
      BY ServiceStays
  <2>2. CASE UNCHANGED vars
    <3>1. UNCHANGED <<running, owner, outlived, lock, crashes, today, tried, version, final,
                      snapshot, job>>
        BY <2>2 DEF vars
    <3>2. QED
        BY <2>1, <3>1 DEF SnapshotInv, Snapshot!TypeOK, Snapshot!LockTypeOK, SprintsCovered, JobCovers
  <2>3. CASE Snapshot!Next
      BY <2>1, <2>3, BesidesTheJob, JobStep DEF Snapshot!Next
  <2>4. QED
      BY <2>1, <2>2, <2>3 DEF Next
<1> QED
    BY <1>1, <1>2, PTL DEF Spec

(* A job of SnapshotCronService that reaches its end has a snapshot of its *)
(* day for every sprint that was active when it read the list, but for     *)
(* those whose statements failed; whatever day it is by then, and however many pods    *)
(* have outlived the lock and write the same rows.                         *)
THEOREM JobsCoverTheirDay == Spec => []FinishedJobsCover
<1>1. (on = "snapshot" => SnapshotInv) => FinishedJobsCover
    BY DEF SnapshotInv, SprintsCovered, JobCovers, FinishedJobsCover, Snapshot!FinishedJobsCover
<1> QED
    BY <1>1, SnapshotInvariant, PTL

(* The key is of at most one pod, and whoever runs the job owns it, until  *)
(* a key expired under its owner.                                          *)
SnapshotKeyHeld ==
    /\ \A p, q \in owner : p = q
    /\ ~lock => owner = {}
    /\ ~outlived => running \subseteq owner

(* No step takes the key from its owner.                                   *)
LEMMA SnapshotKeyStays ==
    ASSUME SnapshotKeyHeld, Snapshot!Next
    PROVE  SnapshotKeyHeld'
<1>1. CASE UNCHANGED <<lock, running, owner, outlived>>
    BY <1>1 DEF SnapshotKeyHeld
<1>2. CASE Snapshot!Expire
    BY <1>2 DEF SnapshotKeyHeld, Snapshot!Expire
<1>3. ASSUME NEW p \in Pods, Snapshot!Acquire(p) \/ Snapshot!Release(p)
      PROVE  SnapshotKeyHeld'
    BY <1>3 DEF SnapshotKeyHeld, Snapshot!Acquire, Snapshot!Release
<1>4. ASSUME NEW p \in Pods, Snapshot!ReleaseFails(p) \/ Snapshot!Throw(p) \/ Snapshot!Crash(p)
      PROVE  SnapshotKeyHeld'
    BY <1>4 DEF SnapshotKeyHeld, Snapshot!ReleaseFails, Snapshot!Throw, Snapshot!Crash
<1> QED
    BY <1>1, <1>2, <1>3, <1>4
    DEF Snapshot!Next, Snapshot!NextDay, Snapshot!ExpireJobLock, Snapshot!StartSprint,
        Snapshot!ChangeItems, Snapshot!CompleteSprint, Snapshot!Continue,
        Snapshot!Tick, Snapshot!ListActive, Snapshot!UpsertSnapshot, Snapshot!SkipSprint, Snapshot!Fail,
        Snapshot!FinishJob, Snapshot!ListThrows, Snapshot!CrashJob, Snapshot!Aggregate, Snapshot!lockVars

(* "Snapshot cron lock held by another pod": one pod takes the snapshots of a   *)
(* night, until a job outlives its key, whichever pods crash, throw or do  *)
(* not reach Valkey to release it.                                         *)
THEOREM OnePodTakesSnapshots == Spec => [](on = "snapshot" => Snapshot!JobExclusive)
<1> DEFINE Inv == on = "snapshot" => SnapshotKeyHeld
<1>1. Init => Inv
    BY DEF Init, Snapshot!Init, Snapshot!LockInit, SnapshotKeyHeld
<1>2. Inv /\ [Next]_vars => Inv'
    <2> SUFFICES ASSUME SnapshotKeyHeld, [Next]_vars, on = "snapshot" PROVE SnapshotKeyHeld'
        BY ServiceStays
    <2>1. CASE UNCHANGED vars
        BY <2>1 DEF vars, SnapshotKeyHeld
    <2>2. CASE Next
        BY <2>2, SnapshotKeyStays DEF Next
    <2> QED
        BY <2>1, <2>2
<1>3. Inv => (on = "snapshot" => Snapshot!JobExclusive)
    <2> SUFFICES ASSUME SnapshotKeyHeld, ~outlived PROVE Snapshot!Cardinality(running) <= 1
        BY DEF Snapshot!JobExclusive
    <2>1. running = {} \/ \E p : running = {p}
        BY DEF SnapshotKeyHeld
    <2>2. Cardinality(running) <= 1
        <3>1. CASE running = {}
            BY <3>1, FS_EmptySet
        <3>2. ASSUME NEW p, running = {p} PROVE Cardinality(running) <= 1
            BY <3>2, FS_Singleton
        <3> QED
            BY <2>1, <3>1, <3>2
    <2> QED
        BY <2>2 DEF Snapshot!Cardinality, Cardinality
<1> QED
    BY <1>1, <1>2, <1>3, PTL DEF Spec

-----------------------------------------------------------------------------
(* TimeLogs: hours kept in step with the logs                              *)

LogRows == [hours : 0..MaxHours, deleted : BOOLEAN]
Sums == {Time!Sum(rows_) : rows_ \in [Logs -> LogRows]}

LogRequests ==
    [step : {"idle", "edit", "watch", "unwatch"}]
    \cup [step : {"find", "statement"}, log : Logs, hours : 0..MaxHours]
    \cup [step : {"sync", "commit"}, log : Logs, row : LogRows, sum : Sums]

(* The logs as they are when a transaction commits.                        *)
WithRow(q) == [log EXCEPT ![q.log] = q.row]

(* Transactions that are open at the same time know of each other, and one *)
(* that has overlapped no other has the sum of the logs with its own.      *)
TimeInv ==
    /\ log \in [Logs -> LogRows] /\ request \in [Clients -> LogRequests]
    /\ \A c, d \in Clients : c # d /\ Time!Open(c) /\ Time!Open(d) => c \in mixed
    /\ \A c \in Clients \ mixed :
          Time!Open(c) => request[c].sum = Time!Sum(WithRow(request[c]))
    /\ Time!HoursFollowLogs

(* The sum of no logs is none.                                             *)
LEMMA NothingLogged ==
    Time!Sum([l \in Logs |-> Time!None]) = 0
<1>1. {l \in Logs : [k \in Logs |-> Time!None][l] # Time!None /\ ~[k \in Logs |-> Time!None][l].deleted} = {}
    OBVIOUS
<1> QED
    BY <1>1 DEF Time!Sum, Time!MapThenSumSet, Time!MapThenFoldSet

(* Steps that leave all of this alone.                                     *)
LEMMA TimeUnchanged ==
    ASSUME TimeInv, UNCHANGED <<log, actualHours, mixed, inStep, request>>
    PROVE  TimeInv'
<1>1. log' \in [Logs -> LogRows] /\ request' \in [Clients -> LogRequests]
    BY DEF TimeInv
<1>2. \A d, e \in Clients : d # e /\ Time!Open(d)' /\ Time!Open(e)' => d \in mixed'
    BY DEF TimeInv, Time!Open, Time!At
<1>3. \A d \in Clients \ mixed' :
         Time!Open(d)' => (request[d].sum = Time!Sum(WithRow(request[d])))'
    BY DEF TimeInv, Time!Open, Time!At, WithRow
<1>4. Time!HoursFollowLogs'
    BY DEF TimeInv, Time!HoursFollowLogs
<1> QED
    BY <1>1, <1>2, <1>3, <1>4 DEF TimeInv

(* Requests that change neither rows nor what is in flight between a       *)
(* statement and its commit.                                               *)
LEMMA TimeAside ==
    ASSUME TimeInv, NEW c \in Clients, NEW q \in LogRequests,
           ~Time!Open(c), q.step \notin {"sync", "commit"},
           request' = [request EXCEPT ![c] = q],
           UNCHANGED <<log, mixed>>,
           UNCHANGED <<actualHours, inStep>> \/ inStep' = FALSE
    PROVE  TimeInv'
<1>1. /\ log' \in [Logs -> LogRows] /\ request' \in [Clients -> LogRequests]
      /\ request'[c] = q
    BY DEF TimeInv
<1>2. \A d \in Clients : Time!Open(d)' => Time!Open(d) /\ request'[d] = request[d]
    BY <1>1 DEF TimeInv, Time!Open, Time!At
<1>3. \A d, e \in Clients : d # e /\ Time!Open(d)' /\ Time!Open(e)' => d \in mixed'
    BY <1>2 DEF TimeInv
<1>4. \A d \in Clients \ mixed' :
         Time!Open(d)' => (request[d].sum = Time!Sum(WithRow(request[d])))'
    <2> SUFFICES ASSUME NEW d \in Clients \ mixed', Time!Open(d)'
                 PROVE  (request[d].sum = Time!Sum(WithRow(request[d])))'
        OBVIOUS
    <2>1. request[d].sum = Time!Sum(WithRow(request[d])) /\ request'[d] = request[d]
        BY <1>2 DEF TimeInv
    <2>2. Time!Sum(WithRow(request[d]))' = Time!Sum(WithRow(request[d]))
        BY <2>1 DEF WithRow
    <2> QED
        BY <2>1, <2>2
<1>5. Time!HoursFollowLogs'
    <2>1. Time!Sum(log)' = Time!Sum(log)
        OBVIOUS
    <2> QED
        BY <2>1 DEF TimeInv, Time!HoursFollowLogs
<1> QED
    BY <1>1, <1>3, <1>4, <1>5 DEF TimeInv

(* A statement: every other transaction that is open knows of it.          *)
LEMMA TimeStatement ==
    ASSUME TimeInv, NEW c \in Clients, Time!Statement(c)
    PROVE  TimeInv'
<1>1. PICK r : r = request[c]
    OBVIOUS
<1>2. r.step = "statement" /\ r.log \in Logs /\ r.hours \in 0..MaxHours /\ ~Time!Open(c)
    BY <1>1 DEF TimeInv, LogRequests, Time!Statement, Time!Ready, Time!Open, Time!At
<1>3. PICK w : w = Time!RowOf(r)
    OBVIOUS
<1>4. w \in LogRows
    BY <1>2, <1>3 DEF TimeInv, LogRows, Time!RowOf
<1>5. PICK q : q = [step |-> "sync", log |-> r.log, row |-> w, sum |-> Time!Sum([log EXCEPT ![r.log] = w])]
    OBVIOUS
<1>6. q \in LogRequests
    <2>1. [log EXCEPT ![r.log] = w] \in [Logs -> LogRows]
        BY <1>2, <1>4 DEF TimeInv
    <2> QED
        BY <1>2, <1>4, <1>5, <2>1 DEF LogRequests, Sums
<1>7. /\ request' = [request EXCEPT ![c] = q]
      /\ mixed' = IF {d \in Clients : Time!Open(d)} = {} THEN mixed
                  ELSE mixed \cup {d \in Clients : Time!Open(d)} \cup {c}
      /\ UNCHANGED <<log, actualHours, inStep>>
    BY <1>1, <1>3, <1>5 DEF Time!Statement, Time!TakeSum, Time!GoTo, Time!watch
<1>8. \A d \in Clients \ {c} : request'[d] = request[d] /\ (Time!Open(d)' <=> Time!Open(d))
    BY <1>7 DEF TimeInv, Time!Open, Time!At
<1>9. request' \in [Clients -> LogRequests] /\ request'[c] = q
    BY <1>6, <1>7 DEF TimeInv
<1>10. \A d, e \in Clients : d # e /\ Time!Open(d)' /\ Time!Open(e)' => d \in mixed'
    BY <1>7, <1>8 DEF TimeInv
<1>11. \A d \in Clients \ mixed' :
         Time!Open(d)' => (request[d].sum = Time!Sum(WithRow(request[d])))'
    <2> SUFFICES ASSUME NEW d \in Clients \ mixed', Time!Open(d)'
                 PROVE  (request[d].sum = Time!Sum(WithRow(request[d])))'
        OBVIOUS
    <2>1. CASE d = c
        BY <2>1, <1>5, <1>7, <1>9 DEF WithRow
    <2>2. CASE d # c
        <3>1. request[d].sum = Time!Sum(WithRow(request[d])) /\ request'[d] = request[d]
            BY <1>7, <1>8, <2>2 DEF TimeInv
        <3>2. Time!Sum(WithRow(request[d]))' = Time!Sum(WithRow(request[d]))
            BY <1>7, <3>1 DEF WithRow
        <3> QED
            BY <3>1, <3>2
    <2> QED
        BY <2>1, <2>2
<1>12. Time!HoursFollowLogs'
    BY <1>7 DEF TimeInv, Time!HoursFollowLogs
<1> QED
    BY <1>7, <1>9, <1>10, <1>11, <1>12 DEF TimeInv

(* A transaction ends.                                                     *)
LEMMA TimeEnds ==
    ASSUME TimeInv, NEW c \in Clients, Time!Open(c),
           request' = [request EXCEPT ![c] = Time!Idle],
           mixed' = mixed \ {c}
    PROVE  /\ request' \in [Clients -> LogRequests]
           /\ \A d \in Clients : Time!Open(d)' => d # c /\ Time!Open(d) /\ request'[d] = request[d]
           /\ \A d, e \in Clients : d # e /\ Time!Open(d)' /\ Time!Open(e)' => d \in mixed'
           /\ \A d \in Clients \ mixed' : Time!Open(d)' => d \notin mixed
<1>1. request' \in [Clients -> LogRequests] /\ request'[c] = Time!Idle
    BY DEF TimeInv, LogRequests, Time!Idle
<1>2. \A d \in Clients : Time!Open(d)' => d # c /\ Time!Open(d) /\ request'[d] = request[d]
    BY <1>1 DEF TimeInv, Time!Open, Time!At, Time!Idle
<1> QED
    BY <1>1, <1>2 DEF TimeInv

(* The logs and the hours become visible together.                         *)
LEMMA TimeCommit ==
    ASSUME TimeInv, NEW c \in Clients, Time!Commit(c)
    PROVE  TimeInv'
<1>1. PICK q : q = request[c]
    OBVIOUS
<1>2. /\ Time!Open(c) /\ q.log \in Logs /\ q.row \in LogRows
      /\ request' = [request EXCEPT ![c] = Time!Idle]
      /\ mixed' = mixed \ {c} /\ inStep' = (c \notin mixed)
      /\ log' = WithRow(q) /\ actualHours' = q.sum
    BY <1>1 DEF TimeInv, LogRequests, WithRow, Time!Commit, Time!Open, Time!At, Time!Return, Time!GoTo
<1>3. /\ request' \in [Clients -> LogRequests]
      /\ \A d \in Clients : Time!Open(d)' => d # c /\ Time!Open(d) /\ request'[d] = request[d]
      /\ \A d, e \in Clients : d # e /\ Time!Open(d)' /\ Time!Open(e)' => d \in mixed'
      /\ \A d \in Clients \ mixed' : Time!Open(d)' => d \notin mixed
    BY <1>2, TimeEnds
<1>4. log' \in [Logs -> LogRows]
    BY <1>2 DEF TimeInv, WithRow
<1>5. \A d \in Clients \ mixed' : ~Time!Open(d)'
    BY <1>2, <1>3 DEF TimeInv
<1>6. Time!HoursFollowLogs'
    BY <1>1, <1>2 DEF TimeInv, Time!HoursFollowLogs
<1> QED
    BY <1>3, <1>4, <1>5, <1>6 DEF TimeInv

(* A transaction that rolls back leaves hours and logs in step.            *)
LEMMA TimeRollBack ==
    ASSUME TimeInv, NEW c \in Clients, Time!RollBack(c)
    PROVE  TimeInv'
<1>1. /\ Time!Open(c) /\ request' = [request EXCEPT ![c] = Time!Idle]
      /\ mixed' = mixed \ {c} /\ UNCHANGED <<log, actualHours, inStep>>
    BY DEF Time!RollBack, Time!Return, Time!GoTo
<1>2. /\ request' \in [Clients -> LogRequests]
      /\ \A d \in Clients : Time!Open(d)' => d # c /\ Time!Open(d) /\ request'[d] = request[d]
      /\ \A d, e \in Clients : d # e /\ Time!Open(d)' /\ Time!Open(e)' => d \in mixed'
      /\ \A d \in Clients \ mixed' : Time!Open(d)' => d \notin mixed
    BY <1>1, TimeEnds
<1>3. \A d \in Clients \ mixed' : ~Time!Open(d)'
    BY <1>1, <1>2 DEF TimeInv
<1>4. Time!HoursFollowLogs'
    BY <1>1 DEF TimeInv, Time!HoursFollowLogs
<1> QED
    BY <1>1, <1>2, <1>3, <1>4 DEF TimeInv

(* The lock is taken: the sum stays what it was.                           *)
LEMMA TimeSync ==
    ASSUME TimeInv, NEW c \in Clients, Time!SyncActualHours(c)
    PROVE  TimeInv'
<1>1. PICK r : r = request[c]
    OBVIOUS
<1>2. PICK q : q = [r EXCEPT !.step = "commit"]
    OBVIOUS
<1>3. r \in [step : {"sync", "commit"}, log : Logs, row : LogRows, sum : Sums] /\ Time!Open(c)
    BY <1>1 DEF TimeInv, LogRequests, Time!SyncActualHours, Time!Open, Time!At
<1>4. q \in LogRequests /\ q.log = r.log /\ q.row = r.row /\ q.sum = r.sum
    BY <1>2, <1>3 DEF LogRequests
<1>5. request' = [request EXCEPT ![c] = q] /\ UNCHANGED <<log, actualHours, mixed, inStep>>
    BY <1>1, <1>2 DEF Time!SyncActualHours, Time!GoTo
<1>6. /\ request' \in [Clients -> LogRequests] /\ request'[c] = q
      /\ \A d \in Clients \ {c} : request'[d] = request[d]
    BY <1>4, <1>5 DEF TimeInv
<1>7. \A d \in Clients : Time!Open(d)' => Time!Open(d)
    BY <1>3, <1>6 DEF Time!Open, Time!At
<1>8. \A d, e \in Clients : d # e /\ Time!Open(d)' /\ Time!Open(e)' => d \in mixed'
    BY <1>5, <1>7 DEF TimeInv
<1>9. \A d \in Clients \ mixed' :
         Time!Open(d)' => (request[d].sum = Time!Sum(WithRow(request[d])))'
    <2> SUFFICES ASSUME NEW d \in Clients \ mixed', Time!Open(d)'
                 PROVE  (request[d].sum = Time!Sum(WithRow(request[d])))'
        OBVIOUS
    <2>1. request[d].sum = Time!Sum(WithRow(request[d]))
        BY <1>5, <1>7 DEF TimeInv
    <2>2. request'[d].sum = request[d].sum /\ WithRow(request[d])' = WithRow(request[d])
        BY <1>1, <1>4, <1>5, <1>6 DEF WithRow
    <2> QED
        BY <2>1, <2>2
<1>10. Time!HoursFollowLogs'
    BY <1>5 DEF TimeInv, Time!HoursFollowLogs
<1> QED
    BY <1>5, <1>6, <1>8, <1>9, <1>10 DEF TimeInv

(* Reading the log before its change keeps the invariant.                  *)
LEMMA TimeFind ==
    ASSUME TimeInv, NEW c \in Clients, Time!FindTimeLog(c)
    PROVE  TimeInv'
<1>1. PICK r : r = request[c]
    OBVIOUS
<1>2. PICK q : q = IF Time!Found(r.log) THEN [r EXCEPT !.step = "statement"] ELSE Time!Idle
    OBVIOUS
<1>3. r \in [step : {"find", "statement"}, log : Logs, hours : 0..MaxHours] /\ ~Time!Open(c)
    BY <1>1 DEF TimeInv, LogRequests, Time!FindTimeLog, Time!Open, Time!At
<1>4. q \in LogRequests /\ q.step \notin {"sync", "commit"}
    BY <1>2, <1>3 DEF LogRequests, Time!Idle
<1>5. request' = [request EXCEPT ![c] = q] /\ UNCHANGED <<log, actualHours, mixed, inStep>>
    BY <1>1, <1>2 DEF Time!FindTimeLog, Time!GoTo, Time!hours
<1> QED
    BY <1>3, <1>4, <1>5, TimeAside

(* Requests that begin, and those that are not about logs.                 *)
LEMMA TimeOthers ==
    ASSUME TimeInv, ServicesAssumption, NEW c \in Clients,
           \/ \E l \in Logs : \/ \E h \in 1..MaxHours : Time!LogTime(c, l, h)
                            \/ \E h \in 0..MaxHours : Time!UpdateTimeLog(c, l, h)
           \/ Time!EditHours(c) \/ Time!WriteHours(c)
           \/ Time!Watch(c) \/ Time!Unwatch(c) \/ Time!WriteWatch(c)
    PROVE  TimeInv'
<1>1. PICK q \in LogRequests :
         /\ ~Time!Open(c) /\ q.step \notin {"sync", "commit"}
         /\ request' = [request EXCEPT ![c] = q]
         /\ UNCHANGED <<log, mixed>>
         /\ UNCHANGED <<actualHours, inStep>> \/ inStep' = FALSE
    <2>1. Time!Idle \in LogRequests /\ [step |-> "edit"] \in LogRequests
          /\ [step |-> "watch"] \in LogRequests /\ [step |-> "unwatch"] \in LogRequests
        BY DEF LogRequests, Time!Idle
    <2>2. CASE \E l \in Logs : \/ \E h \in 1..MaxHours : Time!LogTime(c, l, h)
                              \/ \E h \in 0..MaxHours : Time!UpdateTimeLog(c, l, h)
        <3>1. PICK l \in Logs, h \in 0..MaxHours : Time!LogTime(c, l, h) \/ Time!UpdateTimeLog(c, l, h)
            <4>1. 1..MaxHours \subseteq 0..MaxHours
                BY DEF ServicesAssumption, Time!TimeLogsAssumption
            <4> QED
                BY <2>2, <4>1
        <3>2. PICK s \in {"find", "statement"} :
                 Time!Begin(c, [step |-> s, log |-> l, hours |-> h]) /\ UNCHANGED Time!hours
            BY <3>1 DEF Time!LogTime, Time!UpdateTimeLog
        <3>3. [step |-> s, log |-> l, hours |-> h] \in LogRequests
            BY DEF LogRequests
        <3>4. request[c] = Time!Idle /\ request' = [request EXCEPT ![c] = [step |-> s, log |-> l, hours |-> h]]
              /\ UNCHANGED <<log, actualHours, mixed, inStep>>
            BY <3>2 DEF Time!Begin, Time!GoTo, Time!hours
        <3>5. ~Time!Open(c) /\ [step |-> s, log |-> l, hours |-> h].step \notin {"sync", "commit"}
            BY <3>4 DEF Time!Open, Time!At, Time!Idle
        <3> QED
            BY <3>3, <3>4, <3>5
    <2>3. CASE Time!EditHours(c) \/ Time!Watch(c) \/ Time!Unwatch(c)
        BY <2>1, <2>3 DEF Time!EditHours, Time!Watch, Time!Unwatch, Time!Begin, Time!GoTo,
                          Time!Open, Time!At, Time!Idle, Time!hours
    <2>4. CASE Time!WriteHours(c) \/ Time!WriteWatch(c)
        BY <2>1, <2>4 DEF Time!WriteHours, Time!WriteWatch, Time!Return, Time!GoTo,
                          Time!Open, Time!At, Time!Idle, Time!hours
    <2> QED
        BY <2>2, <2>3, <2>4
<1> QED
    BY <1>1, TimeAside

(* Every step keeps hours and logs in step.                                *)
LEMMA TimeStep ==
    ASSUME TimeInv, ServicesAssumption, Time!Next
    PROVE  TimeInv'
<1>1. CASE Time!AutoWatch
    BY <1>1, TimeUnchanged DEF Time!AutoWatch, Time!hours
<1>2. ASSUME NEW c \in Clients,
             \/ Time!FindTimeLog(c) \/ Time!Statement(c) \/ Time!SyncActualHours(c)
             \/ Time!Commit(c) \/ Time!RollBack(c)
      PROVE  TimeInv'
    BY <1>2, TimeFind, TimeStatement, TimeSync, TimeCommit, TimeRollBack
<1>3. ASSUME NEW c \in Clients,
             \/ \E l \in Logs : \/ \E h \in 1..MaxHours : Time!LogTime(c, l, h)
                              \/ \E h \in 0..MaxHours : Time!UpdateTimeLog(c, l, h)
             \/ Time!EditHours(c) \/ Time!WriteHours(c)
             \/ Time!Watch(c) \/ Time!Unwatch(c) \/ Time!WriteWatch(c)
      PROVE  TimeInv'
    BY <1>3, TimeOthers
<1> QED
    BY <1>1, <1>2, <1>3 DEF Time!Next

(* The invariant of hours and logs holds in every state of the             *)
(* composition.                                                            *)
LEMMA TimeInvariant == Spec => [](on = "time" => TimeInv)
<1> DEFINE Inv == on = "time" => TimeInv
<1>1. Init => Inv
    <2> SUFFICES ASSUME Time!Init PROVE TimeInv
        BY DEF Init
    <2>1. /\ log \in [Logs -> LogRows] /\ request \in [Clients -> LogRequests]
          /\ \A c \in Clients : ~Time!Open(c)
        BY ServicesAssumption DEF ServicesAssumption, Time!TimeLogsAssumption, Time!Init, LogRows,
           LogRequests, Time!None, Time!Idle, Time!Open, Time!At
    <2>2. Time!HoursFollowLogs
        BY NothingLogged DEF Time!Init, Time!HoursFollowLogs
    <2> QED
        BY <2>1, <2>2 DEF TimeInv
<1>2. Inv /\ [Next]_vars => Inv'
    <2> SUFFICES ASSUME Inv, [Next]_vars, on = "time" PROVE TimeInv'
        BY ServiceStays
    <2>1. CASE UNCHANGED vars
        BY <2>1, TimeUnchanged DEF vars
    <2>2. CASE Next
        BY <2>2, TimeStep, ServicesAssumption DEF Next
    <2> QED
        BY <2>1, <2>2
<1> QED
    BY <1>1, <1>2, PTL DEF Spec

(* After a transaction that overlapped no other, and until somebody enters *)
(* hours by hand, actual_hours is the sum of the logs that are not deleted,*)
(* for any number of logs and of requests that update, delete and lose     *)
(* their connection.                                                       *)
THEOREM HoursInStep == Spec => []HoursFollowLogs
<1>1. (on = "time" => TimeInv) => HoursFollowLogs
    BY DEF HoursFollowLogs, TimeInv
<1> QED
    BY <1>1, TimeInvariant, PTL

(* The sum over a set takes one element, then the rest.                    *)
Chosen(s) == CHOOSE l \in s : TRUE
Adds(f, S, r) ==
    f = [s \in SUBSET S |-> IF s = {} THEN 0 ELSE r[Chosen(s)].hours + f[s \ {Chosen(s)}]]

(* The logs that count.                                                    *)
Kept(r) == {l \in Logs : r[l] # Time!None /\ ~r[l].deleted}

(* A set of numbers that is not empty has a least one.                     *)
LEMMA LeastOf ==
    ASSUME NEW N \in SUBSET Nat, N # {}
    PROVE  \E n \in N : \A m \in N : n <= m
<1>1. IsWellFoundedOn(OpToRel(<, Nat), Nat)
    BY Zenon, NatLessThanWellFounded
<1> DEFINE R == OpToRel(<, Nat)
<1>2. \A m, n \in Nat : m < n => <<m, n>> \in R
    BY DEF OpToRel
<1> HIDE DEF R
<1>3. PICK n \in N : \A m \in N : ~(<<m, n>> \in R)
    <2>1. IsWellFoundedOn(R, Nat)
        BY Zenon, <1>1 DEF R
    <2> QED
        BY <2>1, WFMin
<1>4. \A m \in N : ~(m < n)
    BY <1>2, <1>3
<1>5. \A m \in N : n <= m
    BY <1>4
<1> QED
    BY <1>5

(* The sum of the logs adds up the hours of those that are kept.           *)
LEMMA SumAdds ==
    ASSUME NEW r
    PROVE  Time!Sum(r) = (CHOOSE f : Adds(f, Kept(r), r))[Kept(r)]
    BY DEF Time!Sum, Time!MapThenSumSet, Time!MapThenFoldSet, Adds, Chosen, Kept

(* There is a function that adds up, over every finite set: no least size  *)
(* lacks one.                                                              *)
LEMMA AddsExists ==
    ASSUME NEW S, IsFiniteSet(S), NEW r
    PROVE  \E f : Adds(f, S, r)
<1> DEFINE Value(f, s) == IF s = {} THEN 0 ELSE r[Chosen(s)].hours + f[s \ {Chosen(s)}]
           Upto(n) == \E f : /\ f = [s \in SUBSET S |-> f[s]]
                             /\ \A s \in SUBSET S : Cardinality(s) <= n => f[s] = Value(f, s)
           N == {n \in Nat : ~Upto(n)}
<1>0. \A s \in SUBSET S :
         /\ Cardinality(s) \in Nat
         /\ Cardinality(s) <= Cardinality(S)
         /\ s # {} => /\ Chosen(s) \in s
                      /\ Cardinality(s \ {Chosen(s)}) = Cardinality(s) - 1
                      /\ Cardinality(s) # 0
    BY FS_Subset, FS_CardinalityType, FS_RemoveElement, FS_EmptySet DEF Chosen
<1>1. Upto(0)
    <2> DEFINE f == [s \in SUBSET S |-> 0]
    <2>1. \A s \in SUBSET S : f[s] = 0
        OBVIOUS
    <2>2. f = [s \in SUBSET S |-> f[s]]
        OBVIOUS
    <2> HIDE DEF f
    <2>3. \A s \in SUBSET S : Cardinality(s) <= 0 => f[s] = Value(f, s)
        BY <1>0, <2>1
    <2> QED
        BY <2>2, <2>3
<1>2. ASSUME NEW n \in Nat, n # 0, Upto(n - 1)
      PROVE  Upto(n)
    <2>1. PICK g : /\ g = [s \in SUBSET S |-> g[s]]
                   /\ \A s \in SUBSET S : Cardinality(s) <= n - 1 => g[s] = Value(g, s)
        BY <1>2
    <2> DEFINE f == [s \in SUBSET S |-> IF Cardinality(s) = n THEN Value(g, s) ELSE g[s]]
    <2>2. \A s \in SUBSET S : f[s] = IF Cardinality(s) = n THEN Value(g, s) ELSE g[s]
        OBVIOUS
    <2>3. f = [s \in SUBSET S |-> f[s]]
        OBVIOUS
    <2> HIDE DEF f
    <2>4. ASSUME NEW s \in SUBSET S, Cardinality(s) <= n
          PROVE  f[s] = Value(f, s)
        <3>1. f[s] = Value(g, s)
            <4>0. Cardinality(s) \in Nat
                BY <1>0
            <4>1. Cardinality(s) # n => Cardinality(s) <= n - 1
                BY <4>0, <2>4
            <4>2. CASE Cardinality(s) = n
                BY <2>2, <4>2
            <4>3. CASE Cardinality(s) # n
                <5>1. g[s] = Value(g, s)
                    BY <2>1, <4>1, <4>3
                <5>2. f[s] = g[s]
                    BY <2>2, <4>3
                <5> QED
                    BY <5>1, <5>2
            <4> QED
                BY <4>2, <4>3
        <3>2. s # {} => f[s \ {Chosen(s)}] = g[s \ {Chosen(s)}]
            <4> SUFFICES ASSUME s # {} PROVE f[s \ {Chosen(s)}] = g[s \ {Chosen(s)}]
                OBVIOUS
            <4>1. Cardinality(s \ {Chosen(s)}) # n /\ s \ {Chosen(s)} \in SUBSET S
                BY <1>0, <2>4
            <4> QED
                BY <4>1, <2>2
        <3> QED
            BY <3>1, <3>2
    <2> QED
        BY <2>3, <2>4
<1>3. N \subseteq Nat /\ \A n \in Nat : n \notin N => Upto(n)
    OBVIOUS
<1>4. \A n \in N : ~Upto(n)
    OBVIOUS
<1> HIDE DEF N, Upto
<1>5. N = {}
    <2> SUFFICES ASSUME N # {} PROVE FALSE
        OBVIOUS
    <2>1. PICK n \in N : \A m \in N : n <= m
        BY <1>3, LeastOf
    <2>2. n \in Nat /\ n # 0 /\ n - 1 \in Nat /\ ~(n <= n - 1)
        BY <1>1, <1>3, <1>4
    <2> QED
        BY <1>2, <1>3, <1>4, <2>1, <2>2
<1>6. Upto(Cardinality(S))
    BY <1>3, <1>5, FS_CardinalityType
<1>7. PICK f : /\ f = [s \in SUBSET S |-> f[s]]
               /\ \A s \in SUBSET S : Cardinality(s) <= Cardinality(S) => f[s] = Value(f, s)
    BY <1>6 DEF Upto
<1>8. \A s \in SUBSET S : f[s] = Value(f, s)
    BY <1>0, <1>7
<1>9. f = [s \in SUBSET S |-> Value(f, s)]
    BY <1>7, <1>8
<1> QED
    BY <1>9 DEF Adds

(* What is logged adds up to no more than the longest logs would.          *)
LEMMA SumIsBounded ==
    ASSUME NEW r \in [Logs -> LogRows]
    PROVE  Time!Sum(r) \in 0..Time!Most
<1> DEFINE S == Kept(r)
           f == CHOOSE g : Adds(g, S, r)
           Fits(n) == \A s \in SUBSET S : Cardinality(s) = n => f[s] \in 0..MaxHours * n
           N == {n \in Nat : ~Fits(n)}
<1>0. IsFiniteSet(Logs) /\ MaxHours \in Nat /\ S \subseteq Logs
    BY ServicesAssumption DEF Time!TimeLogsAssumption, Time!IsFiniteSet, IsFiniteSet, Kept
<1> HIDE DEF S
<1>1. IsFiniteSet(S)
    BY <1>0, FS_Subset
<1>2. Adds(f, S, r)
    BY <1>1, AddsExists
<1>3. Time!Sum(r) = f[S]
    BY SumAdds DEF S
<1> HIDE DEF f
<1>4. \A s \in SUBSET S : f[s] = IF s = {} THEN 0 ELSE r[Chosen(s)].hours + f[s \ {Chosen(s)}]
    BY <1>2 DEF Adds
<1>5. \A s \in SUBSET S :
         /\ Cardinality(s) \in Nat
         /\ s # {} => /\ Chosen(s) \in s
                      /\ Cardinality(s \ {Chosen(s)}) = Cardinality(s) - 1
                      /\ Cardinality(s) # 0
    BY <1>1, FS_Subset, FS_CardinalityType, FS_RemoveElement, FS_EmptySet DEF Chosen
<1>6. Fits(0)
    <2>1. \A s \in SUBSET S : Cardinality(s) = 0 => f[s] = 0
        BY <1>4, <1>5
    <2> QED
        BY <1>0, <2>1
<1>7. ASSUME NEW n \in Nat, n # 0, Fits(n - 1)
      PROVE  Fits(n)
    <2> SUFFICES ASSUME NEW s \in SUBSET S, Cardinality(s) = n
                 PROVE  f[s] \in 0..MaxHours * n
        OBVIOUS
    <2>1. s # {} /\ s \ {Chosen(s)} \in SUBSET S /\ Chosen(s) \in Logs
        BY <1>0, <1>5, <1>7, <1>1, FS_EmptySet
    <2>2. f[s \ {Chosen(s)}] \in 0..MaxHours * (n - 1)
        BY <1>5, <1>7, <2>1
    <2>3. r[Chosen(s)].hours \in 0..MaxHours
        BY <2>1 DEF LogRows
    <2>4. MaxHours * (n - 1) + MaxHours = MaxHours * n /\ MaxHours * n \in Nat /\ MaxHours * (n - 1) \in Nat
        BY <1>0, <1>7
    <2>5. f[s] = r[Chosen(s)].hours + f[s \ {Chosen(s)}]
        BY <1>4, <2>1
    <2> QED
        BY <1>0, <2>2, <2>3, <2>4, <2>5
<1>8. N \subseteq Nat /\ (\A n \in Nat : n \notin N => Fits(n)) /\ (\A n \in N : ~Fits(n))
    OBVIOUS
<1> HIDE DEF N, Fits
<1>9. N = {}
    <2> SUFFICES ASSUME N # {} PROVE FALSE
        OBVIOUS
    <2>1. PICK n \in N : \A m \in N : n <= m
        BY <1>8, LeastOf
    <2>2. n \in Nat /\ n # 0 /\ n - 1 \in Nat /\ ~(n <= n - 1)
        BY <1>6, <1>8
    <2> QED
        BY <1>7, <1>8, <2>1, <2>2
<1>10. f[S] \in 0..MaxHours * Cardinality(S)
    BY <1>5, <1>8, <1>9 DEF Fits
<1>11. MaxHours * Cardinality(S) <= MaxHours * Cardinality(Logs) /\ MaxHours * Cardinality(Logs) \in Nat
       /\ MaxHours * Cardinality(S) \in Nat
    <2>1. Cardinality(S) \in Nat /\ Cardinality(Logs) \in Nat /\ Cardinality(S) <= Cardinality(Logs)
        BY <1>0, FS_Subset, FS_CardinalityType
    <2> QED
        BY <1>0, <2>1
<1>12. Time!Cardinality(Logs) = Cardinality(Logs)
    BY DEF Time!Cardinality, Cardinality
<1> QED
    BY <1>3, <1>10, <1>11, <1>12 DEF Time!Most

(* A log that is deleted was there when its request looked, and no row     *)
(* goes away.                                                              *)
TimeTypes ==
    /\ Time!TypeOK
    /\ \A c \in Clients :
          request[c].step = "statement" /\ request[c].hours = 0 => log[request[c].log] # Time!None

(* What the assumption on the constants says of logs and hours.            *)
LEMMA TimeConstants ==
    /\ MaxHours \in Nat \ {0}
    /\ Time!Rows \cup {Time!None} \subseteq LogRows
    /\ Time!None \notin Time!Rows
    /\ Time!Most \in Nat
    /\ Time!ByHand \in Nat /\ Time!ByHand = Time!Most + 1
    /\ 0..Time!Most \subseteq 0..Time!ByHand
<1>1. MaxHours \in Nat \ {0} /\ IsFiniteSet(Logs)
    BY ServicesAssumption DEF Time!TimeLogsAssumption, Time!IsFiniteSet, IsFiniteSet
<1>2. Time!Cardinality(Logs) \in Nat
    <2>1. Time!Cardinality(Logs) = Cardinality(Logs)
        BY DEF Time!Cardinality, Cardinality
    <2> QED
        BY <1>1, <2>1, FS_CardinalityType
<1>3. Time!Most \in Nat
    BY <1>1, <1>2 DEF Time!Most
<1>4. Time!ByHand \in Nat /\ Time!ByHand = Time!Most + 1
    BY <1>3 DEF Time!ByHand
<1>5. Time!Rows \cup {Time!None} \subseteq LogRows /\ Time!None \notin Time!Rows
    <2>1. 1..MaxHours \subseteq 0..MaxHours /\ 0 \in 0..MaxHours /\ 0 \notin 1..MaxHours
        BY <1>1
    <2>2. Time!None \in LogRows /\ Time!None.hours = 0
        BY <2>1 DEF Time!None, LogRows
    <2>3. \A q \in Time!Rows : q \in LogRows /\ q.hours \in 1..MaxHours
        BY <2>1 DEF Time!Rows, LogRows
    <2> QED
        BY <2>1, <2>2, <2>3
<1> QED
    BY <1>1, <1>3, <1>4, <1>5

(* What is in flight at each step.                                         *)
LEMMA TimeRequests ==
    ASSUME NEW q \in Time!Requests
    PROVE  /\ q.step \in {"idle", "find", "statement", "sync", "commit", "edit", "watch", "unwatch"}
           /\ q.step \in {"find", "statement"} =>
                 q \in [step : {"find", "statement"}, log : Logs, hours : 0..MaxHours]
           /\ q.step \in {"sync", "commit"} =>
                 q \in [step : {"sync", "commit"}, log : Logs, row : Time!Rows, sum : 0..Time!Most]
BY DEF Time!Requests, Time!Idle

(* A request begins, goes on or ends, and the rows of logs stay.           *)
LEMMA TimeGoesOn ==
    ASSUME TimeTypes, NEW c \in Clients, NEW q \in Time!Requests,
           q.step = "statement" /\ q.hours = 0 => log'[q.log] # Time!None,
           request' = [request EXCEPT ![c] = q],
           log' \in [Logs -> Time!Rows \cup {Time!None}],
           \A l \in Logs : log[l] # Time!None => log'[l] # Time!None,
           actualHours' \in 0..Time!ByHand, lock' \in Clients \cup {Time!NoClient},
           mixed' \subseteq Clients, inStep' \in BOOLEAN,
           watching' \in BOOLEAN, autoWatch' \in BOOLEAN, unwatched' \in BOOLEAN
    PROVE  TimeTypes'
<1>1. request' \in [Clients -> Time!Requests]
    BY DEF TimeTypes, Time!TypeOK
<1>2. ASSUME NEW d \in Clients, request'[d].step = "statement", request'[d].hours = 0
      PROVE  log'[request'[d].log] # Time!None
    <2>1. CASE d = c
        BY <1>2, <2>1 DEF TimeTypes, Time!TypeOK
    <2>2. CASE d # c
        <3>1. request'[d] = request[d] /\ request[d] \in Time!Requests
            BY <2>2 DEF TimeTypes, Time!TypeOK
        <3>2. request[d].log \in Logs /\ log[request[d].log] # Time!None
            BY <1>2, <3>1, TimeRequests DEF TimeTypes
        <3> QED
            BY <3>1, <3>2
    <2> QED
        BY <2>1, <2>2
<1> QED
    BY <1>1, <1>2 DEF TimeTypes, Time!TypeOK

(* A request that leaves the hours alone.                                  *)
LEMMA TimeAsks ==
    ASSUME TimeTypes, NEW c \in Clients, NEW q \in Time!Requests,
           q.step = "statement" /\ q.hours = 0 => log[q.log] # Time!None,
           request' = [request EXCEPT ![c] = q], UNCHANGED Time!hours,
           watching' \in BOOLEAN, autoWatch' \in BOOLEAN, unwatched' \in BOOLEAN
    PROVE  TimeTypes'
<1>1. UNCHANGED <<log, actualHours, lock, mixed, inStep>>
    BY DEF Time!hours
<1>2. /\ log' \in [Logs -> Time!Rows \cup {Time!None}]
      /\ \A l \in Logs : log[l] # Time!None => log'[l] # Time!None
      /\ actualHours' \in 0..Time!ByHand /\ lock' \in Clients \cup {Time!NoClient}
      /\ mixed' \subseteq Clients /\ inStep' \in BOOLEAN
    BY <1>1 DEF TimeTypes, Time!TypeOK
<1> QED
    BY <1>1, <1>2, TimeGoesOn

(* A client without a request, and those that are not about logs.          *)
LEMMA TimeIdle ==
    /\ Time!Idle \in Time!Requests /\ Time!Idle.step = "idle"
    /\ \A s \in {"edit", "watch", "unwatch"} : [step |-> s] \in Time!Requests
BY DEF Time!Requests, Time!Idle

(* Requests that begin, or look for their log, keep the types.             *)
LEMMA TimeBegins ==
    ASSUME TimeTypes, NEW c \in Clients,
           \/ \E l \in Logs : \/ \E h \in 1..MaxHours : Time!LogTime(c, l, h)
                            \/ \E h \in 0..MaxHours : Time!UpdateTimeLog(c, l, h)
           \/ Time!EditHours(c) \/ Time!Watch(c) \/ Time!Unwatch(c) \/ Time!WriteWatch(c)
           \/ Time!FindTimeLog(c)
    PROVE  TimeTypes'
<1>1. watching \in BOOLEAN /\ autoWatch \in BOOLEAN /\ unwatched \in BOOLEAN
    BY DEF TimeTypes, Time!TypeOK
<1>2. ASSUME NEW l \in Logs, NEW h \in 1..MaxHours, Time!LogTime(c, l, h) PROVE TimeTypes'
    <2> DEFINE q == [step |-> "statement", log |-> l, hours |-> h]
    <2>1. q \in Time!Requests /\ q.hours # 0
        BY TimeConstants DEF Time!Requests
    <2>2. request' = [request EXCEPT ![c] = q] /\ UNCHANGED Time!hours
          /\ unwatched' = FALSE /\ UNCHANGED <<watching, autoWatch>>
        BY <1>2 DEF Time!LogTime, Time!Begin, Time!GoTo
    <2> HIDE DEF q
    <2> QED
        BY <1>1, <2>1, <2>2, TimeAsks
<1>3. ASSUME NEW l \in Logs, NEW h \in 0..MaxHours, Time!UpdateTimeLog(c, l, h) PROVE TimeTypes'
    <2> DEFINE q == [step |-> "find", log |-> l, hours |-> h]
    <2>1. q \in Time!Requests /\ q.step = "find"
        BY DEF Time!Requests
    <2>2. request' = [request EXCEPT ![c] = q] /\ UNCHANGED Time!hours
          /\ UNCHANGED <<watching, autoWatch, unwatched>>
        BY <1>3 DEF Time!UpdateTimeLog, Time!Begin, Time!GoTo, Time!watch
    <2> HIDE DEF q
    <2> QED
        BY <1>1, <2>1, <2>2, TimeAsks
<1>4. CASE Time!EditHours(c) \/ Time!Watch(c) \/ Time!Unwatch(c)
    <2>1. PICK s \in {"edit", "watch", "unwatch"} :
             request' = [request EXCEPT ![c] = [step |-> s]] /\ UNCHANGED Time!hours
             /\ UNCHANGED <<watching, autoWatch, unwatched>>
        BY <1>4 DEF Time!EditHours, Time!Watch, Time!Unwatch, Time!Begin, Time!GoTo, Time!watch
    <2>2. [step |-> s] \in Time!Requests /\ [step |-> s].step # "statement"
        BY TimeIdle
    <2> QED
        BY <1>1, <2>1, <2>2, TimeAsks
<1>5. CASE Time!WriteWatch(c)
    <2>1. request' = [request EXCEPT ![c] = Time!Idle] /\ UNCHANGED Time!hours
          /\ watching' \in BOOLEAN /\ unwatched' \in BOOLEAN /\ autoWatch' = autoWatch
        BY <1>5 DEF Time!WriteWatch, Time!Return, Time!GoTo, Time!At
    <2> QED
        BY <1>1, <2>1, TimeIdle, TimeAsks
<1>6. CASE Time!FindTimeLog(c)
    <2>1. PICK r : r = request[c]
        OBVIOUS
    <2>2. /\ r \in [step : {"find", "statement"}, log : Logs, hours : 0..MaxHours]
          /\ UNCHANGED Time!hours /\ UNCHANGED <<watching, autoWatch, unwatched>>
        BY <1>6, <2>1, TimeRequests DEF Time!FindTimeLog, Time!At, Time!watch, TimeTypes, Time!TypeOK
    <2> DEFINE q == IF Time!Found(r.log) THEN [r EXCEPT !.step = "statement"] ELSE Time!Idle
    <2>3. request' = [request EXCEPT ![c] = q]
        BY <1>6, <2>1 DEF Time!FindTimeLog, Time!GoTo
    <2>4. q \in Time!Requests
        BY <2>2, TimeIdle DEF Time!Requests
    <2>5. q.step = "statement" => log[q.log] # Time!None
        BY <2>2, TimeIdle DEF Time!Found
    <2> HIDE DEF q
    <2> QED
        BY <1>1, <2>2, <2>3, <2>4, <2>5, TimeAsks
<1> QED
    BY <1>2, <1>3, <1>4, <1>5, <1>6

(* A statement takes its sum of the rows and its own.                      *)
LEMMA TimeSums ==
    ASSUME TimeTypes, NEW c \in Clients, Time!Statement(c)
    PROVE  TimeTypes'
<1>1. PICK r : r = request[c]
    OBVIOUS
<1>2. /\ r \in [step : {"find", "statement"}, log : Logs, hours : 0..MaxHours]
      /\ r.step = "statement" /\ (r.hours = 0 => log[r.log] # Time!None)
    BY <1>1, TimeRequests DEF Time!Statement, Time!Ready, Time!At, TimeTypes, Time!TypeOK
<1>3. PICK w : w = Time!RowOf(r)
    OBVIOUS
<1>4. w \in Time!Rows
    <2>1. PICK o \in Time!Rows \cup {Time!None} : o = log[r.log]
        BY <1>2 DEF TimeTypes, Time!TypeOK
    <2>2. CASE r.hours = 0
        <3>1. w = [o EXCEPT !.deleted = TRUE] /\ o \in Time!Rows
            BY <1>2, <1>3, <2>1, <2>2 DEF Time!RowOf
        <3> QED
            BY <3>1 DEF Time!Rows
    <2>3. CASE r.hours # 0
        <3>1. w = [o EXCEPT !.hours = r.hours] /\ r.hours \in 1..MaxHours
            BY <1>2, <1>3, <2>1, <2>3, TimeConstants DEF Time!RowOf
        <3>2. CASE o \in Time!Rows
            BY <3>1, <3>2 DEF Time!Rows
        <3>3. CASE o = Time!None
            BY <3>1, <3>3 DEF Time!Rows, Time!None
        <3> QED
            BY <2>1, <3>2, <3>3
    <2> QED
        BY <2>2, <2>3
<1>5. PICK rows_ : rows_ = [log EXCEPT ![r.log] = w]
    OBVIOUS
<1>6. rows_ \in [Logs -> LogRows]
    BY <1>2, <1>4, <1>5, TimeConstants DEF TimeTypes, Time!TypeOK
<1>7. PICK n : n = Time!Sum(rows_)
    OBVIOUS
<1>8. n \in 0..Time!Most
    BY <1>6, <1>7, SumIsBounded
<1> DEFINE q == [step |-> "sync", log |-> r.log, row |-> w, sum |-> n]
<1>9. q \in Time!Requests /\ q.step = "sync"
    BY <1>2, <1>4, <1>8 DEF Time!Requests
<1>10. /\ request' = [request EXCEPT ![c] = q]
       /\ UNCHANGED <<log, actualHours, lock, inStep, watching, autoWatch, unwatched>>
       /\ mixed' \subseteq Clients
    BY <1>1, <1>3, <1>5, <1>7 DEF Time!Statement, Time!TakeSum, Time!GoTo, Time!watch, TimeTypes, Time!TypeOK
<1> HIDE DEF q
<1>11. /\ log' \in [Logs -> Time!Rows \cup {Time!None}]
       /\ \A l \in Logs : log[l] # Time!None => log'[l] # Time!None
       /\ actualHours' \in 0..Time!ByHand /\ lock' \in Clients \cup {Time!NoClient}
       /\ inStep' \in BOOLEAN
       /\ watching' \in BOOLEAN /\ autoWatch' \in BOOLEAN /\ unwatched' \in BOOLEAN
    BY <1>10 DEF TimeTypes, Time!TypeOK
<1> QED
    BY <1>9, <1>10, <1>11, TimeGoesOn

(* The item's row is written, or the transaction is over.                  *)
LEMMA TimeFinishes ==
    ASSUME TimeTypes, NEW c \in Clients,
           Time!SyncActualHours(c) \/ Time!Commit(c) \/ Time!RollBack(c) \/ Time!WriteHours(c)
    PROVE  TimeTypes'
<1>1. PICK r : r = request[c]
    OBVIOUS
<1>2. /\ log \in [Logs -> Time!Rows \cup {Time!None}] /\ actualHours \in 0..Time!ByHand
      /\ lock \in Clients \cup {Time!NoClient} /\ mixed \subseteq Clients /\ inStep \in BOOLEAN
      /\ watching \in BOOLEAN /\ autoWatch \in BOOLEAN /\ unwatched \in BOOLEAN
      /\ r \in Time!Requests
    BY <1>1 DEF TimeTypes, Time!TypeOK
<1>3. CASE Time!SyncActualHours(c)
    <2>1. r \in [step : {"sync", "commit"}, log : Logs, row : Time!Rows, sum : 0..Time!Most]
        BY <1>1, <1>2, <1>3, TimeRequests DEF Time!SyncActualHours, Time!At
    <2> DEFINE q == [r EXCEPT !.step = "commit"]
    <2>2. q \in Time!Requests /\ q.step = "commit"
        BY <2>1 DEF Time!Requests
    <2>3. /\ request' = [request EXCEPT ![c] = q] /\ lock' = c
          /\ UNCHANGED <<log, actualHours, mixed, inStep, watching, autoWatch, unwatched>>
        BY <1>1, <1>3 DEF Time!SyncActualHours, Time!GoTo, Time!watch
    <2> HIDE DEF q
    <2> QED
        BY <1>2, <2>2, <2>3, TimeGoesOn
<1>4. CASE Time!Commit(c)
    <2>1. r \in [step : {"sync", "commit"}, log : Logs, row : Time!Rows, sum : 0..Time!Most]
        BY <1>1, <1>2, <1>4, TimeRequests DEF Time!Commit, Time!At
    <2>2. /\ request' = [request EXCEPT ![c] = Time!Idle] /\ lock' = Time!NoClient
          /\ log' = [log EXCEPT ![r.log] = r.row] /\ actualHours' = r.sum
          /\ inStep' \in BOOLEAN /\ mixed' \subseteq Clients /\ autoWatch' \in BOOLEAN
          /\ UNCHANGED <<watching, unwatched>>
        BY <1>1, <1>2, <1>4 DEF Time!Commit, Time!Return, Time!GoTo
    <2>3. log' \in [Logs -> Time!Rows \cup {Time!None}] /\ \A l \in Logs : log[l] # Time!None => log'[l] # Time!None
        BY <1>2, <2>1, <2>2, TimeConstants
    <2>4. actualHours' \in 0..Time!ByHand
        BY <2>1, <2>2, TimeConstants
    <2> QED
        BY <1>2, <2>2, <2>3, <2>4, TimeIdle, TimeGoesOn
<1>5. CASE Time!RollBack(c)
    <2>1. /\ request' = [request EXCEPT ![c] = Time!Idle] /\ lock' \in {lock, Time!NoClient}
          /\ mixed' \subseteq Clients
          /\ UNCHANGED <<log, actualHours, inStep, watching, autoWatch, unwatched>>
        BY <1>2, <1>5 DEF Time!RollBack, Time!Return, Time!GoTo, Time!watch
    <2> QED
        BY <1>2, <2>1, TimeIdle, TimeGoesOn
<1>6. CASE Time!WriteHours(c)
    <2>1. /\ request' = [request EXCEPT ![c] = Time!Idle] /\ actualHours' = Time!ByHand /\ inStep' = FALSE
          /\ UNCHANGED <<log, lock, mixed, watching, autoWatch, unwatched>>
        BY <1>6 DEF Time!WriteHours, Time!Return, Time!GoTo, Time!watch
    <2>2. actualHours' \in 0..Time!ByHand
        BY <2>1, TimeConstants
    <2> QED
        BY <1>2, <2>1, <2>2, TimeIdle, TimeGoesOn
<1> QED
    BY <1>3, <1>4, <1>5, <1>6

(* Logs, hours and the requests about them are what they are declared to   *)
(* be; the sum too.                                                        *)
LEMMA TimeTyped == Spec => [](on = "time" => TimeTypes)
<1> DEFINE Inv == on = "time" => TimeTypes
<1>1. Init => Inv
    <2> SUFFICES ASSUME Time!Init PROVE TimeTypes
        BY DEF Init
    <2>1. /\ log = [l \in Logs |-> Time!None] /\ actualHours = 0
          /\ lock = Time!NoClient /\ mixed = {} /\ inStep = TRUE
          /\ watching = FALSE /\ autoWatch = FALSE /\ unwatched = FALSE
          /\ request = [c \in Clients |-> Time!Idle]
        BY Zenon DEF Time!Init
    <2>2. 0 \in 0..Time!ByHand
        BY TimeConstants
    <2> QED
        BY <2>1, <2>2, TimeIdle DEF TimeTypes, Time!TypeOK
<1>2. Inv /\ [Next]_vars => Inv'
    <2> SUFFICES ASSUME Inv, [Next]_vars, on = "time" PROVE TimeTypes'
        BY ServiceStays
    <2>1. CASE UNCHANGED vars
        BY <2>1 DEF vars, TimeTypes, Time!TypeOK
    <2>2. CASE Time!AutoWatch
        BY <2>2 DEF TimeTypes, Time!TypeOK, Time!AutoWatch, Time!hours
    <2>3. CASE Time!Next /\ ~Time!AutoWatch
        <3>1. PICK c \in Clients :
                 \/ \E l \in Logs : \/ \E h \in 1..MaxHours : Time!LogTime(c, l, h)
                                  \/ \E h \in 0..MaxHours : Time!UpdateTimeLog(c, l, h)
                 \/ Time!FindTimeLog(c) \/ Time!Statement(c) \/ Time!SyncActualHours(c) \/ Time!Commit(c)
                 \/ Time!RollBack(c) \/ Time!EditHours(c) \/ Time!WriteHours(c)
                 \/ Time!Watch(c) \/ Time!Unwatch(c) \/ Time!WriteWatch(c)
            BY <2>3, Zenon DEF Time!Next
        <3> QED
            BY <3>1, TimeBegins, TimeSums, TimeFinishes
    <2> QED
        BY <2>1, <2>2, <2>3 DEF Next
<1> QED
    BY <1>1, <1>2, PTL DEF Spec

-----------------------------------------------------------------------------
(* NotificationPreferences: what was asked for is what the rows say        *)

PreferenceInv ==
    /\ Preferences!TypeOK
    /\ \A t \in Preferences!Keys : \A c \in DOMAIN asked[t] :
          Preferences!HasRow(t) /\ rows[t][c] = asked[t][c]

(* The preference r has the channels of body, and those of base beside.    *)
Covers(r, body, base) ==
    /\ r \in Preferences!Bodies
    /\ DOMAIN r = DOMAIN body \cup DOMAIN base
    /\ \A c \in DOMAIN r : r[c] = IF c \in DOMAIN body THEN body[c] ELSE base[c]
    /\ base \in Preferences!Preferences => r \in Preferences!Preferences

(* The channels of a body win over those of what was there.                *)
LEMMA BodyOverBase ==
    ASSUME NEW body \in Preferences!Bodies,
           NEW base, \/ base \in Preferences!Bodies \/ base \in Preferences!Preferences
                     \/ base = Preferences!NoRow
    PROVE  Covers(Preferences!Over(body, base), body, base)
<1>1. PICK given \in (SUBSET Preferences!Channels) \ {{}} : body \in [given -> BOOLEAN]
    BY DEF Preferences!Bodies
<1>2. PICK kept \in SUBSET Preferences!Channels :
         base \in [kept -> BOOLEAN] /\ (base \in Preferences!Preferences => kept = Preferences!Channels)
    <2>1. CASE base \in Preferences!Bodies
        BY <2>1 DEF Preferences!Bodies, Preferences!Preferences
    <2>2. CASE base \in Preferences!Preferences
        BY <2>2 DEF Preferences!Preferences
    <2>3. CASE base = Preferences!NoRow
        BY <2>3 DEF Preferences!NoRow, Preferences!Preferences
    <2> QED
        BY <2>1, <2>2, <2>3
<1>3. PICK r : r = Preferences!Over(body, base)
    OBVIOUS
<1>4. /\ r \in [given \cup kept -> BOOLEAN]
      /\ \A c \in given \cup kept : r[c] = IF c \in given THEN body[c] ELSE base[c]
    BY <1>1, <1>2, <1>3 DEF Preferences!Over
<1>5. given \cup kept \in (SUBSET Preferences!Channels) \ {{}}
    BY <1>1, <1>2
<1>6. r \in Preferences!Bodies
    BY <1>4, <1>5 DEF Preferences!Bodies
<1>7. base \in Preferences!Preferences => r \in Preferences!Preferences
    <2> SUFFICES ASSUME base \in Preferences!Preferences PROVE r \in Preferences!Preferences
        OBVIOUS
    <2>1. given \cup kept = Preferences!Channels
        BY <1>1, <1>2
    <2> QED
        BY <1>4, <2>1 DEF Preferences!Preferences
<1> QED
    BY <1>1, <1>2, <1>3, <1>4, <1>6, <1>7 DEF Covers

(* An upsert makes the choice of the body the one that holds.              *)
LEMMA PreferenceUpsert ==
    ASSUME PreferenceInv, NEW t \in Preferences!Keys, NEW body \in Preferences!Bodies,
           Preferences!Upsert(t, body)
    PROVE  PreferenceInv'
<1>1. PICK base : base = IF Preferences!HasRow(t) THEN rows[t] ELSE Preferences!AllEnabled
    OBVIOUS
<1>2. base \in Preferences!Preferences
    <2>1. CASE Preferences!HasRow(t)
        BY <1>1, <2>1 DEF PreferenceInv, Preferences!TypeOK, Preferences!HasRow
    <2>2. CASE ~Preferences!HasRow(t)
        BY <1>1, <2>2 DEF Preferences!AllEnabled, Preferences!Preferences
    <2> QED
        BY <2>1, <2>2
<1>3. PICK r, a : r = Preferences!Over(body, base) /\ a = Preferences!Over(body, asked[t])
    OBVIOUS
<1>4. /\ r \in Preferences!Preferences /\ DOMAIN r = DOMAIN body \cup DOMAIN base
      /\ \A c \in DOMAIN r : r[c] = IF c \in DOMAIN body THEN body[c] ELSE base[c]
    <2>1. Covers(r, body, base)
        BY <1>2, <1>3, BodyOverBase
    <2> QED
        BY <1>2, <2>1 DEF Covers
<1>5. /\ a \in Preferences!Bodies /\ DOMAIN a = DOMAIN body \cup DOMAIN asked[t]
      /\ \A c \in DOMAIN a : a[c] = IF c \in DOMAIN body THEN body[c] ELSE asked[t][c]
    <2>1. asked[t] \in Preferences!Bodies \/ asked[t] = Preferences!NoRow
        BY DEF PreferenceInv, Preferences!TypeOK
    <2>2. Covers(a, body, asked[t])
        BY <1>3, <2>1, BodyOverBase
    <2> QED
        BY <2>2 DEF Covers
<1>6. rows' = [rows EXCEPT ![t] = r] /\ asked' = [asked EXCEPT ![t] = a]
    BY <1>1, <1>3 DEF Preferences!Upsert, Preferences!Stored, PreferenceInv, Preferences!TypeOK
<1>7. Preferences!TypeOK'
    BY <1>4, <1>5, <1>6 DEF PreferenceInv, Preferences!TypeOK
<1>8. r # Preferences!NoRow
    BY <1>4 DEF Preferences!Preferences, Preferences!NoRow, Preferences!Channels
<1>9. \A c \in DOMAIN a : r[c] = a[c]
    <2> SUFFICES ASSUME NEW c \in DOMAIN a PROVE r[c] = a[c]
        OBVIOUS
    <2>1. CASE c \in DOMAIN body
        BY <2>1, <1>4, <1>5
    <2>2. CASE c \notin DOMAIN body
        <3>1. c \in DOMAIN asked[t] /\ base = rows[t] /\ rows[t][c] = asked[t][c]
            BY <2>2, <1>1, <1>5 DEF PreferenceInv
        <3>2. c \in Preferences!Channels /\ DOMAIN base = Preferences!Channels
            <4>1. DOMAIN asked[t] \subseteq Preferences!Channels
                BY DEF PreferenceInv, Preferences!TypeOK, Preferences!Bodies, Preferences!NoRow
            <4> QED
                BY <1>2, <3>1, <4>1 DEF Preferences!Preferences
        <3> QED
            BY <2>2, <3>1, <3>2, <1>4, <1>5
    <2> QED
        BY <2>1, <2>2
<1>10. ASSUME NEW k \in Preferences!Keys, NEW c \in DOMAIN asked'[k]
       PROVE  Preferences!HasRow(k)' /\ rows'[k][c] = asked'[k][c]
    <2>1. CASE k = t
        BY <2>1, <1>6, <1>8, <1>9, <1>10 DEF PreferenceInv, Preferences!TypeOK, Preferences!HasRow
    <2>2. CASE k # t
        BY <2>2, <1>6, <1>10 DEF PreferenceInv, Preferences!TypeOK, Preferences!HasRow
    <2> QED
        BY <2>1, <2>2
<1> QED
    BY <1>7, <1>10 DEF PreferenceInv

(* A reset removes the row with the choices it held.                       *)
LEMMA PreferenceReset ==
    ASSUME PreferenceInv, NEW t \in Preferences!Keys, Preferences!Reset(t)
    PROVE  PreferenceInv'
<1>1. Preferences!TypeOK'
    BY DEF PreferenceInv, Preferences!TypeOK, Preferences!Reset
<1>2. DOMAIN Preferences!NoRow = {}
    BY DEF Preferences!NoRow
<1>3. ASSUME NEW k \in Preferences!Keys, NEW c \in DOMAIN asked'[k]
      PROVE  Preferences!HasRow(k)' /\ rows'[k][c] = asked'[k][c]
    BY <1>2, <1>3 DEF PreferenceInv, Preferences!TypeOK, Preferences!Reset, Preferences!HasRow
<1> QED
    BY <1>1, <1>3 DEF PreferenceInv

(* The invariant of the preferences holds in every state of the            *)
(* composition.                                                            *)
LEMMA PreferenceInvariant == Spec => [](on = "preferences" => PreferenceInv)
<1> DEFINE Inv == on = "preferences" => PreferenceInv
<1>1. Init => Inv
    BY DEF Init, Preferences!Init, PreferenceInv, Preferences!TypeOK, Preferences!NoRow
<1>2. Inv /\ [Next]_vars => Inv'
    <2> SUFFICES ASSUME Inv, [Next]_vars, on = "preferences" PROVE PreferenceInv'
        BY ServiceStays
    <2>1. CASE UNCHANGED vars
        BY <2>1 DEF vars, PreferenceInv, Preferences!TypeOK, Preferences!HasRow
    <2>2. CASE Next
        BY <2>2, PreferenceUpsert, PreferenceReset DEF Next, Preferences!Next
    <2> QED
        BY <2>1, <2>2
<1> QED
    BY <1>1, <1>2, PTL DEF Spec

(* A channel the user set for a type is delivered as set, whatever later   *)
(* requests say about the other channel, about other types or about '*';   *)
(* for any set of types.                                                   *)
THEOREM ChoicesHold == Spec => []ExplicitChoiceHolds
<1>1. (on = "preferences" => PreferenceInv) => ExplicitChoiceHolds
    BY DEF ExplicitChoiceHolds, PreferenceInv, Preferences!ExplicitChoiceHolds,
           Preferences!IsEnabled, Preferences!Keys
<1> QED
    BY <1>1, PreferenceInvariant, PTL

-----------------------------------------------------------------------------
(* Removals: what is removed stays so                                      *)

RemovalInv ==
    /\ row = [k \in Removal!Kinds |-> row[k]]
    /\ request = [c \in Clients |-> request[c]]

(* Four actions write a row, and only an update writes a removed one.      *)
LEMMA RemovalStep ==
    ASSUME RemovalInv, Removal!Next
    PROVE  RemovalInv' /\ Removal!StaysRemoved
<1>1. PICK c \in Clients :
         \/ UNCHANGED row /\ \E q : request' = [request EXCEPT ![c] = q] \/ request' = [request EXCEPT ![c].do = q]
         \/ Removal!Insert(c) \/ Removal!Delete(c) \/ Removal!UpdateMember(c) \/ Removal!Release(c)
    BY DEF Removal!Next, Removal!Add, Removal!Remove, Removal!Restore, Removal!Begin,
           Removal!AddLabel, Removal!RemoveLabel, Removal!ShipRelease,
           Removal!FindBeforeAdd, Removal!FindBeforeRemove, Removal!AssertLabelBelongsToProject,
           Removal!Tag, Removal!Untag, Removal!GetRelease, Removal!GoTo, Removal!Return
<1>2. CASE UNCHANGED row /\ \E q : request' = [request EXCEPT ![c] = q] \/ request' = [request EXCEPT ![c].do = q]
    BY <1>2 DEF RemovalInv, Removal!StaysRemoved
<1>3. CASE Removal!Insert(c)
    BY <1>3 DEF RemovalInv, Removal!StaysRemoved, Removal!Insert, Removal!Return, Removal!Set
<1>4. CASE Removal!Delete(c)
    BY <1>4 DEF RemovalInv, Removal!StaysRemoved, Removal!Delete, Removal!Return, Removal!Set
<1>5. CASE Removal!Release(c)
    BY <1>5 DEF RemovalInv, Removal!StaysRemoved, Removal!Release, Removal!Return, Removal!Set
<1>6. CASE Removal!UpdateMember(c)
    <2>1. PICK s \in {"active", "removed"} : row' = [row EXCEPT ![Removal!Kind(c)] = s]
        BY <1>6 DEF Removal!UpdateMember, Removal!Set
    <2>2. request' = [request EXCEPT ![c] = Removal!Idle] /\ Removal!At(c, "restore")
        BY <1>6 DEF Removal!UpdateMember, Removal!Return
    <2>3. RemovalInv'
        BY <2>1, <2>2 DEF RemovalInv
    <2>4. Removal!StaysRemoved
        <3> SUFFICES ASSUME NEW k \in Removal!Kinds, row[k] # row'[k] PROVE Removal!Restored(k)
            BY DEF Removal!StaysRemoved
        <3>1. Removal!Kind(c) = k
            BY <2>1 DEF RemovalInv
        <3>2. request'[c] = Removal!Idle
            BY <2>2 DEF RemovalInv
        <3> QED
            BY <2>2, <3>1, <3>2 DEF Removal!Restored
    <2> QED
        BY <2>3, <2>4
<1> QED
    BY <1>1, <1>2, <1>3, <1>4, <1>5, <1>6

(* Who was removed from a team or a project, and a deleted label or        *)
(* release, is brought back by no request, however many are in flight, but *)
(* by an update of a project's member that says so.                        *)
THEOREM RemovedStayRemoved == Spec => RemovalHolds
<1> DEFINE Inv == on = "removal" => RemovalInv
<1>1. Init => Inv
    BY DEF Init, Removal!Init, RemovalInv
<1>2. Inv /\ [Next]_vars => Inv' /\ [on = "removal" => Removal!StaysRemoved]_vars
    <2> SUFFICES ASSUME Inv, [Next]_vars, on = "removal"
                 PROVE  RemovalInv' /\ (Removal!StaysRemoved \/ UNCHANGED vars)
        BY ServiceStays
    <2>1. CASE UNCHANGED vars
        BY <2>1 DEF vars, RemovalInv
    <2>2. CASE Next
        BY <2>2, RemovalStep DEF Next
    <2> QED
        BY <2>1, <2>2
<1> QED
    BY <1>1, <1>2, PTL DEF Spec, RemovalHolds

(* Only members and teams are added.                                       *)
RemovalTypes ==
    /\ Removal!TypeOK
    /\ \A c \in Clients : request[c].do \in {"add", "insert"} => request[c].kind \in Removal!Rosters

(* The requests about a kind of row, at each of their steps.               *)
RosterWork ==
    [do : {"add", "insert", "remove", "delete", "restore", "update", "tag", "untag", "ship"}, kind : Removal!Kinds]

(* A request begins, goes on or ends.                                      *)
LEMMA RemovalRequests ==
    ASSUME RemovalTypes, NEW c \in Clients, NEW q \in {Removal!Idle} \cup RosterWork,
           q.do \in {"add", "insert"} => q.kind \in Removal!Rosters,
           request' = [request EXCEPT ![c] = q],
           row' \in [Removal!Kinds -> {"none", "active", "removed", "released"}],
           tagged' \in BOOLEAN, alone' \subseteq Removal!Rosters, failed' \subseteq Removal!Rosters
    PROVE  RemovalTypes'
<1>1. request' \in [Clients -> {Removal!Idle} \cup RosterWork]
    BY DEF RemovalTypes, Removal!TypeOK, RosterWork
<1>2. \A d \in Clients : request'[d].do \in {"add", "insert"} => request'[d].kind \in Removal!Rosters
    BY DEF RemovalTypes, Removal!TypeOK
<1> QED
    BY <1>1, <1>2 DEF RemovalTypes, Removal!TypeOK, RosterWork

(* Asking for an addition or a removal is a request of its kind.           *)
LEMMA RemovalBegins ==
    ASSUME RemovalTypes, NEW c \in Clients, NEW k \in Removal!Kinds,
           NEW do \in {"add", "remove", "restore", "tag", "untag", "ship"},
           do = "add" => k \in Removal!Rosters,
           Removal!Begin(c, do, k)
    PROVE  RemovalTypes'
<1> DEFINE q == [do |-> do, kind |-> k]
<1>1. q \in RosterWork /\ q.do = do /\ q.kind = k
    BY DEF RosterWork
<1>2. /\ request' = [request EXCEPT ![c] = q]
      /\ alone' \subseteq Removal!Rosters /\ UNCHANGED <<row, tagged, failed>>
    BY DEF Removal!Begin, RemovalTypes, Removal!TypeOK
<1> HIDE DEF q
<1>3. /\ row' \in [Removal!Kinds -> {"none", "active", "removed", "released"}]
      /\ tagged' \in BOOLEAN /\ failed' \subseteq Removal!Rosters
    BY <1>2 DEF RemovalTypes, Removal!TypeOK
<1> QED
    BY <1>1, <1>2, <1>3, RemovalRequests

(* One that was looked up goes on to its write, of the same kind.          *)
LEMMA RemovalGoesOn ==
    ASSUME RemovalTypes, NEW c \in Clients, request[c].do # "idle",
           NEW do \in {"insert", "delete", "update"},
           do = "insert" => request[c].kind \in Removal!Rosters,
           Removal!GoTo(c, do) \/ Removal!Return(c), UNCHANGED <<row, tagged, alone, failed>>
    PROVE  RemovalTypes'
<1>1. request[c] \in RosterWork
    BY DEF RemovalTypes, Removal!TypeOK, Removal!Idle, RosterWork
<1> DEFINE q == [request[c] EXCEPT !.do = do]
<1>2. q \in RosterWork /\ q.do = do /\ q.kind = request[c].kind
    BY <1>1 DEF RosterWork
<1>3. Removal!Idle.do = "idle"
    BY DEF Removal!Idle
<1>4. request' = [request EXCEPT ![c] = q] \/ request' = [request EXCEPT ![c] = Removal!Idle]
    BY DEF Removal!GoTo, Removal!Return
<1> HIDE DEF q
<1>5. /\ row' \in [Removal!Kinds -> {"none", "active", "removed", "released"}]
      /\ tagged' \in BOOLEAN /\ alone' \subseteq Removal!Rosters /\ failed' \subseteq Removal!Rosters
    BY DEF RemovalTypes, Removal!TypeOK
<1> QED
    BY <1>2, <1>3, <1>4, <1>5, RemovalRequests

(* One that has written is done.                                           *)
LEMMA RemovalWrites ==
    ASSUME RemovalTypes, NEW c \in Clients, Removal!Return(c), UNCHANGED alone,
           UNCHANGED row \/ \E s \in {"active", "removed", "released"} : Removal!Set(c, s),
           tagged' \in BOOLEAN, failed' \subseteq Removal!Rosters
    PROVE  RemovalTypes'
<1>1. row' \in [Removal!Kinds -> {"none", "active", "removed", "released"}]
    BY DEF RemovalTypes, Removal!TypeOK, Removal!Set
<1>2. Removal!Idle.do = "idle"
    BY DEF Removal!Idle
<1>3. request' = [request EXCEPT ![c] = Removal!Idle] /\ alone' \subseteq Removal!Rosters
    BY DEF Removal!Return, RemovalTypes, Removal!TypeOK
<1> QED
    BY <1>1, <1>2, <1>3, RemovalRequests

(* Every step of a request keeps the types of rosters, labels and          *)
(* releases.                                                               *)
LEMMA RemovalTypesStep ==
    ASSUME RemovalTypes, Removal!Next
    PROVE  RemovalTypes'
<1>1. PICK c \in Clients :
         \/ \E k \in Removal!Kinds : Removal!Add(c, k) \/ Removal!Remove(c, k)
         \/ Removal!Restore(c) \/ Removal!AddLabel(c) \/ Removal!RemoveLabel(c) \/ Removal!ShipRelease(c)
         \/ Removal!FindBeforeAdd(c) \/ Removal!FindBeforeRemove(c)
         \/ Removal!AssertLabelBelongsToProject(c) \/ Removal!GetRelease(c)
         \/ Removal!Insert(c) \/ Removal!Delete(c) \/ Removal!UpdateMember(c)
         \/ Removal!Tag(c) \/ Removal!Untag(c) \/ Removal!Release(c)
    BY DEF Removal!Next
<1>2. CASE \E k \in Removal!Kinds : Removal!Add(c, k) \/ Removal!Remove(c, k)
    BY <1>2, RemovalBegins DEF Removal!Add, Removal!Remove
<1>3. CASE Removal!Restore(c) \/ Removal!AddLabel(c) \/ Removal!RemoveLabel(c) \/ Removal!ShipRelease(c)
    <2>1. {"project member", "label", "release"} \subseteq Removal!Kinds
        BY DEF Removal!Kinds, Removal!Rosters
    <2> QED
        BY <1>3, <2>1, RemovalBegins
        DEF Removal!Restore, Removal!AddLabel, Removal!RemoveLabel, Removal!ShipRelease
<1>4. CASE \/ Removal!FindBeforeAdd(c) \/ Removal!FindBeforeRemove(c)
           \/ Removal!AssertLabelBelongsToProject(c) \/ Removal!GetRelease(c)
    BY <1>4, RemovalGoesOn
    DEF Removal!FindBeforeAdd, Removal!FindBeforeRemove, Removal!AssertLabelBelongsToProject,
        Removal!GetRelease, Removal!At, RemovalTypes
<1>5. CASE Removal!Insert(c)
    <2>1. Removal!Kind(c) \in Removal!Rosters
        BY <1>5 DEF Removal!Insert, Removal!At, Removal!Kind, RemovalTypes
    <2>2. Removal!Return(c) /\ UNCHANGED <<tagged, alone>>
        BY <1>5 DEF Removal!Insert
    <2>3. /\ UNCHANGED row \/ \E s \in {"active", "removed", "released"} : Removal!Set(c, s)
          /\ failed' \subseteq Removal!Rosters /\ tagged' \in BOOLEAN
        BY <1>5, <2>1 DEF Removal!Insert, RemovalTypes, Removal!TypeOK
    <2> QED
        BY <2>2, <2>3, RemovalWrites
<1>6. CASE \/ Removal!Delete(c) \/ Removal!UpdateMember(c)
           \/ Removal!Tag(c) \/ Removal!Untag(c) \/ Removal!Release(c)
    <2>1. Removal!Return(c) /\ UNCHANGED <<alone, failed>> /\ tagged' \in BOOLEAN
        BY <1>6 DEF Removal!Delete, Removal!UpdateMember, Removal!Tag, Removal!Untag, Removal!Release,
                    RemovalTypes, Removal!TypeOK
    <2>2. UNCHANGED row \/ \E s \in {"active", "removed", "released"} : Removal!Set(c, s)
        BY <1>6 DEF Removal!Delete, Removal!UpdateMember, Removal!Tag, Removal!Untag, Removal!Release
    <2>3. failed' \subseteq Removal!Rosters
        BY <2>1 DEF RemovalTypes, Removal!TypeOK
    <2> QED
        BY <2>1, <2>2, <2>3, RemovalWrites
<1> QED
    BY <1>1, <1>2, <1>3, <1>4, <1>5, <1>6

(* The rows and requests of removals are what they are declared to be.     *)
LEMMA RemovalTyped == Spec => [](on = "removal" => RemovalTypes)
<1> DEFINE Inv == on = "removal" => RemovalTypes
<1>1. Init => Inv
    <2> SUFFICES ASSUME Removal!Init PROVE RemovalTypes
        BY DEF Init
    <2>1. /\ row = [k \in Removal!Kinds |-> IF k \in Removal!Rosters THEN "none" ELSE "active"]
          /\ tagged = FALSE /\ alone = Removal!Rosters /\ failed = {}
          /\ request = [c \in Clients |-> Removal!Idle]
        BY Zenon DEF Removal!Init
    <2>2. /\ row \in [Removal!Kinds -> {"none", "active", "removed", "released"}]
          /\ tagged \in BOOLEAN /\ alone \subseteq Removal!Rosters /\ failed \subseteq Removal!Rosters
        BY <2>1
    <2>3. \A c \in Clients : request[c] = Removal!Idle /\ request[c].do = "idle"
        BY <2>1 DEF Removal!Idle
    <2> QED
        BY <2>1, <2>2, <2>3 DEF RemovalTypes, Removal!TypeOK
<1>2. Inv /\ [Next]_vars => Inv'
    <2> SUFFICES ASSUME Inv, [Next]_vars, on = "removal" PROVE RemovalTypes'
        BY ServiceStays
    <2>1. CASE UNCHANGED vars
        BY <2>1 DEF vars, RemovalTypes, Removal!TypeOK
    <2>2. CASE Next
        BY <2>2, RemovalTypesStep DEF Next
    <2> QED
        BY <2>1, <2>2
<1> QED
    BY <1>1, <1>2, PTL DEF Spec

-----------------------------------------------------------------------------
(* EmailDelivery: one copy of every mail                                   *)

MailRows == [status : {"none", "pending", "sent", "failed"}, attempts : Nat]

(* A row is marked as sent, in the table or in the transaction that is not *)
(* committed yet, only once the provider has accepted the mail.            *)
EmailInv ==
    /\ row \in [Mails -> MailRows]
    /\ written = [m \in DOMAIN written |-> written[m]] /\ DOMAIN written \subseteq Mails
    /\ \A m \in DOMAIN written : written[m] \in MailRows
    /\ batch \subseteq Mails /\ late \subseteq Mails
    /\ call \in {Email!NoCall} \cup [mail : Mails, try : 0..Retries + 1]
    /\ inbox \in [Mails -> 0..2]
    /\ \A m \in DOMAIN written : written[m].status = "sent" => inbox[m] >= 1
    /\ Email!MailedOnce

(* Copies are not taken back, and a provider that looks at the key takes   *)
(* one.                                                                    *)
LEMMA EmailReceive ==
    ASSUME EmailInv, NEW m \in Mails, Email!Receive(m)
    PROVE  /\ inbox' \in [Mails -> 0..2] /\ inbox'[m] >= 1
           /\ \A n \in Mails : inbox'[n] >= inbox[n] /\ (Dedups => inbox'[n] <= 1)
<1>1. \A n \in Mails : inbox[n] \in 0..2 /\ (Dedups => inbox[n] <= 1)
    BY DEF EmailInv, Email!MailedOnce
<1>2. /\ inbox' = [inbox EXCEPT ![m] = inbox'[m]]
      /\ inbox'[m] = IF Dedups \/ inbox[m] = 2 THEN (IF inbox[m] = 0 THEN 1 ELSE inbox[m]) ELSE inbox[m] + 1
    BY DEF EmailInv, Email!Receive
<1>3. inbox'[m] \in 1..2 /\ inbox'[m] >= inbox[m] /\ (Dedups => inbox'[m] <= 1)
    BY <1>1, <1>2
<1> QED
    BY <1>1, <1>2, <1>3 DEF EmailInv

(* A row that is written in the transaction.                               *)
LEMMA EmailWrite ==
    ASSUME EmailInv, NEW m \in Mails, NEW r \in MailRows, Email!Write(m, r)
    PROVE  /\ written' = [n \in DOMAIN written' |-> written'[n]] /\ DOMAIN written' \subseteq Mails
           /\ DOMAIN written' = DOMAIN written \cup {m}
           /\ \A n \in DOMAIN written' :
                 written'[n] \in MailRows /\ written'[n] = IF n = m THEN r ELSE written[n]
BY DEF EmailInv, Email!Write

(* Marking a row failed keeps the invariant.                               *)
LEMMA EmailMarkFailed ==
    ASSUME EmailInv, NEW m \in Mails, Email!MarkFailed(m), UNCHANGED <<row, inbox>>,
           batch' \subseteq Mails, late' \subseteq Mails, call' = Email!NoCall
    PROVE  EmailInv'
<1>1. PICK r \in MailRows : Email!Write(m, r) /\ r.status # "sent"
    <2>1. row[m].attempts + 1 \in Nat
        BY DEF EmailInv, MailRows, Email!None
    <2> QED
        BY <2>1 DEF Email!MarkFailed, MailRows
<1>2. /\ written' = [n \in DOMAIN written' |-> written'[n]] /\ DOMAIN written' \subseteq Mails
      /\ DOMAIN written' = DOMAIN written \cup {m}
      /\ \A n \in DOMAIN written' :
            written'[n] \in MailRows /\ written'[n] = IF n = m THEN r ELSE written[n]
    BY <1>1, EmailWrite
<1> QED
    BY <1>1, <1>2 DEF EmailInv, Email!MailedOnce

(* A call that succeeds was accepted before its row is written as sent.    *)
LEMMA EmailSucceed ==
    ASSUME EmailInv, Email!Succeed
    PROVE  EmailInv'
<1>1. PICK m \in Mails : m = call.mail /\ Email!Receive(m) /\ Email!MarkSent(m)
    BY DEF EmailInv, Email!Succeed
<1>2. UNCHANGED <<row, batch, late>> /\ call' = Email!NoCall
    BY DEF Email!Succeed
<1>3. PICK r \in MailRows : Email!Write(m, r)
    BY <1>1 DEF EmailInv, MailRows, Email!MarkSent
<1>4. /\ written' = [n \in DOMAIN written' |-> written'[n]] /\ DOMAIN written' \subseteq Mails
      /\ DOMAIN written' = DOMAIN written \cup {m}
      /\ \A n \in DOMAIN written' :
            written'[n] \in MailRows /\ written'[n] = IF n = m THEN r ELSE written[n]
    BY <1>3, EmailWrite
<1>5. /\ inbox' \in [Mails -> 0..2] /\ inbox'[m] >= 1
      /\ \A n \in Mails : inbox'[n] >= inbox[n] /\ (Dedups => inbox'[n] <= 1)
    BY <1>1, EmailReceive
<1>6. \A n \in DOMAIN written' : written'[n].status = "sent" => inbox'[n] >= 1
    <2> SUFFICES ASSUME NEW n \in DOMAIN written', n # m, written'[n].status = "sent"
                 PROVE  inbox'[n] >= 1
        BY <1>5
    <2>1. inbox[n] >= 1 /\ n \in Mails
        BY <1>4 DEF EmailInv
    <2> QED
        BY <2>1, <1>5 DEF EmailInv
<1>7. Email!MailedOnce'
    <2> SUFFICES ASSUME NEW n \in Mails, row'[n].status = "sent" PROVE inbox'[n] >= 1
        BY <1>5 DEF Email!MailedOnce
    <2>1. inbox[n] >= 1
        BY <1>2 DEF EmailInv, Email!MailedOnce
    <2> QED
        BY <2>1, <1>5 DEF EmailInv
<1> QED
    BY <1>2, <1>4, <1>5, <1>6, <1>7 DEF EmailInv

(* A request that was given up still arrives.                              *)
LEMMA EmailReceiveLate ==
    ASSUME EmailInv, NEW m \in Mails, Email!ReceiveLate(m)
    PROVE  EmailInv'
<1>1. /\ inbox' \in [Mails -> 0..2]
      /\ \A n \in Mails : inbox'[n] >= inbox[n] /\ (Dedups => inbox'[n] <= 1)
    BY EmailReceive DEF Email!ReceiveLate
<1>2. UNCHANGED <<row, batch, written, call>> /\ late' \subseteq Mails
    BY DEF EmailInv, Email!ReceiveLate, Email!relay
<1>3. \A n \in Mails : inbox[n] >= 1 => inbox'[n] >= 1
    BY <1>1 DEF EmailInv
<1> QED
    BY <1>1, <1>2, <1>3 DEF EmailInv, Email!MailedOnce

(* What was written becomes visible.                                       *)
LEMMA EmailCommit ==
    ASSUME EmailInv, Email!Commit
    PROVE  EmailInv'
<1>1. row' = [m \in Mails |-> IF m \in DOMAIN written THEN written[m] ELSE row[m]]
      /\ written' = <<>> /\ UNCHANGED <<batch, call, late, inbox>>
    BY DEF Email!Commit, Email!provider
<1>2. row' \in [Mails -> MailRows]
    BY <1>1 DEF EmailInv
<1>3. written' = [n \in DOMAIN written' |-> written'[n]] /\ DOMAIN written' = {}
    BY <1>1
<1> QED
    BY <1>1, <1>2, <1>3 DEF EmailInv, Email!MailedOnce

(* The next try of a call is a call for the same mail.                     *)
LEMMA CallRetries ==
    ASSUME EmailInv, call # Email!NoCall, call.try <= Retries
    PROVE  /\ [call EXCEPT !.try = call.try + 1] \in [mail : Mails, try : 0..Retries + 1]
           /\ [call EXCEPT !.try = call.try + 1].mail = call.mail
<1>1. call \in [mail : Mails, try : 0..Retries + 1] /\ Retries \in Nat
    BY ServicesAssumption DEF EmailInv, Email!DeliveryAssumption
<1> QED
    BY <1>1

(* An attempt that fails leaves its row pending or failed.                 *)
LEMMA EmailTryFails ==
    ASSUME EmailInv, Email!TryFails, late' \subseteq Mails
    PROVE  EmailInv'
<1>1. CASE call.try <= Retries
    <2>1. /\ call' = [call EXCEPT !.try = call.try + 1] /\ call # Email!NoCall
          /\ UNCHANGED <<row, batch, written, inbox>>
        BY <1>1 DEF Email!TryFails
    <2>2. call' \in [mail : Mails, try : 0..Retries + 1]
        BY <1>1, <2>1, CallRetries
    <2> QED
        BY <2>1, <2>2 DEF EmailInv, Email!MailedOnce
<1>2. CASE ~(call.try <= Retries)
    <2>1. /\ call.mail \in Mails /\ Email!MarkFailed(call.mail) /\ call' = Email!NoCall
          /\ UNCHANGED <<row, batch, inbox>>
        BY <1>2 DEF EmailInv, Email!TryFails
    <2>2. batch' \subseteq Mails
        BY <2>1 DEF EmailInv
    <2> QED
        BY <2>1, <2>2, EmailMarkFailed
<1> QED
    BY <1>1, <1>2

(* Every step of the email relay keeps the invariant.                      *)
LEMMA EmailStep ==
    ASSUME EmailInv, Email!Next
    PROVE  EmailInv'
<1>1. CASE Email!FetchBatch
    BY <1>1 DEF EmailInv, Email!MailedOnce, Email!FetchBatch, Email!provider
<1>2. CASE Email!Tick
    BY <1>2 DEF EmailInv, Email!MailedOnce, Email!Tick, Email!relay, Email!provider
<1>3. CASE Email!Crash
    <2>1. /\ batch' = {} /\ written' = <<>> /\ call' = Email!NoCall
          /\ late' \subseteq Mails /\ UNCHANGED <<row, inbox>>
        BY <1>3 DEF EmailInv, Email!Crash
    <2>2. written' = [n \in DOMAIN written' |-> written'[n]] /\ DOMAIN written' = {}
        BY <2>1
    <2> QED
        BY <2>1, <2>2 DEF EmailInv, Email!MailedOnce
<1>4. CASE Email!Reject \/ Email!Timeout
    <2>1. Email!TryFails /\ late' \subseteq Mails
        BY <1>4 DEF EmailInv, Email!Reject, Email!Timeout, Email!TryFails
    <2> QED
        BY <2>1, EmailTryFails
<1>5. ASSUME NEW m \in Mails, Email!Schedule(m)
      PROVE  EmailInv'
    <2>1. /\ row' = [row EXCEPT ![m] = [status |-> "pending", attempts |-> 0]]
          /\ UNCHANGED <<batch, written, call, late, inbox>>
        BY <1>5 DEF Email!Schedule, Email!relay, Email!provider
    <2>2. row' \in [Mails -> MailRows]
        BY <2>1 DEF EmailInv, MailRows
    <2> QED
        BY <2>1, <2>2 DEF EmailInv, Email!MailedOnce
<1>6. ASSUME NEW m \in Mails, Email!Enter(m)
      PROVE  EmailInv'
    <2>1. [mail |-> m, try |-> 1] \in [mail : Mails, try : 0..Retries + 1]
        BY ServicesAssumption DEF Email!DeliveryAssumption
    <2> QED
        BY <1>6, <2>1 DEF EmailInv, Email!MailedOnce, Email!Enter
<1>7. ASSUME NEW m \in Mails, Email!BrokenCircuit(m)
      PROVE  EmailInv'
    <2>1. /\ Email!MarkFailed(m) /\ batch' \subseteq Mails /\ late' \subseteq Mails
          /\ call' = Email!NoCall /\ UNCHANGED <<row, inbox>>
        BY <1>7 DEF EmailInv, Email!BrokenCircuit, Email!provider
    <2> QED
        BY <2>1, EmailMarkFailed
<1> QED
    BY <1>1, <1>2, <1>3, <1>4, <1>5, <1>6, <1>7, EmailCommit, EmailSucceed, EmailReceiveLate
       DEF Email!Next

(* The invariant of the email relay holds in every state of the            *)
(* composition.                                                            *)
LEMMA EmailInvariant == Spec => [](on = "email" => EmailInv)
<1> DEFINE Inv == on = "email" => EmailInv
<1>1. Init => Inv
    <2> SUFFICES ASSUME Email!Init PROVE EmailInv
        BY DEF Init
    <2>1. written = [n \in DOMAIN written |-> written[n]] /\ DOMAIN written = {}
        BY DEF Email!Init
    <2> QED
        BY <2>1 DEF Email!Init, EmailInv, Email!MailedOnce, Email!None, MailRows
<1>2. Inv /\ [Next]_vars => Inv'
    <2> SUFFICES ASSUME Inv, [Next]_vars, on = "email" PROVE EmailInv'
        BY ServiceStays
    <2>1. CASE UNCHANGED vars
        BY <2>1 DEF vars, EmailInv, Email!MailedOnce
    <2>2. CASE Next
        BY <2>2, EmailStep DEF Next
    <2> QED
        BY <2>1, <2>2
<1> QED
    BY <1>1, <1>2, PTL DEF Spec

(* With a provider that looks at the key an event is mailed once, over any *)
(* number of tries, timeouts that leave a request behind, runs of the      *)
(* relay and crashes before its commit; and with any provider what is      *)
(* marked as sent has been accepted.                                       *)
THEOREM EventsAreMailedOnce == Spec => []MailedOnce
<1>1. (on = "email" => EmailInv) => MailedOnce
    BY DEF MailedOnce, EmailInv
<1> QED
    BY <1>1, EmailInvariant, PTL

(* What the transaction has written of a row: the mail was accepted, or    *)
(* one more failure was counted.                                           *)
Outcome(m, r) ==
    \/ r.status = "sent" /\ r.attempts = row[m].attempts /\ inbox[m] >= 1
    \/ /\ r.attempts = row[m].attempts + 1
       /\ r.status = IF r.attempts >= MaxAttempts THEN "failed" ELSE "pending"

(* How the state of the relay relates to its table: what it is at work on  *)
(* is pending and has attempts left, also while the transaction is open,   *)
(* and requests nobody waits for are of rows that exist.                   *)
RelayFits ==
    /\ \A m \in Mails :
          /\ row[m].status = "none" => row[m].attempts = 0
          /\ row[m].status = "pending" => row[m].attempts < MaxAttempts
          /\ row[m].attempts <= MaxAttempts
    /\ \A m \in batch : row[m].status = "pending"
    /\ call # Email!NoCall => row[call.mail].status = "pending"
    /\ \A m \in DOMAIN written : row[m].status = "pending" /\ Outcome(m, written[m])
    /\ \A m \in late : row[m].status # "none"

(* A row that is written in the transaction fits what the relay is at work *)
(* on.                                                                     *)
LEMMA FitsWrite ==
    ASSUME EmailInv, RelayFits, NEW m \in Mails, row[m].status = "pending", NEW r \in MailRows,
           Email!Write(m, r), row' = row, Outcome(m, r)',
           \A n \in Mails : inbox'[n] >= inbox[n] /\ inbox'[n] \in Nat,
           batch' \subseteq batch, call' = Email!NoCall, \A n \in late' : row[n].status # "none"
    PROVE  RelayFits'
<1>1. /\ DOMAIN written' = DOMAIN written \cup {m}
      /\ \A n \in DOMAIN written' : written'[n] = IF n = m THEN r ELSE written[n]
    BY EmailWrite
<1>2. ASSUME NEW n \in DOMAIN written' PROVE row'[n].status = "pending" /\ Outcome(n, written[n])'
    <2>1. CASE n = m
        BY <1>1, <2>1
    <2>2. CASE n # m
        <3>1. n \in DOMAIN written /\ n \in Mails /\ written'[n] = written[n]
            BY <1>1, <2>2 DEF EmailInv
        <3>2. Outcome(n, written[n]) /\ row[n].status = "pending" /\ inbox[n] \in Nat
            BY <3>1 DEF RelayFits, EmailInv
        <3> QED
            BY <3>1, <3>2 DEF Outcome
    <2> QED
        BY <2>1, <2>2
<1> QED
    BY <1>2 DEF RelayFits

(* A failure that is counted fits its row.                                 *)
LEMMA FitsFailure ==
    ASSUME EmailInv, RelayFits, NEW m \in Mails, row[m].status = "pending", Email!MarkFailed(m),
           UNCHANGED <<row, inbox>>,
           batch' \subseteq batch, call' = Email!NoCall, \A n \in late' : row[n].status # "none"
    PROVE  RelayFits'
<1>1. row[m].attempts + 1 \in Nat
    BY DEF EmailInv, MailRows
<1>2. PICK r \in MailRows : /\ Email!Write(m, r) /\ r.attempts = row[m].attempts + 1
                           /\ r.status = IF r.attempts >= MaxAttempts THEN "failed" ELSE "pending"
    BY <1>1 DEF MailRows, Email!MarkFailed
<1>3. Outcome(m, r)'
    BY <1>2 DEF Outcome
<1>4. \A k \in Mails : inbox'[k] >= inbox[k] /\ inbox'[k] \in Nat
    BY DEF EmailInv
<1> QED
    BY <1>2, <1>3, <1>4, FitsWrite

(* Every step of the relay keeps what it is at work on pending.            *)
LEMMA FitsStep ==
    ASSUME EmailInv, RelayFits, Email!Next
    PROVE  RelayFits'
<1> USE ServicesAssumption DEF Email!DeliveryAssumption
<1>1. CASE Email!FetchBatch
    BY <1>1 DEF EmailInv, RelayFits, Outcome, Email!FetchBatch, Email!Running, Email!provider
<1>2. CASE Email!Tick
    BY <1>2 DEF RelayFits, Outcome, Email!Tick, Email!relay, Email!provider
<1>3. CASE Email!Crash
    <2>1. /\ batch' = {} /\ written' = <<>> /\ call' = Email!NoCall
          /\ \A m \in late' : row[m].status # "none"
          /\ UNCHANGED <<row, inbox>>
        BY <1>3 DEF RelayFits, Email!Crash
    <2>2. DOMAIN written' = {}
        BY <2>1
    <2> QED
        BY <2>1, <2>2 DEF RelayFits
<1>4. CASE Email!Reject \/ Email!Timeout
    <2>1. /\ Email!TryFails /\ call # Email!NoCall /\ call.mail \in Mails
          /\ \A m \in late' : row[m].status # "none"
        BY <1>4 DEF EmailInv, RelayFits, Email!Reject, Email!Timeout, Email!TryFails
    <2>2. CASE call.try <= Retries
        <3>1. /\ call'.mail = call.mail /\ UNCHANGED <<row, batch, written, inbox>>
            <4>1. call' = [call EXCEPT !.try = call.try + 1]
                BY <2>1, <2>2 DEF Email!TryFails
            <4> QED
                BY <2>1, <2>2, <4>1, CallRetries DEF Email!TryFails
        <3> QED
            BY <2>1, <3>1 DEF RelayFits, Outcome
    <2>3. CASE ~(call.try <= Retries)
        <3>1. Email!MarkFailed(call.mail) /\ call' = Email!NoCall /\ UNCHANGED <<row, batch, inbox>>
            BY <2>1, <2>3 DEF Email!TryFails
        <3>2. row[call.mail].status = "pending"
            BY <2>1 DEF RelayFits
        <3> QED
            BY <2>1, <3>1, <3>2, FitsFailure
    <2> QED
        BY <2>2, <2>3
<1>5. ASSUME NEW m \in Mails, Email!Schedule(m) PROVE RelayFits'
    <2>1. /\ row[m].status = "none"
          /\ row' = [row EXCEPT ![m] = [status |-> "pending", attempts |-> 0]]
          /\ UNCHANGED <<batch, written, call, late, inbox>>
        BY <1>5 DEF Email!Schedule, Email!relay, Email!provider, Email!None
    <2>2. /\ row'[m].status = "pending" /\ row'[m].attempts = 0
          /\ \A n \in Mails \ {m} : row'[n] = row[n]
        BY <2>1 DEF EmailInv
    <2>3. /\ \A n \in batch \cup late \cup DOMAIN written : n \in Mails
          /\ m \notin batch \cup late \cup DOMAIN written
          /\ call # Email!NoCall => call.mail \in Mails \ {m}
        BY <2>1 DEF EmailInv, RelayFits
    <2>4. \A n \in Mails : /\ row'[n].status = "none" => row'[n].attempts = 0
                           /\ row'[n].status = "pending" => row'[n].attempts < MaxAttempts
                           /\ row'[n].attempts <= MaxAttempts
        BY <2>2 DEF RelayFits
    <2>5. \A n \in DOMAIN written : row'[n].status = "pending" /\ Outcome(n, written[n])'
        BY <2>1, <2>2, <2>3 DEF RelayFits, Outcome
    <2> QED
        BY <2>1, <2>2, <2>3, <2>4, <2>5 DEF RelayFits
<1>6. ASSUME NEW m \in Mails, Email!Enter(m) PROVE RelayFits'
    <2>1. /\ m \in batch /\ call' = [mail |-> m, try |-> 1] /\ batch' = batch \ {m}
          /\ UNCHANGED <<row, written, late, inbox>>
        BY <1>6 DEF Email!Enter
    <2> QED
        BY <2>1 DEF RelayFits, Outcome
<1>7. ASSUME NEW m \in Mails, Email!BrokenCircuit(m) PROVE RelayFits'
    <2>1. /\ Email!MarkFailed(m) /\ m \in batch /\ batch' \subseteq batch /\ late' = late
          /\ call' = Email!NoCall /\ UNCHANGED <<row, inbox>>
        BY <1>7 DEF Email!BrokenCircuit, Email!provider
    <2>2. row[m].status = "pending" /\ \A n \in late' : row[n].status # "none"
        BY <2>1 DEF RelayFits
    <2> QED
        BY <2>1, <2>2, FitsFailure
<1>8. CASE Email!Succeed
    <2>1. PICK m \in Mails : m = call.mail /\ Email!Receive(m) /\ Email!MarkSent(m) /\ call # Email!NoCall
        BY <1>8 DEF EmailInv, Email!Succeed
    <2>2. UNCHANGED <<row, batch, late>> /\ call' = Email!NoCall
        BY <1>8 DEF Email!Succeed
    <2>3. PICK r \in MailRows : Email!Write(m, r) /\ r.status = "sent" /\ r.attempts = row[m].attempts
        BY <2>1 DEF EmailInv, MailRows, Email!MarkSent
    <2>4. /\ inbox'[m] >= 1 /\ \A n \in Mails : inbox'[n] >= inbox[n] /\ inbox'[n] \in Nat
        BY <2>1, EmailReceive
    <2>5. Outcome(m, r)'
        BY <2>2, <2>3, <2>4 DEF Outcome
    <2>6. row[m].status = "pending" /\ \A n \in late' : row[n].status # "none"
        BY <2>1, <2>2 DEF RelayFits
    <2> QED
        BY <2>2, <2>3, <2>4, <2>5, <2>6, FitsWrite
<1>9. ASSUME NEW m \in Mails, Email!ReceiveLate(m) PROVE RelayFits'
    <2>1. \A n \in Mails : inbox'[n] >= inbox[n] /\ inbox'[n] \in Nat /\ inbox[n] \in Nat
        BY <1>9, EmailReceive DEF Email!ReceiveLate, EmailInv
    <2>2. UNCHANGED <<row, batch, written, call>> /\ late' \subseteq late
        BY <1>9 DEF Email!ReceiveLate, Email!relay
    <2>3. \A n \in DOMAIN written : n \in Mails
        BY DEF EmailInv
    <2> QED
        BY <2>1, <2>2, <2>3 DEF RelayFits, Outcome
<1>10. CASE Email!Commit
    <2>1. row' = [m \in Mails |-> IF m \in DOMAIN written THEN written[m] ELSE row[m]]
          /\ written' = <<>> /\ batch' = {} /\ call' = Email!NoCall /\ UNCHANGED late
        BY <1>10 DEF Email!Commit, Email!provider
    <2>2. DOMAIN written' = {}
        BY <2>1
    <2>3. ASSUME NEW m \in Mails
          PROVE  /\ row'[m].status = "none" => row'[m].attempts = 0
                 /\ row'[m].status = "pending" => row'[m].attempts < MaxAttempts
                 /\ row'[m].attempts <= MaxAttempts
                 /\ row[m].status # "none" => row'[m].status # "none"
        <3>1. CASE m \notin DOMAIN written
            BY <2>1, <3>1 DEF RelayFits
        <3>2. CASE m \in DOMAIN written
            <4>1. row'[m] = written[m] /\ Outcome(m, written[m])
                BY <2>1, <3>2 DEF RelayFits
            <4>2. row[m].status = "pending" /\ row[m].attempts < MaxAttempts /\ row[m].attempts \in Nat
                BY <3>2 DEF RelayFits, EmailInv, MailRows
            <4> QED
                BY <4>1, <4>2 DEF Outcome
        <3> QED
            BY <3>1, <3>2
    <2>4. \A m \in late' : row'[m].status # "none"
        BY <2>1, <2>3 DEF EmailInv, RelayFits
    <2> QED
        BY <2>1, <2>2, <2>3, <2>4 DEF RelayFits
<1> QED
    BY <1>1, <1>2, <1>3, <1>4, <1>5, <1>6, <1>7, <1>8, <1>9, <1>10 DEF Email!Next

(* What the relay is at work on is pending, in every state.                *)
LEMMA FitsInvariant == Spec => [](on = "email" => RelayFits)
<1> DEFINE Inv == on = "email" => RelayFits
<1>1. Init => Inv
    <2> SUFFICES ASSUME Email!Init PROVE RelayFits
        BY DEF Init
    <2>1. DOMAIN written = {}
        BY DEF Email!Init
    <2> QED
        BY <2>1, ServicesAssumption DEF Email!Init, RelayFits, Email!None, Email!DeliveryAssumption
<1>2. (on = "email" => EmailInv) /\ Inv /\ [Next]_vars => Inv'
    <2> SUFFICES ASSUME EmailInv, RelayFits, [Next]_vars, on = "email" PROVE RelayFits'
        BY ServiceStays
    <2>1. CASE UNCHANGED vars
        BY <2>1 DEF vars, RelayFits, Outcome
    <2>2. CASE Next
        BY <2>2, FitsStep DEF Next
    <2> QED
        BY <2>1, <2>2
<1> QED
    BY <1>1, <1>2, EmailInvariant, PTL DEF Spec

(* The table and the inbox as the contract sees them.                      *)
MailStatus == [m \in Mails |-> IF row[m] = Email!None THEN "absent" ELSE row[m].status]
MailAttempts == [m \in Mails |-> row[m].attempts]
Delivered == {m \in Mails : inbox[m] >= 1}

(* A delivery, in time or late, is a handler that returns.                 *)
LEMMA DeliveryIsHandle ==
    ASSUME EmailInv, NEW m \in Mails, Email!Receive(m), row' = row, row[m].status # "none"
    PROVE  Email!Contract!Handle(m)
<1>1. \A n \in Mails \ {m} : inbox'[n] = inbox[n]
    BY DEF EmailInv, Email!Receive
<1>2. inbox'[m] >= 1
    BY EmailReceive
<1>3. Delivered' = Delivered \cup {m}
    BY <1>1, <1>2 DEF Delivered
<1>4. MailStatus[m] # "absent"
    BY DEF EmailInv, MailRows, MailStatus, Email!None
<1> QED
    BY <1>3, <1>4 DEF Email!Contract!Handle, Delivered, MailStatus

(* A commit settles the rows it has written.                               *)
LEMMA CommitIsSettle ==
    ASSUME EmailInv, RelayFits, Email!Commit
    PROVE  \E ok, ko \in SUBSET Mails : Email!Contract!Settle(ok, ko)
<1>0. PICK ok \in SUBSET Mails, ko \in SUBSET Mails :
          ok = {m \in DOMAIN written : written[m].status = "sent"} /\ ko = DOMAIN written \ ok
    BY DEF EmailInv
<1>1. /\ row' = [m \in Mails |-> IF m \in DOMAIN written THEN written[m] ELSE row[m]] /\ inbox' = inbox
      /\ DOMAIN written \subseteq Mails
    BY DEF EmailInv, Email!Commit, Email!provider
<1>2. \A m \in DOMAIN written : /\ row[m].status = "pending" /\ Outcome(m, written[m])
                               /\ written[m].status \in {"sent", "failed", "pending"}
    BY DEF RelayFits, Outcome
<1>3. \A m \in Mails : row[m].status = "pending" => MailStatus[m] = "pending"
    BY DEF MailStatus, Email!None
<1>4. ok \subseteq {m \in Mails : MailStatus[m] = "pending"} \cap Delivered
    BY <1>0, <1>1, <1>2, <1>3 DEF Outcome, Delivered
<1>5. ko \subseteq {m \in Mails : MailStatus[m] = "pending"} \ ok
    BY <1>0, <1>1, <1>2, <1>3
<1>6. ASSUME NEW m \in Mails
      PROVE  /\ row'[m].attempts = IF m \in ko THEN row[m].attempts + 1 ELSE row[m].attempts
             /\ MailStatus'[m] = IF m \in ok THEN "sent"
                                 ELSE IF m \in ko /\ row[m].attempts + 1 >= MaxAttempts
                                      THEN "failed" ELSE MailStatus[m]
    <2>1. CASE m \notin DOMAIN written
        BY <1>0, <1>1, <2>1 DEF MailStatus
    <2>2. CASE m \in DOMAIN written
        <3>1. row'[m] = written[m] /\ row'[m] # Email!None
            BY <1>1, <1>2, <2>2 DEF Email!None
        <3>2. MailStatus'[m] = written[m].status
            BY <3>1 DEF MailStatus
        <3>3. MailStatus[m] = "pending"
            BY <1>2, <1>3, <2>2
        <3>4. CASE m \in ok
            <4>1. written[m].attempts = row[m].attempts
                BY <1>0, <1>2, <2>2, <3>4 DEF Outcome
            <4> QED
                BY <1>0, <3>1, <3>2, <3>4, <4>1
        <3>5. CASE m \in ko
            BY <1>0, <1>2, <2>2, <3>1, <3>2, <3>3, <3>5 DEF Outcome
        <3> QED
            BY <1>0, <2>2, <3>4, <3>5
    <2> QED
        BY <2>1, <2>2
<1>7. Delivered' = Delivered
    BY <1>1 DEF Delivered
<1>8. /\ MailAttempts' = [m \in Mails |-> IF m \in ko THEN MailAttempts[m] + 1 ELSE MailAttempts[m]]
      /\ MailStatus' = [m \in Mails |-> IF m \in ok THEN "sent"
                                        ELSE IF m \in ko /\ MailAttempts[m] + 1 >= MaxAttempts
                                             THEN "failed" ELSE MailStatus[m]]
    BY <1>6 DEF MailAttempts, MailStatus
<1>9. Email!Contract!Settle(ok, ko)
    <2>1. Email!Contract!Pending = {m \in Mails : MailStatus[m] = "pending"}
        BY DEF Email!Contract!Pending, MailStatus
    <2>2. ok \subseteq Email!Contract!Pending \cap Delivered /\ ko \subseteq Email!Contract!Pending \ ok
        BY <1>4, <1>5, <2>1
    <2> QED
        BY <1>7, <1>8, <2>2 DEF Email!Contract!Settle, MailStatus, MailAttempts, Delivered
<1> QED
    BY <1>9

(* A step of the relay is a step of the contract, or is not seen there.    *)
LEMMA EmailContractStep ==
    ASSUME EmailInv, RelayFits, Email!Next
    PROVE  Email!ContractStep
<1>1. CASE UNCHANGED <<row, inbox>>
    BY <1>1 DEF Email!ContractStep, Email!Contract!contractVars
<1>2. ASSUME NEW m \in Mails, Email!Schedule(m) PROVE Email!Contract!Insert(m)
    <2>1. /\ row[m] = Email!None /\ inbox' = inbox
          /\ row' = [row EXCEPT ![m] = [status |-> "pending", attempts |-> 0]]
        BY <1>2 DEF Email!Schedule, Email!provider
    <2>2. /\ row'[m].status = "pending" /\ row'[m].attempts = 0 /\ row'[m] # Email!None
          /\ \A n \in Mails \ {m} : row'[n] = row[n]
        BY <2>1 DEF EmailInv, Email!None
    <2>3. MailStatus[m] = "absent" /\ MailStatus' = [MailStatus EXCEPT ![m] = "pending"]
        <3>1. MailStatus[m] = "absent" /\ MailStatus'[m] = "pending"
            BY <2>1, <2>2 DEF MailStatus
        <3>2. \A n \in Mails \ {m} : MailStatus'[n] = MailStatus[n]
            BY <2>2 DEF MailStatus
        <3>3. /\ MailStatus = [n \in Mails |-> MailStatus[n]]
              /\ MailStatus' = [n \in Mails |-> MailStatus'[n]]
            BY DEF MailStatus
        <3> HIDE DEF MailStatus
        <3> QED
            BY <3>1, <3>2, <3>3
    <2>4. MailAttempts' = MailAttempts /\ Delivered' = Delivered
        BY <2>1, <2>2 DEF MailAttempts, Delivered, Email!None
    <2> QED
        BY <2>3, <2>4 DEF Email!Contract!Insert, MailStatus, MailAttempts, Delivered
<1>3. CASE Email!Succeed
    <2>1. PICK m \in Mails : m = call.mail /\ Email!Receive(m) /\ row' = row /\ call # Email!NoCall
        BY <1>3 DEF EmailInv, Email!Succeed
    <2>2. Email!Contract!Handle(m)
        BY <2>1, DeliveryIsHandle DEF RelayFits
    <2> QED
        BY <2>2 DEF Email!ContractStep, Email!Contract!Next
<1>4. ASSUME NEW m \in Mails, Email!ReceiveLate(m) PROVE Email!Contract!Handle(m)
    <2>1. m \in late /\ Email!Receive(m) /\ row' = row
        BY <1>4 DEF Email!ReceiveLate
    <2> QED
        BY <2>1, DeliveryIsHandle DEF RelayFits
<1>5. Email!FetchBatch \/ Email!Reject \/ Email!Timeout \/ Email!Tick \/ Email!Crash
      \/ (\E m \in Mails : Email!Enter(m) \/ Email!BrokenCircuit(m)) => UNCHANGED <<row, inbox>>
    BY DEF Email!FetchBatch, Email!Reject, Email!Timeout, Email!TryFails, Email!Tick, Email!Crash, Email!Enter,
       Email!BrokenCircuit, Email!provider
<1> QED
    BY <1>1, <1>2, <1>3, <1>4, <1>5, CommitIsSettle
       DEF Email!Next, Email!ContractStep, Email!Contract!Next

(* The e-mail relay keeps the contract of the outbox: a row settles once,  *)
(* as 'sent' only after the provider took the mail, as 'failed' only after *)
(* as many counted failures as the code allows, also when the pod crashes  *)
(* between a send and the commit, or a request arrives after its timeout.  *)
THEOREM EmailRelayKeepsContract == Spec => EmailKeepsContract
<1>1. Init => (on = "email" => Email!ContractInit)
    <2> SUFFICES ASSUME Email!Init PROVE Email!ContractInit
        BY DEF Init
    <2>1. /\ MailStatus = [m \in Mails |-> "absent"] /\ MailAttempts = [m \in Mails |-> 0]
          /\ Delivered = {}
        BY DEF Email!Init, MailStatus, MailAttempts, Delivered, Email!None
    <2> QED
        BY <2>1 DEF Email!ContractInit, Email!Contract!Init, MailStatus, MailAttempts, Delivered
<1>2. (on = "email" => EmailInv) /\ (on = "email" => RelayFits) /\ [Next]_vars
      => [on = "email" => Email!ContractStep]_vars
    <2> SUFFICES ASSUME EmailInv, RelayFits, Next, on = "email" PROVE Email!ContractStep
        OBVIOUS
    <2> QED
        BY EmailContractStep DEF Next
<1> QED
    BY <1>1, <1>2, EmailInvariant, FitsInvariant, PTL DEF Spec, EmailKeepsContract

(* What the breaker and the bounds keep to.                                *)
CircuitTypes ==
    /\ circuit \in [state : {"closed", "open", "half-open"}, failures : 0..Threshold, wait : 0..Cooldown]
    /\ tried \subseteq Mails /\ crashes \in 0..MaxCrashes

(* What the assumption on the constants says of the breaker.               *)
LEMMA CircuitConstants ==
    /\ Threshold \in Nat \ {0} /\ Cooldown \in Nat \ {0} /\ MaxCrashes \in Nat
    /\ Email!Closed \in [state : {"closed", "open", "half-open"}, failures : 0..Threshold, wait : 0..Cooldown]
    /\ Email!Open \in [state : {"closed", "open", "half-open"}, failures : 0..Threshold, wait : 0..Cooldown]
<1>1. Threshold \in Nat \ {0} /\ Cooldown \in Nat \ {0} /\ MaxCrashes \in Nat
    BY ServicesAssumption DEF Email!DeliveryAssumption
<1>2. 0 \in 0..Threshold /\ 0 \in 0..Cooldown /\ Cooldown \in 0..Cooldown
    BY <1>1
<1> QED
    BY <1>1, <1>2 DEF Email!Closed, Email!Open

(* Every step of the relay keeps to the bounds of the breaker.             *)
LEMMA CircuitStep ==
    ASSUME EmailInv, CircuitTypes, Email!Next
    PROVE  CircuitTypes'
<1>1. PICK f, w : f = circuit.failures /\ w = circuit.wait
    OBVIOUS
<1>2. f \in 0..Threshold /\ w \in 0..Cooldown
    BY <1>1 DEF CircuitTypes
<1>3. CASE Email!FetchBatch \/ Email!Commit \/ \E m \in Mails : Email!Schedule(m) \/ Email!BrokenCircuit(m) \/ Email!ReceiveLate(m)
    <2>1. UNCHANGED <<circuit, tried, crashes>>
        BY <1>3 DEF Email!FetchBatch, Email!Commit, Email!Schedule, Email!BrokenCircuit, Email!ReceiveLate,
                    Email!provider
    <2> QED
        BY <2>1 DEF CircuitTypes
<1>4. CASE Email!Succeed
    BY <1>4, CircuitConstants DEF CircuitTypes, Email!Succeed
<1>5. CASE Email!Crash
    <2>1. circuit' = Email!Closed /\ tried' = tried /\ crashes' = crashes + 1 /\ crashes < MaxCrashes
        BY <1>5 DEF Email!Crash
    <2> QED
        BY <2>1, CircuitConstants DEF CircuitTypes
<1>6. CASE Email!Tick
    <2>1. circuit' = [circuit EXCEPT !.wait = w - 1] /\ w > 0 /\ UNCHANGED <<tried, crashes>>
        BY <1>1, <1>6 DEF Email!Tick, Email!provider
    <2>2. w - 1 \in 0..Cooldown
        BY <1>2, <2>1, CircuitConstants
    <2> QED
        BY <2>1, <2>2 DEF CircuitTypes
<1>7. CASE Email!Reject \/ Email!Timeout
    <2>1. /\ UNCHANGED <<tried, crashes>>
          /\ \/ UNCHANGED circuit
             \/ circuit' = Email!Open
             \/ f + 1 < Threshold /\ circuit' = [circuit EXCEPT !.failures = f + 1]
        BY <1>1, <1>2, <1>7, CircuitConstants DEF Email!Reject, Email!Timeout, Email!TryFails, Email!Failures
    <2>2. f + 1 < Threshold => f + 1 \in 0..Threshold
        BY <1>2, CircuitConstants
    <2> QED
        BY <2>1, <2>2, CircuitConstants DEF CircuitTypes
<1>8. ASSUME NEW m \in Mails, Email!Enter(m) PROVE CircuitTypes'
    <2>1. /\ circuit' = [circuit EXCEPT !.state = IF @ = "open" THEN "half-open" ELSE @]
          /\ tried' = tried \cup {m} /\ UNCHANGED crashes
        BY <1>8 DEF Email!Enter
    <2> QED
        BY <2>1 DEF CircuitTypes
<1> QED
    BY <1>3, <1>4, <1>5, <1>6, <1>7, <1>8 DEF Email!Next

(* The rows of the outbox stay within their attempts, and the breaker      *)
(* within its bounds.                                                      *)
LEMMA EmailTyped == Spec => [](on = "email" => Email!TypeOK)
<1> DEFINE Inv == on = "email" => CircuitTypes
<1>1. Init => Inv
    BY CircuitConstants DEF Init, Email!Init, CircuitTypes
<1>2. (on = "email" => EmailInv) /\ Inv /\ [Next]_vars => Inv'
    <2> SUFFICES ASSUME EmailInv, CircuitTypes, [Next]_vars, on = "email" PROVE CircuitTypes'
        BY ServiceStays
    <2>1. CASE UNCHANGED vars
        BY <2>1 DEF vars, CircuitTypes
    <2>2. CASE Next
        BY <2>2, CircuitStep DEF Next
    <2> QED
        BY <2>1, <2>2
<1>3. (on = "email" => EmailInv) /\ (on = "email" => RelayFits) /\ Inv => (on = "email" => Email!TypeOK)
    <2> SUFFICES ASSUME EmailInv, RelayFits, CircuitTypes PROVE Email!TypeOK
        OBVIOUS
    <2>1. row \in [Mails -> {Email!None} \cup [status : {"pending", "sent", "failed"}, attempts : 0..MaxAttempts]]
        <3> SUFFICES ASSUME NEW m \in Mails
                     PROVE  row[m] \in {Email!None} \cup [status : {"pending", "sent", "failed"}, attempts : 0..MaxAttempts]
            BY DEF EmailInv
        <3>1. PICK r \in MailRows : r = row[m]
            BY DEF EmailInv
        <3>2. r.attempts \in Nat /\ r.attempts <= MaxAttempts /\ (r.status = "none" => r.attempts = 0)
            BY <3>1 DEF RelayFits, MailRows
        <3>3. r.attempts \in 0..MaxAttempts
            BY <3>2, ServicesAssumption DEF Email!DeliveryAssumption
        <3>4. CASE r.status = "none"
            BY <3>1, <3>2, <3>4 DEF MailRows, Email!None
        <3>5. CASE r.status # "none"
            BY <3>1, <3>3, <3>5 DEF MailRows
        <3> QED
            BY <3>4, <3>5
    <2> QED
        BY <2>1 DEF EmailInv, CircuitTypes, Email!TypeOK
<1> QED
    BY <1>1, <1>2, <1>3, EmailInvariant, FitsInvariant, PTL DEF Spec

-----------------------------------------------------------------------------
(* AccessRoles: how old a permission can be                                *)

RoleNames == Roles \cup {Access!Default}

(* A role in force is in force now; the one a token is about to be signed  *)
(* for was when the roles were read, and the one of a token not longer     *)
(* before it was signed than a mint takes.                                 *)
AccessInv ==
    /\ Access!TypeOK
    /\ \A r \in Access!InForce : since[r] = 0
    /\ \A c \in Clients : Access!At(c, "sign") => since[request[c].role] <= request[c].waited
    /\ \A s \in Sessions : token[s] # Access!None => since[token[s].role] <= token[s].age + MaxWait

(* What the assumption on the constants says of the access tokens.         *)
LEMMA AccessConstants == TTL \in Nat \ {0} /\ MaxWait \in Nat /\ Access!Old \in Nat
BY ServicesAssumption DEF ServicesAssumption, Access!AccessAssumption, Access!Old

(* The assignments in force name roles.                                    *)
LEMMA InForceAreRoles ==
    ASSUME assignment \in [Ids -> Access!Rows \cup {Access!None}]
    PROVE  Access!InForce \subseteq RoleNames
BY DEF Access!InForce, Access!Assigned, Access!Rows, RoleNames

(* Requests that neither read nor write the roles.                         *)
LEMMA AccessAside ==
    ASSUME AccessInv, NEW c \in Clients, NEW q \in Access!Requests,
           q.step = "sign" => q.role \in Access!InForce,
           request' = [request EXCEPT ![c] = q],
           UNCHANGED <<assignment, token, since>>
    PROVE  AccessInv'
<1>1. Access!TypeOK'
    BY DEF AccessInv, Access!TypeOK
<1>2. \A r \in Access!InForce' : since'[r] = 0
    BY DEF AccessInv, Access!InForce, Access!Assigned
<1>3. ASSUME NEW d \in Clients, Access!At(d, "sign")'
      PROVE  since'[request'[d].role] <= request'[d].waited
    <2>1. CASE d = c
        <3>1. request'[d] = q /\ q.step = "sign"
            BY <1>3, <2>1 DEF AccessInv, Access!TypeOK, Access!At
        <3>2. q.waited \in Nat
            BY <3>1, AccessConstants DEF Access!Requests, Access!Idle
        <3> QED
            BY <3>1, <3>2 DEF AccessInv
    <2>2. CASE d # c
        BY <1>3, <2>2 DEF AccessInv, Access!TypeOK, Access!At
    <2> QED
        BY <2>1, <2>2
<1>4. \A s \in Sessions : token'[s] # Access!None => since'[token'[s].role] <= token'[s].age + MaxWait
    BY DEF AccessInv
<1> QED
    BY <1>1, <1>2, <1>3, <1>4 DEF AccessInv

(* A row is inserted or deleted; what comes into force is in force now.    *)
LEMMA AccessWrite ==
    ASSUME AccessInv, NEW c \in Clients,
           assignment' \in [Ids -> Access!Rows \cup {Access!None}],
           since' = [r \in DOMAIN since |-> IF r \in Access!InForce' THEN 0 ELSE since[r]],
           request' = [request EXCEPT ![c] = Access!Idle],
           UNCHANGED token
    PROVE  AccessInv'
<1>1. since \in [RoleNames -> 0..Access!Old] /\ since' \in [RoleNames -> 0..Access!Old]
      /\ \A r \in RoleNames : since'[r] = (IF r \in Access!InForce' THEN 0 ELSE since[r]) /\ since'[r] <= since[r]
    BY AccessConstants DEF AccessInv, Access!TypeOK, RoleNames
<1>2. Access!TypeOK'
    BY <1>1 DEF AccessInv, Access!TypeOK, Access!Requests, RoleNames
<1>3. \A r \in Access!InForce' : since'[r] = 0
    <2>1. Access!InForce' \subseteq RoleNames
        BY DEF Access!InForce, Access!Assigned, Access!Rows, RoleNames
    <2> QED
        BY <1>1, <2>1
<1>4. ASSUME NEW d \in Clients, Access!At(d, "sign")'
      PROVE  since'[request'[d].role] <= request'[d].waited
    <2>1. request'[d] = request[d] /\ request[d].step = "sign"
        BY <1>4 DEF AccessInv, Access!TypeOK, Access!At, Access!Idle
    <2>2. request[d].role \in RoleNames /\ request[d].waited \in Nat
        BY <2>1, AccessConstants DEF AccessInv, Access!TypeOK, Access!Requests, Access!Idle, RoleNames
    <2>3. since[request[d].role] <= request[d].waited
        BY <2>1 DEF AccessInv, Access!At
    <2> QED
        BY <1>1, <2>1, <2>2, <2>3, AccessConstants
<1>5. ASSUME NEW s \in Sessions, token'[s] # Access!None
      PROVE  since'[token'[s].role] <= token'[s].age + MaxWait
    <2>1. token'[s] = token[s] /\ token[s].role \in RoleNames /\ token[s].age \in Nat
        BY <1>5, AccessConstants DEF AccessInv, Access!TypeOK, RoleNames
    <2>2. since[token[s].role] <= token[s].age + MaxWait
        BY <1>5, <2>1 DEF AccessInv
    <2> QED
        BY <1>1, <2>1, <2>2, AccessConstants
<1> QED
    BY <1>2, <1>3, <1>4, <1>5 DEF AccessInv

(* A token is signed for a role that was in force when the mint read it.   *)
LEMMA AccessSign ==
    ASSUME AccessInv, NEW c \in Clients, Access!SignAccessToken(c)
    PROVE  AccessInv'
<1>1. PICK r : r = request[c]
    OBVIOUS
<1>2. r \in [step : {"sign"}, session : Sessions, role : RoleNames, waited : 0..MaxWait]
    BY <1>1 DEF AccessInv, Access!TypeOK, Access!Requests, Access!Idle, Access!SignAccessToken, Access!At, RoleNames
<1>3. /\ token' = [token EXCEPT ![r.session] = [role |-> r.role, age |-> 0]]
      /\ request' = [request EXCEPT ![c] = Access!Idle]
      /\ UNCHANGED <<assignment, since>> /\ since[r.role] <= r.waited
    BY <1>1 DEF AccessInv, Access!SignAccessToken, Access!Return, Access!GoTo
<1>4. Access!TypeOK'
    BY <1>2, <1>3, AccessConstants DEF AccessInv, Access!TypeOK, Access!Requests, RoleNames
<1>5. \A s \in Access!InForce' : since'[s] = 0
    BY <1>3 DEF AccessInv, Access!InForce, Access!Assigned
<1>6. \A d \in Clients : Access!At(d, "sign")' => since'[request'[d].role] <= request'[d].waited
    BY <1>3 DEF AccessInv, Access!TypeOK, Access!At, Access!Idle
<1>7. ASSUME NEW s \in Sessions, token'[s] # Access!None
      PROVE  since'[token'[s].role] <= token'[s].age + MaxWait
    <2>1. CASE s = r.session
        <3>1. token'[s] = [role |-> r.role, age |-> 0]
            BY <1>3, <2>1 DEF AccessInv, Access!TypeOK
        <3>2. since[r.role] \in Nat
            BY <1>2, AccessConstants DEF AccessInv, Access!TypeOK, RoleNames
        <3> QED
            BY <1>2, <1>3, <3>1, <3>2, AccessConstants
    <2>2. CASE s # r.session
        BY <1>3, <1>7, <2>2 DEF AccessInv, Access!TypeOK
    <2> QED
        BY <2>1, <2>2
<1> QED
    BY <1>4, <1>5, <1>6, <1>7 DEF AccessInv

(* A tick makes tokens, mints and the roles that are out of force older.   *)
LEMMA AccessTick ==
    ASSUME AccessInv, Access!Tick
    PROVE  AccessInv'
<1>1. since \in [RoleNames -> 0..Access!Old] /\ since' \in [RoleNames -> 0..Access!Old]
      /\ \A r \in RoleNames :
            /\ since'[r] <= since[r] + 1
            /\ r \in Access!InForce => since'[r] = 0
    BY AccessConstants DEF AccessInv, Access!TypeOK, Access!Tick, RoleNames
<1>2. ASSUME NEW c \in Clients
      PROVE  /\ request'[c] \in Access!Requests
             /\ request'[c].step = "sign" =>
                   /\ request[c].step = "sign" /\ request'[c].role = request[c].role
                   /\ request'[c].waited = request[c].waited + 1
                   /\ request[c].role \in RoleNames /\ request[c].waited \in Nat
    <2>1. PICK r : r = request[c]
        OBVIOUS
    <2>2. CASE r.step = "sign"
        <3>1. r \in [step : {"sign"}, session : Sessions, role : RoleNames, waited : 0..MaxWait]
              /\ r.waited < MaxWait
            BY <2>1, <2>2 DEF AccessInv, Access!TypeOK, Access!Requests, Access!Idle, Access!Tick, Access!At, RoleNames
        <3>2. request'[c] = [r EXCEPT !.waited = @ + 1]
            BY <2>1, <2>2 DEF Access!Tick, Access!At
        <3>3. request'[c] \in [step : {"sign"}, session : Sessions, role : RoleNames, waited : 0..MaxWait]
            BY <3>1, <3>2, AccessConstants
        <3> QED
            BY <2>1, <2>2, <3>1, <3>2, <3>3, AccessConstants DEF Access!Requests, RoleNames
    <2>3. CASE r.step # "sign"
        BY <2>1, <2>3 DEF AccessInv, Access!TypeOK, Access!Tick, Access!At
    <2> QED
        BY <2>2, <2>3
<1>3. ASSUME NEW s \in Sessions
      PROVE  /\ token'[s] \in [role : RoleNames, age : 0..TTL - 1] \cup {Access!None}
             /\ token'[s] # Access!None =>
                   /\ token[s] # Access!None /\ token'[s].role = token[s].role
                   /\ token'[s].age = token[s].age + 1
                   /\ token[s].role \in RoleNames /\ token[s].age \in Nat
    <2>1. PICK t : t = token[s]
        OBVIOUS
    <2>2. t \in [role : RoleNames, age : 0..TTL - 1] \cup {Access!None}
          /\ token'[s] = IF t = Access!None \/ t.age = TTL - 1 THEN Access!None ELSE [t EXCEPT !.age = @ + 1]
        BY <2>1 DEF AccessInv, Access!TypeOK, Access!Tick, RoleNames
    <2> QED
        BY <2>1, <2>2, AccessConstants
<1>4. Access!TypeOK'
    <2>1. request' \in [Clients -> Access!Requests]
        BY <1>2 DEF Access!Tick
    <2>2. token' \in [Sessions -> [role : Roles \cup {Access!Default}, age : 0..TTL - 1] \cup {Access!None}]
        BY <1>3 DEF Access!Tick, RoleNames
    <2>3. assignment' \in [Ids -> Access!Rows \cup {Access!None}]
        BY DEF AccessInv, Access!TypeOK, Access!Tick
    <2> QED
        BY <1>1, <2>1, <2>2, <2>3 DEF Access!TypeOK, RoleNames
<1>5. \A r \in Access!InForce' : since'[r] = 0
    <2>1. Access!InForce' = Access!InForce
        BY DEF Access!Tick, Access!InForce, Access!Assigned
    <2>2. Access!InForce \subseteq RoleNames
        BY InForceAreRoles DEF AccessInv, Access!TypeOK
    <2> QED
        BY <1>1, <2>1, <2>2
<1>6. ASSUME NEW c \in Clients, Access!At(c, "sign")'
      PROVE  since'[request'[c].role] <= request'[c].waited
    <2>1. /\ request[c].step = "sign" /\ request'[c].role = request[c].role
          /\ request'[c].waited = request[c].waited + 1
          /\ request[c].role \in RoleNames /\ request[c].waited \in Nat
        BY <1>2, <1>6 DEF Access!At
    <2>2. since[request[c].role] <= request[c].waited
        BY <2>1 DEF AccessInv, Access!At
    <2> QED
        BY <1>1, <2>1, <2>2, AccessConstants
<1>7. ASSUME NEW s \in Sessions, token'[s] # Access!None
      PROVE  since'[token'[s].role] <= token'[s].age + MaxWait
    <2>1. since[token[s].role] <= token[s].age + MaxWait
        BY <1>3, <1>7 DEF AccessInv
    <2>2. token[s].role \in RoleNames /\ token[s].age \in Nat
        BY <1>3, <1>7
    <2>3. since[token[s].role] \in Nat /\ since'[token[s].role] \in Nat
          /\ since'[token[s].role] <= since[token[s].role] + 1
        BY <1>1, <2>2, AccessConstants
    <2> QED
        BY <1>3, <1>7, <2>1, <2>2, <2>3, AccessConstants
<1> QED
    BY <1>4, <1>5, <1>6, <1>7 DEF AccessInv

(* Every step keeps the ages of roles, mints and tokens in order.          *)
LEMMA AccessStep ==
    ASSUME AccessInv, Access!Next
    PROVE  AccessInv'
<1>1. ASSUME NEW c \in Clients,
             \/ \E r \in Access!Rows : Access!AssignRole(c, r)
             \/ \E i \in Ids : Access!RevokeRole(c, i)
             \/ \E s \in Sessions : Access!Mint(c, s)
             \/ Access!EnsureDefaultRole(c)
      PROVE  AccessInv'
    <2>1. PICK q \in Access!Requests : q.step # "sign" /\ Access!Begin(c, q)
        BY <1>1 DEF Access!AssignRole, Access!RevokeRole, Access!Mint, Access!EnsureDefaultRole, Access!Requests
    <2> QED
        BY <2>1, AccessAside DEF Access!Begin, Access!GoTo
<1>2. ASSUME NEW c \in Clients, Access!ListForUser(c) \/ Access!FindExisting(c)
      PROVE  AccessInv'
    <2>1. PICK r : r = request[c]
        OBVIOUS
    <2>2. PICK q \in {Access!Idle} \cup [step : {"insert"}, row : Access!Rows] :
             request' = [request EXCEPT ![c] = q]
        <3>1. CASE Access!ListForUser(c)
            <4>1. [role |-> "project_member", scope |-> [type |-> "workspace", id |-> "NULL"]] \in Access!Rows
                BY ServicesAssumption DEF ServicesAssumption, Access!AccessAssumption, Access!Rows, Access!Scopes
            <4> QED
                BY <3>1, <4>1 DEF Access!ListForUser, Access!GoTo
        <3>2. CASE Access!FindExisting(c)
            <4>1. r.row \in Access!Rows
                BY <2>1, <3>2 DEF AccessInv, Access!TypeOK, Access!Requests, Access!Idle, Access!FindExisting, Access!At
            <4> QED
                BY <2>1, <3>2, <4>1 DEF Access!FindExisting, Access!GoTo
        <3> QED
            BY <1>2, <3>1, <3>2
    <2>3. q \in Access!Requests /\ q.step # "sign"
        BY <2>2 DEF Access!Requests, Access!Idle
    <2>4. UNCHANGED <<assignment, token, since>>
        BY <1>2 DEF Access!ListForUser, Access!FindExisting
    <2> QED
        BY <2>2, <2>3, <2>4, AccessAside
<1>3. ASSUME NEW c \in Clients, Access!GetUserRoleAndPermissions(c)
      PROVE  AccessInv'
    <2>1. PICK r \in RoleNames :
             /\ Access!Preferred(r)
             /\ Access!GoTo(c, [step |-> "sign", session |-> request[c].session, role |-> r, waited |-> 0])
        BY <1>3 DEF Access!GetUserRoleAndPermissions, RoleNames
    <2>2. PICK q : q = [step |-> "sign", session |-> request[c].session, role |-> r, waited |-> 0]
        OBVIOUS
    <2>3. q \in Access!Requests
        BY <1>3, <2>1, <2>2, AccessConstants DEF AccessInv, Access!TypeOK, Access!Requests, Access!Idle,
           Access!GetUserRoleAndPermissions, Access!At, RoleNames
    <2>4. r \in Access!InForce
        BY <2>1 DEF Access!Preferred, Access!InForce
    <2> QED
        BY <1>3, <2>1, <2>2, <2>3, <2>4, AccessAside DEF Access!GetUserRoleAndPermissions, Access!GoTo
<1>4. ASSUME NEW c \in Clients, Access!CreateAssignment(c)
      PROVE  AccessInv'
    <2>1. request[c].row \in Access!Rows
        BY <1>4 DEF AccessInv, Access!TypeOK, Access!Requests, Access!Idle, Access!CreateAssignment, Access!At
    <2>2. assignment' \in [Ids -> Access!Rows \cup {Access!None}]
        BY <1>4, <2>1 DEF AccessInv, Access!TypeOK, Access!CreateAssignment
    <2> QED
        BY <1>4, <2>2, AccessWrite DEF Access!CreateAssignment, Access!Return, Access!GoTo
<1>5. ASSUME NEW c \in Clients, Access!DeleteAssignment(c)
      PROVE  AccessInv'
    <2>1. assignment' \in [Ids -> Access!Rows \cup {Access!None}]
        BY <1>5 DEF AccessInv, Access!TypeOK, Access!DeleteAssignment
    <2> QED
        BY <1>5, <2>1, AccessWrite DEF Access!DeleteAssignment, Access!Return, Access!GoTo
<1> QED
    BY <1>1, <1>2, <1>3, <1>4, <1>5, AccessTick, AccessSign DEF Access!Next

(* The invariant of roles and tokens holds in every state of the           *)
(* composition.                                                            *)
LEMMA AccessInvariant == Spec => [](on = "access" => AccessInv)
<1> DEFINE Inv == on = "access" => AccessInv
<1>1. Init => Inv
    <2> SUFFICES ASSUME Access!Init PROVE AccessInv
        BY DEF Init
    <2>1. Access!TypeOK
        BY AccessConstants DEF Access!Init, Access!TypeOK, Access!Requests
    <2>2. Access!InForce = {Access!Default} /\ since[Access!Default] = 0
        BY DEF Access!Init, Access!InForce, Access!Assigned
    <2> QED
        BY <2>1, <2>2 DEF Access!Init, AccessInv, Access!At, Access!Idle
<1>2. Inv /\ [Next]_vars => Inv'
    <2> SUFFICES ASSUME Inv, [Next]_vars, on = "access" PROVE AccessInv'
        BY ServiceStays
    <2>1. CASE UNCHANGED vars
        BY <2>1 DEF vars, AccessInv, Access!TypeOK, Access!InForce, Access!Assigned, Access!At
    <2>2. CASE Next
        BY <2>2, AccessStep DEF Next
    <2> QED
        BY <2>1, <2>2
<1> QED
    BY <1>1, <1>2, PTL DEF Spec

(* What a token lets through, a role that was in force at most one         *)
(* lifetime of a token and the time of a mint ago does too, whatever was   *)
(* assigned and revoked since, by any number of requests; for any lifetime.*)
THEOREM StaleAccessIsBounded == Spec => []AccessIsRecent
<1>1. (on = "access" => AccessInv) => AccessIsRecent
    <2> SUFFICES ASSUME AccessInv, NEW s \in Sessions, NEW needs \in Access!Needs,
                        token[s] # Access!None, Access!MayCall(token[s].role, needs)
                 PROVE  \E r \in RoleNames : since[r] < Access!Old /\ Access!MayCall(r, needs)
        BY DEF AccessIsRecent, Access!AccessIsRecent, RoleNames
    <2>1. token[s] \in [role : RoleNames, age : 0..TTL - 1]
        BY DEF AccessInv, Access!TypeOK, RoleNames
    <2>2. token[s].role \in RoleNames /\ token[s].age \in 0..TTL - 1
        BY <2>1
    <2>3. since[token[s].role] \in Nat /\ since[token[s].role] <= token[s].age + MaxWait
        BY <2>2, AccessConstants DEF AccessInv, Access!TypeOK, RoleNames
    <2>4. since[token[s].role] < Access!Old
        BY <2>2, <2>3, AccessConstants DEF Access!Old
    <2> QED
        BY <2>2, <2>4
<1> QED
    BY <1>1, AccessInvariant, PTL

-----------------------------------------------------------------------------
(* HttpPipeline: what the two windows of an interval let pass              *)

ServedRoutes ==
    {r \in Table!Routes : r.name \in {"POST work-items/:id/time-logs", "GET healthz"}}

LimitTypes ==
    /\ half \in {1, 2} /\ failures \in Nat
    /\ bucket \in [Http!Buckets -> Nat] /\ passed \in [Http!Buckets -> Nat \X Nat]

(* What has passed in this window has been counted; in its first half the  *)
(* half before belongs to the window before.                               *)
Bounded(n, p) ==
    IF half = 1 THEN p[1] <= Limit /\ p[2] <= n /\ p[2] <= Limit
    ELSE p[1] + p[2] <= n /\ p[1] + p[2] <= Limit

LimitInv ==
    /\ LimitTypes
    /\ failures = 0 => \A b \in Http!Buckets : Bounded(bucket[b], passed[b])

(* What the assumption on the constants says of the rate limit.            *)
LEMMA LimitConstants == Limit \in Nat \ {0} /\ MaxFailures \in Nat
BY ServicesAssumption DEF ServicesAssumption, Http!PipelineAssumption

(* A request is counted, and passes if the count is within the limit.      *)
LEMMA LimitCount ==
    ASSUME LimitInv, NEW b \in Http!Buckets, NEW let \in BOOLEAN,
           bucket' = [bucket EXCEPT ![b] = Http!Counted(b)],
           let => Http!Counted(b) <= Limit,
           passed' = IF let THEN [passed EXCEPT ![b][2] = @ + 1] ELSE passed,
           UNCHANGED <<half, failures>>
    PROVE  LimitInv'
<1>1. PICK n, p : n = bucket[b] /\ p = passed[b]
    OBVIOUS
<1>2. n \in Nat /\ p \in Nat \X Nat /\ p[1] \in Nat /\ p[2] \in Nat
    BY <1>1 DEF LimitInv, LimitTypes
<1>3. PICK q : q = IF let THEN <<p[1], p[2] + 1>> ELSE p
    OBVIOUS
<1>4. q \in Nat \X Nat
    BY <1>2, <1>3
<1>5. passed' = [passed EXCEPT ![b] = q]
    <2>1. [p EXCEPT ![2] = @ + 1] = <<p[1], p[2] + 1>>
        BY <1>2
    <2>2. CASE let
        BY <2>1, <2>2, <1>1, <1>3
    <2>3. CASE ~let
        BY <2>3, <1>1, <1>3 DEF LimitInv, LimitTypes
    <2> QED
        BY <2>2, <2>3
<1>6. PICK m \in Nat : m = Http!Counted(b)
    BY <1>1, <1>2 DEF Http!Counted
<1>7. LimitTypes'
    BY <1>4, <1>5, <1>6 DEF LimitInv, LimitTypes
<1>8. failures = 0 => Bounded(m, q)
    BY <1>1, <1>2, <1>3, <1>6, LimitConstants DEF LimitInv, LimitTypes, Bounded, Http!Counted
<1>9. failures' = 0 => \A a \in Http!Buckets : Bounded(bucket[a], passed[a])'
    <2> SUFFICES ASSUME failures = 0, NEW a \in Http!Buckets PROVE Bounded(bucket[a], passed[a])'
        OBVIOUS
    <2>1. CASE a = b
        <3>1. bucket'[a] = m /\ passed'[a] = q
            BY <2>1, <1>5, <1>6 DEF LimitInv, LimitTypes
        <3> QED
            BY <3>1, <1>8 DEF Bounded
    <2>2. CASE a # b
        <3>1. bucket'[a] = bucket[a] /\ passed'[a] = passed[a]
            BY <2>2, <1>5 DEF LimitInv, LimitTypes
        <3> QED
            BY <3>1 DEF LimitInv, Bounded
    <2> QED
        BY <2>1, <2>2
<1> QED
    BY <1>7, <1>9 DEF LimitInv

(* With failures nothing is promised.                                      *)
LEMMA LimitOnFailure ==
    ASSUME LimitInv, failures' = failures + 1, UNCHANGED <<half, bucket>>,
           \/ UNCHANGED passed
           \/ \E b \in Http!Buckets : passed' = [passed EXCEPT ![b][2] = @ + 1]
    PROVE  LimitInv'
<1>1. passed' \in [Http!Buckets -> Nat \X Nat]
    <2>1. CASE UNCHANGED passed
        BY <2>1 DEF LimitInv, LimitTypes
    <2>2. ASSUME NEW b \in Http!Buckets, passed' = [passed EXCEPT ![b][2] = @ + 1]
          PROVE  passed' \in [Http!Buckets -> Nat \X Nat]
        <3>1. PICK p \in Nat \X Nat : p = passed[b]
            BY DEF LimitInv, LimitTypes
        <3>2. [p EXCEPT ![2] = @ + 1] = <<p[1], p[2] + 1>>
            BY <3>1
        <3> QED
            BY <2>2, <3>1, <3>2 DEF LimitInv, LimitTypes
    <2> QED
        BY <2>1, <2>2
<1> QED
    BY <1>1 DEF LimitInv, LimitTypes

(* Half a window passes: the half that ends becomes the one before, and    *)
(* the counter starts anew with every second one.                          *)
LEMMA LimitTick ==
    ASSUME LimitInv, Http!Tick
    PROVE  LimitInv'
<1>1. /\ half' = 3 - half /\ failures' = failures
      /\ bucket' = IF half = 2 THEN [b \in Http!Buckets |-> 0] ELSE bucket
      /\ passed' = [b \in Http!Buckets |-> <<passed[b][2], 0>>]
    BY DEF Http!Tick
<1>2. LimitTypes'
    <2>1. \A b \in Http!Buckets : passed[b][2] \in Nat
        BY DEF LimitInv, LimitTypes
    <2> QED
        BY <1>1, <2>1 DEF LimitInv, LimitTypes
<1>3. ASSUME failures = 0, NEW b \in Http!Buckets
      PROVE  Bounded(bucket[b], passed[b])'
    <2>1. PICK p \in Nat \X Nat : p = passed[b]
        BY DEF LimitInv, LimitTypes
    <2>2. PICK n \in Nat : n = bucket[b]
        BY DEF LimitInv, LimitTypes
    <2>3. passed'[b] = <<p[2], 0>> /\ bucket'[b] = (IF half = 2 THEN 0 ELSE n)
        BY <1>1, <2>1, <2>2
    <2>4. Bounded(n, p) /\ p[1] \in Nat /\ p[2] \in Nat
        BY <1>3, <2>1, <2>2 DEF LimitInv
    <2> QED
        BY <1>1, <2>3, <2>4, LimitConstants DEF Bounded, LimitInv, LimitTypes
<1> QED
    BY <1>1, <1>2, <1>3 DEF LimitInv

(* Every step keeps the invariant of the windows.                          *)
LEMMA LimitStep ==
    ASSUME LimitInv, Http!Next
    PROVE  LimitInv'
<1>1. ASSUME UNCHANGED <<half, bucket, passed>>, failures' = failures \/ failures' = failures + 1
      PROVE  LimitInv'
    BY <1>1, LimitOnFailure DEF LimitInv, LimitTypes, Bounded
<1>2. ASSUME NEW c \in Clients, NEW u \in Callers,
             NEW route \in ServedRoutes, NEW keyed \in BOOLEAN,
             \/ Http!ConsumeRateLimit(c, u, route, keyed) \/ Http!FailOpen(c, u, route, keyed)
      PROVE  LimitInv'
    <2>1. PICK b \in Http!Buckets : b = Http!Bucket(route, u)
        <3>1. PICK tier \in Http!Tiers : tier = route.tier
            BY <1>2 DEF Http!ConsumeRateLimit, Http!FailOpen, Http!Tiers, ServedRoutes
        <3>2. PICK who \in Callers \cup {"ip"} : who = IF tier = "AUTH_REFRESH" THEN u ELSE "ip"
            OBVIOUS
        <3> QED
            BY <3>1, <3>2 DEF Http!Buckets, Http!Bucket
    <2>2. CASE Http!ConsumeRateLimit(c, u, route, keyed)
        <3>1. PICK let \in BOOLEAN : let <=> Http!Counted(b) <= Limit
            OBVIOUS
        <3>2. /\ bucket' = [bucket EXCEPT ![b] = Http!Counted(b)]
              /\ passed' = IF let THEN [passed EXCEPT ![b][2] = @ + 1] ELSE passed
              /\ UNCHANGED <<half, failures>>
            BY <2>1, <2>2, <3>1 DEF Http!ConsumeRateLimit, Http!PassGuard
        <3> QED
            BY <3>1, <3>2, LimitCount
    <2>3. CASE Http!FailOpen(c, u, route, keyed)
        BY <2>1, <2>3, LimitOnFailure DEF Http!FailOpen, Http!PassGuard, Http!ValkeyFails
    <2> QED
        BY <1>2, <2>2, <2>3
<1>3. ASSUME NEW c \in Clients, NEW u \in Callers,
             NEW route \in ServedRoutes, NEW keyed \in BOOLEAN,
             Http!SkipRateLimit(c, u, route, keyed)
      PROVE  LimitInv'
    BY <1>1, <1>3 DEF Http!SkipRateLimit, Http!limits
<1>4. ASSUME NEW c \in Clients,
             \/ Http!GetCached(c) \/ Http!GetFails(c) \/ Http!Handle(c)
             \/ Http!HandlerThrows(c) \/ Http!Respond(c)
      PROVE  LimitInv'
    BY <1>1, <1>4 DEF Http!GetCached, Http!GetFails, Http!Handle, Http!HandlerThrows, Http!Respond,
       Http!limits, Http!ValkeyFails
<1>5. ASSUME NEW r, Http!Store(r) \/ Http!StoreFails(r) \/ Http!Expire(r)
      PROVE  LimitInv'
    BY <1>1, <1>5 DEF Http!Store, Http!StoreFails, Http!Expire, Http!limits, Http!ValkeyFails
<1> QED
    BY <1>2, <1>3, <1>4, <1>5, LimitTick DEF Http!Next, ServedRoutes

(* The invariant of the windows holds in every state of the composition.   *)
LEMMA LimitInvariant == Spec => [](on = "http" => LimitInv)
<1> DEFINE Inv == on = "http" => LimitInv
<1>1. Init => Inv
    <2> SUFFICES ASSUME Http!Init PROVE LimitInv
        BY DEF Init
    <2>1. \A b \in Http!Buckets : bucket[b] = 0 /\ passed[b] = <<0, 0>>
        BY DEF Http!Init
    <2> QED
        BY <2>1, LimitConstants DEF Http!Init, LimitInv, LimitTypes, Bounded
<1>2. Inv /\ [Next]_vars => Inv'
    <2> SUFFICES ASSUME Inv, [Next]_vars, on = "http" PROVE LimitInv'
        BY ServiceStays
    <2>1. CASE UNCHANGED vars
        BY <2>1 DEF vars, LimitInv, LimitTypes, Bounded
    <2>2. CASE Next
        BY <2>2, LimitStep DEF Next
    <2> QED
        BY <2>1, <2>2
<1> QED
    BY <1>1, <1>2, PTL DEF Spec

(* While Valkey answers, any interval as long as a window sees at most     *)
(* twice the limit of requests of a key pass; for any limit, and for the   *)
(* keys of every route and caller.                                         *)
THEOREM TwoWindowsMeet == Spec => []AtMostTwiceTheLimit
<1>1. (on = "http" => LimitInv) => AtMostTwiceTheLimit
    <2> SUFFICES ASSUME LimitInv, failures = 0, NEW b \in Http!Buckets
                 PROVE  passed[b][1] + passed[b][2] <= 2 * Limit
        BY DEF AtMostTwiceTheLimit, Http!AtMostTwiceTheLimit
    <2>1. PICK p \in Nat \X Nat : p = passed[b]
        BY DEF LimitInv, LimitTypes
    <2>2. p[1] \in Nat /\ p[2] \in Nat /\ Bounded(bucket[b], p)
        BY <2>1 DEF LimitInv
    <2> QED
        BY <2>1, <2>2, LimitConstants DEF Bounded
<1> QED
    BY <1>1, LimitInvariant, PTL

-----------------------------------------------------------------------------
(* HttpPipeline: one handler for a request and its retries                 *)

KeyedRequests ==
    [step : {"lookup", "handle"}, caller : Callers, route : {r \in ServedRoutes : r.idempotent}]

Carries(c, k) == Http!Keyed(c) /\ Http!Key(request[c]) = k

(* Of the requests with a key that overlapped no other one is under way,   *)
(* counting the SET; before its handler none has run, and after it the     *)
(* response is kept or about to be.                                        *)
Alone(k) ==
    /\ \A c, d \in Clients : Carries(c, k) /\ Carries(d, k) => c = d
    /\ \A c \in Clients : Carries(c, k) => \A s \in storing : s.key # k
    /\ \A c \in Clients : Carries(c, k) /\ Http!At(c, "handle") => handled[k] = 0
    /\ handled[k] <= 1
    /\ handled[k] = 1 => \E s \in storing \cup cache : s.key = k

RetryTypes ==
    /\ failures \in Nat /\ handled \in [Http!RedisKeys -> Nat]
    /\ request = [c \in Clients |-> request[c]]
    /\ \A c \in Clients : Http!Keyed(c) => request[c] \in KeyedRequests

RetryInv ==
    /\ RetryTypes
    /\ failures = 0 => \A k \in Http!RedisKeys \ overlapped : Alone(k)

(* A request with an idempotency key has a key in Redis.                   *)
LEMMA KeysOfRequests ==
    ASSUME NEW q \in KeyedRequests
    PROVE  Http!Key(q) \in Http!RedisKeys
<1>1. /\ q.route \in {x \in ServedRoutes : x.idempotent} /\ q.caller \in Callers
      /\ Http!Key(q) = Http!RedisKey(q.route, q.caller)
    BY DEF KeyedRequests, Http!Key
<1>2. Http!RedisKeys = {Http!RedisKey(x, u) : x \in {x \in ServedRoutes : x.idempotent}, u \in Callers}
    BY DEF Http!RedisKeys, ServedRoutes
<1> QED
    BY <1>1, <1>2

(* A request that is done with its key, or had none.                       *)
LEMMA RetryLeaves ==
    ASSUME RetryInv, NEW c \in Clients, NEW q, q.step \notin {"lookup", "handle"},
           request' = [request EXCEPT ![c] = q],
           UNCHANGED <<cache, storing, handled, overlapped>>,
           failures' = failures \/ failures' = failures + 1
    PROVE  RetryInv'
<1>1. request'[c] = q /\ \A d \in Clients \ {c} : request'[d] = request[d]
    BY DEF RetryInv, RetryTypes
<1>2. \A d \in Clients : Http!Keyed(d)' => d # c /\ Http!Keyed(d) /\ request'[d] = request[d]
    BY <1>1 DEF Http!Keyed, Http!At
<1>3. RetryTypes'
    BY <1>2 DEF RetryInv, RetryTypes
<1>4. ASSUME failures' = 0, NEW k \in Http!RedisKeys \ overlapped
      PROVE  Alone(k)'
    <2>1. Alone(k)
        BY <1>4 DEF RetryInv, RetryTypes
    <2>2. \A d \in Clients : Carries(d, k)' => Carries(d, k) /\ request'[d] = request[d]
        BY <1>2 DEF Carries, Http!Key, Http!RedisKey
    <2> QED
        BY <2>1, <2>2 DEF Alone, Http!At
<1> QED
    BY <1>3, <1>4 DEF RetryInv

(* The variables of the limit are not these.                               *)
LEMMA RetryUnchanged ==
    ASSUME RetryInv, UNCHANGED <<cache, storing, handled, overlapped, request>>,
           failures' = failures \/ failures' = failures + 1
    PROVE  RetryInv'
<1>1. RetryTypes'
    BY DEF RetryInv, RetryTypes, Http!Keyed, Http!At
<1>2. ASSUME failures' = 0, NEW k \in Http!RedisKeys \ overlapped
      PROVE  Alone(k)'
    <2>1. Alone(k)
        BY <1>2 DEF RetryInv, RetryTypes
    <2>2. \A d \in Clients : Carries(d, k)' <=> Carries(d, k)
        BY DEF Carries, Http!Key, Http!RedisKey, Http!Keyed, Http!At
    <2> QED
        BY <2>1, <2>2 DEF Alone, Http!At
<1> QED
    BY <1>1, <1>2 DEF RetryInv

(* A request arrives, and is noted if another one with its key is there.   *)
LEMMA RetryArrives ==
    ASSUME RetryInv, NEW c \in Clients, NEW u \in Callers, NEW route \in ServedRoutes,
           Http!Arrives(c, route, TRUE), Http!Pass(c, u, route, TRUE),
           UNCHANGED <<cache, storing, handled>>,
           failures' = failures \/ failures' = failures + 1
    PROVE  RetryInv'
<1>1. PICK q : q = [step |-> "lookup", caller |-> u, route |-> route]
    OBVIOUS
<1>2. PICK key : key = Http!RedisKey(route, u)
    OBVIOUS
<1>3. /\ q \in KeyedRequests /\ Http!Key(q) = key
      /\ request' = [request EXCEPT ![c] = q]
      /\ overlapped' = overlapped \cup {k \in {key} : Http!Overlap(c, k)}
      /\ ~Http!Keyed(c)
    BY <1>1, <1>2 DEF KeyedRequests, Http!Arrives, Http!Pass, Http!Key, Http!GoTo, Http!Keyed, Http!At, Http!Idle
<1>4. request'[c] = q /\ \A d \in Clients \ {c} : request'[d] = request[d]
    BY <1>3 DEF RetryInv, RetryTypes
<1>5. RetryTypes'
    BY <1>3, <1>4 DEF RetryInv, RetryTypes, Http!Keyed, Http!At
<1>6. ASSUME failures' = 0, NEW k \in Http!RedisKeys \ overlapped'
      PROVE  Alone(k)'
    <2>1. Alone(k)
        BY <1>3, <1>6 DEF RetryInv, RetryTypes
    <2>2. \A d \in Clients \ {c} : Carries(d, k)' <=> Carries(d, k)
        BY <1>4 DEF Carries, Http!Key, Http!RedisKey, Http!Keyed, Http!At
    <2>3. Carries(c, k)' => k = key
        BY <1>3, <1>4 DEF Carries, Http!Key, Http!RedisKey
    <2>4. k = key => /\ \A d \in Clients \ {c} : ~Carries(d, k)
                     /\ \A s \in storing : s.key # k
        BY <1>3, <1>6 DEF Http!Overlap, Carries
    <2>5. ~Http!At(c, "handle")'
        BY <1>1, <1>4 DEF Http!At
    <2>6. \A d \in Clients \ {c} : Http!At(d, "handle")' <=> Http!At(d, "handle")
        BY <1>4 DEF Http!At
    <2> QED
        BY <2>1, <2>2, <2>3, <2>4, <2>5, <2>6 DEF Alone
<1> QED
    BY <1>5, <1>6 DEF RetryInv

(* Nothing is kept for it: the handler is next.                            *)
LEMMA RetryMisses ==
    ASSUME RetryInv, NEW c \in Clients, Http!At(c, "lookup"),
           \A r \in cache : r.key # Http!Key(request[c]),
           Http!Then(c, "handle"),
           UNCHANGED <<cache, storing, handled, overlapped, failures>>
    PROVE  RetryInv'
<1>1. PICK r \in KeyedRequests : r = request[c]
    BY DEF RetryInv, RetryTypes, Http!Keyed
<1>2. PICK q \in KeyedRequests : q = [r EXCEPT !.step = "handle"] /\ Http!Key(q) = Http!Key(r)
    <2>1. [r EXCEPT !.step = "handle"] \in KeyedRequests
          /\ [r EXCEPT !.step = "handle"].caller = r.caller /\ [r EXCEPT !.step = "handle"].route = r.route
        BY <1>1 DEF KeyedRequests
    <2> QED
        BY <2>1 DEF Http!Key
<1>3. request' = [request EXCEPT ![c] = q]
    BY <1>1, <1>2 DEF Http!Then, Http!GoTo
<1>4. request'[c] = q /\ \A d \in Clients \ {c} : request'[d] = request[d]
    BY <1>3 DEF RetryInv, RetryTypes
<1>5. RetryTypes'
    BY <1>3, <1>4 DEF RetryInv, RetryTypes, Http!Keyed, Http!At
<1>6. ASSUME failures' = 0, NEW k \in Http!RedisKeys \ overlapped
      PROVE  Alone(k)'
    <2>1. Alone(k) /\ handled[k] \in Nat
        BY <1>6 DEF RetryInv, RetryTypes
    <2>2. \A d \in Clients : Carries(d, k)' => Carries(d, k)
        BY <1>1, <1>2, <1>4 DEF Carries, Http!Keyed, Http!At
    <2>3. Carries(c, k) => handled[k] = 0
        BY <1>1, <2>1 DEF Alone, Carries
    <2>4. \A d \in Clients \ {c} : Http!At(d, "handle")' <=> Http!At(d, "handle")
        BY <1>4 DEF Http!At
    <2> QED
        BY <2>1, <2>2, <2>3, <2>4 DEF Alone
<1> QED
    BY <1>5, <1>6 DEF RetryInv

(* The handler has run, and its response is on its way to Valkey.          *)
LEMMA RetryHandles ==
    ASSUME RetryInv, NEW c \in Clients, Http!Handle(c)
    PROVE  RetryInv'
<1>1. PICK r \in KeyedRequests : r = request[c] /\ Http!Keyed(c)
    BY DEF RetryInv, RetryTypes, Http!Keyed, Http!Handle
<1>2. PICK key \in Http!RedisKeys : key = Http!Key(r)
    BY KeysOfRequests
<1>3. PICK q : q = [step |-> "respond", caller |-> r.caller, route |-> r.route, for |-> r.caller]
    OBVIOUS
<1>4. /\ request' = [request EXCEPT ![c] = q]
      /\ handled' = [handled EXCEPT ![key] = IF @ < 2 THEN @ + 1 ELSE @]
      /\ storing' = storing \cup {[key |-> key, for |-> r.caller]}
      /\ UNCHANGED <<cache, overlapped, failures>>
    BY <1>1, <1>2, <1>3 DEF Http!Handle, Http!GoTo
<1>5. request'[c] = q /\ \A d \in Clients \ {c} : request'[d] = request[d]
    BY <1>4 DEF RetryInv, RetryTypes
<1>6. \A d \in Clients : Http!Keyed(d)' => d # c /\ Http!Keyed(d) /\ request'[d] = request[d]
    BY <1>3, <1>5 DEF Http!Keyed, Http!At
<1>7. RetryTypes'
    BY <1>4, <1>6 DEF RetryInv, RetryTypes
<1>8. ASSUME failures' = 0, NEW k \in Http!RedisKeys \ overlapped
      PROVE  Alone(k)'
    <2>1. Alone(k)
        BY <1>4, <1>8 DEF RetryInv, RetryTypes
    <2>2. \A d \in Clients : Carries(d, k)' => d # c /\ Carries(d, k) /\ request'[d] = request[d]
        BY <1>6 DEF Carries, Http!Key, Http!RedisKey
    <2>3. CASE k = key
        <3>1. Carries(c, k) /\ Http!At(c, "handle")
            BY <1>1, <1>2, <2>3 DEF Carries, Http!Handle
        <3>2. handled[k] = 0 /\ \A d \in Clients : ~Carries(d, k)'
            BY <2>1, <2>2, <3>1 DEF Alone
        <3>3. handled'[k] = 1
            BY <1>4, <2>3, <3>2 DEF RetryInv, RetryTypes
        <3>4. \E s \in storing' : s.key = k
            <4> DEFINE s == [key |-> key, for |-> r.caller]
            <4>1. s \in storing' /\ s.key = k
                BY <1>4, <2>3
            <4> QED
                BY <4>1
        <3> QED
            BY <3>2, <3>3, <3>4 DEF Alone
    <2>4. CASE k # key
        <3>1. handled'[k] = handled[k] /\ \A s \in storing' : s.key = k => s \in storing
            BY <1>4, <2>4 DEF RetryInv, RetryTypes
        <3> QED
            BY <1>4, <2>1, <2>2, <3>1 DEF Alone, Http!At
    <2> QED
        BY <2>3, <2>4
<1> QED
    BY <1>4, <1>7, <1>8 DEF RetryInv

(* Valkey has the response.                                                *)
LEMMA RetryStores ==
    ASSUME RetryInv, NEW r \in storing, Http!Store(r)
    PROVE  RetryInv'
<1>1. /\ cache' = {x \in cache : x.key # r.key} \cup {r} /\ storing' = storing \ {r}
      /\ UNCHANGED <<handled, overlapped, failures, request>>
    BY DEF Http!Store
<1>2. RetryTypes'
    BY <1>1 DEF RetryInv, RetryTypes, Http!Keyed, Http!At
<1>3. ASSUME failures' = 0, NEW k \in Http!RedisKeys \ overlapped
      PROVE  Alone(k)'
    <2>1. Alone(k)
        BY <1>1, <1>3 DEF RetryInv, RetryTypes
    <2>2. \A d \in Clients : Carries(d, k)' <=> Carries(d, k)
        BY <1>1 DEF Carries, Http!Key, Http!RedisKey, Http!Keyed, Http!At
    <2>3. (\E s \in storing \cup cache : s.key = k) => \E s \in storing' \cup cache' : s.key = k
        BY <1>1
    <2> QED
        BY <1>1, <2>1, <2>2, <2>3 DEF Alone, Http!At
<1> QED
    BY <1>1, <1>2, <1>3 DEF RetryInv

(* A day later nothing of the key is left, but requests to come.           *)
LEMMA RetryExpires ==
    ASSUME RetryInv, NEW r, Http!Expire(r)
    PROVE  RetryInv'
<1>1. /\ cache' = cache \ {r} /\ handled' = [handled EXCEPT ![r.key] = 0]
      /\ overlapped' = overlapped \ {r.key}
      /\ \A c \in Clients : Http!Keyed(c) => Http!Key(request[c]) # r.key
      /\ UNCHANGED <<storing, failures, request>>
    BY DEF Http!Expire
<1>2. RetryTypes'
    BY <1>1 DEF RetryInv, RetryTypes, Http!Keyed, Http!At
<1>3. ASSUME failures' = 0, NEW k \in Http!RedisKeys \ overlapped'
      PROVE  Alone(k)'
    <2>1. \A d \in Clients : Carries(d, k)' <=> Carries(d, k)
        BY <1>1 DEF Carries, Http!Key, Http!RedisKey, Http!Keyed, Http!At
    <2>2. CASE k = r.key
        <3>1. handled'[k] = 0 /\ \A d \in Clients : ~Carries(d, k)
            BY <1>1, <1>3, <2>2 DEF RetryInv, RetryTypes, Carries
        <3> QED
            BY <2>1, <3>1 DEF Alone
    <2>3. CASE k # r.key
        <3>1. Alone(k)
            BY <1>1, <1>3, <2>3 DEF RetryInv
        <3>2. handled'[k] = handled[k] /\ \A s \in cache : s.key = k => s \in cache'
            BY <1>1, <2>3 DEF RetryInv, RetryTypes
        <3> QED
            BY <1>1, <2>1, <3>1, <3>2 DEF Alone, Http!At
    <2> QED
        BY <2>2, <2>3
<1> QED
    BY <1>1, <1>2, <1>3 DEF RetryInv

(* Every step keeps the invariant of retried requests.                     *)
LEMMA RetryStep ==
    ASSUME RetryInv, Http!Next
    PROVE  RetryInv'
<1>1. ASSUME NEW c \in Clients, NEW u \in Callers, NEW route \in ServedRoutes, NEW keyed \in BOOLEAN,
             \/ Http!SkipRateLimit(c, u, route, keyed) \/ Http!ConsumeRateLimit(c, u, route, keyed)
             \/ Http!FailOpen(c, u, route, keyed)
      PROVE  RetryInv'
    <2>1. /\ UNCHANGED <<cache, storing, handled>>
          /\ failures' = failures \/ failures' = failures + 1
          /\ Http!Arrives(c, route, keyed)
          /\ Http!Pass(c, u, route, keyed) \/ UNCHANGED <<request, overlapped>>
        BY <1>1 DEF Http!SkipRateLimit, Http!ConsumeRateLimit, Http!FailOpen, Http!PassGuard, Http!ValkeyFails
    <2>2. CASE UNCHANGED <<request, overlapped>>
        BY <2>1, <2>2, RetryUnchanged
    <2>3. CASE Http!Pass(c, u, route, keyed) /\ keyed = TRUE
        BY <2>1, <2>3, RetryArrives
    <2>4. CASE Http!Pass(c, u, route, keyed) /\ keyed = FALSE
        BY <2>2, <2>4 DEF Http!Pass
    <2> QED
        BY <2>1, <2>2, <2>3, <2>4
<1>2. ASSUME NEW c \in Clients, Http!GetCached(c)
      PROVE  RetryInv'
    <2>1. CASE \A r \in cache : r.key # Http!Key(request[c])
        <3>1. {r \in cache : r.key = Http!Key(request[c])} = {}
            BY <2>1
        <3>2. Http!At(c, "lookup") /\ Http!Then(c, "handle")
              /\ UNCHANGED <<cache, storing, handled, overlapped, failures>>
            BY <1>2, <3>1 DEF Http!GetCached, Http!responses
        <3> QED
            BY <2>1, <3>2, RetryMisses
    <2>2. CASE \E r \in cache : r.key = Http!Key(request[c])
        <3>1. {r \in cache : r.key = Http!Key(request[c])} # {}
            BY <2>2
        <3>2. \E r \in {r \in cache : r.key = Http!Key(request[c])} :
                 Http!GoTo(c, [step |-> "respond", caller |-> request[c].caller,
                               route |-> request[c].route, for |-> r.for])
            BY <1>2, <3>1 DEF Http!GetCached
        <3>3. PICK q : q.step = "respond" /\ request' = [request EXCEPT ![c] = q]
            BY <3>2 DEF Http!GoTo
        <3> QED
            BY <1>2, <3>3, RetryLeaves DEF Http!GetCached, Http!responses
    <2> QED
        BY <2>1, <2>2
<1>3. ASSUME NEW c \in Clients, Http!GetFails(c) \/ Http!HandlerThrows(c) \/ Http!Respond(c)
      PROVE  RetryInv'
    <2>1. /\ request' = [request EXCEPT ![c] = Http!Idle] /\ Http!Idle.step \notin {"lookup", "handle"}
          /\ UNCHANGED <<cache, storing, handled, overlapped>>
          /\ failures' = failures \/ failures' = failures + 1
        BY <1>3 DEF Http!GetFails, Http!HandlerThrows, Http!Respond, Http!Return, Http!GoTo,
           Http!responses, Http!ValkeyFails, Http!Idle
    <2> QED
        BY <2>1, RetryLeaves
<1>4. ASSUME NEW r, Http!StoreFails(r)
      PROVE  RetryInv'
    BY <1>4 DEF Http!StoreFails, Http!ValkeyFails, RetryInv, RetryTypes, Http!Keyed, Http!At
<1>5. CASE Http!Tick
    BY <1>5, RetryUnchanged DEF Http!Tick, Http!responses
<1> QED
    BY <1>1, <1>2, <1>3, <1>4, <1>5, RetryHandles, RetryStores, RetryExpires DEF Http!Next, ServedRoutes

(* The invariant of retried requests holds in every state of the           *)
(* composition.                                                            *)
LEMMA RetryInvariant == Spec => [](on = "http" => RetryInv)
<1> DEFINE Inv == on = "http" => RetryInv
<1>1. Init => Inv
    BY DEF Init, Http!Init, RetryInv, RetryTypes, Alone, Carries, Http!Keyed, Http!At, Http!Idle
<1>2. Inv /\ [Next]_vars => Inv'
    <2> SUFFICES ASSUME Inv, [Next]_vars, on = "http" PROVE RetryInv'
        BY ServiceStays
    <2>1. CASE UNCHANGED vars
        BY <2>1, RetryUnchanged DEF vars
    <2>2. CASE Next
        BY <2>2, RetryStep DEF Next
    <2> QED
        BY <2>1, <2>2
<1> QED
    BY <1>1, <1>2, PTL DEF Spec

(* Requests with one key that come one after the other, the SET of the     *)
(* first included, run the handler successfully once while Valkey answers; *)
(* for any number of callers and of requests with other keys in between.   *)
THEOREM RetriesRunTheHandlerOnce == Spec => []RetriesAreSafe
<1>1. (on = "http" => RetryInv) => RetriesAreSafe
    BY DEF RetriesAreSafe, Http!RetriesAreSafe, RetryInv, Alone
<1> QED
    BY <1>1, RetryInvariant, PTL

(* A request with an idempotency key is for a route that has one, and no   *)
(* half window passes more than was counted and what Valkey let through    *)
(* by failing.                                                             *)
HttpTypes ==
    /\ Http!TypeOK
    /\ \A c \in Clients : Http!Keyed(c) => request[c].route.idempotent
    /\ \A b \in Http!Buckets : passed[b][2] <= bucket[b] + failures

(* Keys and responses, by the routes that are served.                      *)
LEMMA HttpSets ==
    /\ Http!RedisKeys = {Http!RedisKey(x, u) : x \in {x \in ServedRoutes : x.idempotent}, u \in Callers}
    /\ Http!Responses = {[key |-> k, for |-> u] : k \in Http!RedisKeys, u \in Callers}
    /\ Http!Requests = {Http!Idle} \cup [step : {"lookup", "handle"}, caller : Callers, route : ServedRoutes]
                       \cup [step : {"respond"}, caller : Callers, route : ServedRoutes, for : Callers]
    BY DEF Http!RedisKeys, Http!Responses, Http!Requests, ServedRoutes

(* The limit of a half window, of any number within it.                    *)
LEMMA HttpRange ==
    ASSUME NEW n \in 0..Limit + 1, NEW f \in 0..MaxFailures, NEW p \in Nat, p <= n + f
    PROVE  p \in 0..2 * Limit + MaxFailures
BY LimitConstants

(* What passes in a half window is within the limit, or was let through by *)
(* a failure.                                                              *)
LEMMA HttpPasses ==
    ASSUME HttpTypes, NEW c \in Clients, NEW u \in Callers, NEW route \in ServedRoutes, NEW keyed \in BOOLEAN,
           Http!Arrives(c, route, keyed), Http!Pass(c, u, route, keyed)
    PROVE  /\ request' \in [Clients -> Http!Requests]
           /\ \A d \in Clients : (Http!Keyed(d) => request[d].route.idempotent)'
           /\ overlapped' \subseteq Http!RedisKeys
<1> DEFINE q == [step |-> "lookup", caller |-> u, route |-> route]
<1>1. q \in Http!Requests
    BY DEF Http!Requests, ServedRoutes
<1>2. keyed => Http!RedisKey(route, u) \in Http!RedisKeys
    <2> SUFFICES ASSUME keyed PROVE Http!RedisKey(route, u) \in Http!RedisKeys
        OBVIOUS
    <2>1. route \in {r \in ServedRoutes : r.idempotent}
        BY DEF Http!Arrives
    <2> QED
        BY <2>1, HttpSets
<1>3. CASE keyed
    <2>1. request' = [request EXCEPT ![c] = q] /\ route.idempotent
        BY <1>3 DEF Http!Pass, Http!GoTo, Http!Arrives
    <2>2. overlapped' \subseteq Http!RedisKeys
        BY <1>2, <1>3 DEF Http!Pass, HttpTypes, Http!TypeOK
    <2>3. request' \in [Clients -> Http!Requests]
        BY <1>1, <2>1 DEF HttpTypes, Http!TypeOK
    <2>4. ASSUME NEW d \in Clients, Http!Keyed(d)'
          PROVE  request'[d].route.idempotent
        <3>1. CASE d = c
            BY <2>1, <3>1 DEF HttpTypes, Http!TypeOK
        <3>2. CASE d # c
            <4>1. request'[d] = request[d]
                BY <2>1, <3>2 DEF HttpTypes, Http!TypeOK
            <4> QED
                BY <2>4, <4>1 DEF HttpTypes, Http!Keyed, Http!At
        <3> QED
            BY <3>1, <3>2
    <2> QED
        BY <2>2, <2>3, <2>4
<1>4. CASE ~keyed
    <2>1. UNCHANGED <<request, overlapped>>
        BY <1>4 DEF Http!Pass
    <2> QED
        BY <2>1 DEF HttpTypes, Http!TypeOK, Http!Keyed, Http!At
<1> QED
    BY <1>3, <1>4

(* A request arrives: it is counted or Valkey fails, and may pass.         *)
LEMMA HttpArrives ==
    ASSUME HttpTypes, NEW c \in Clients, NEW u \in Callers, NEW route \in ServedRoutes, NEW keyed \in BOOLEAN,
           \/ Http!SkipRateLimit(c, u, route, keyed) \/ Http!ConsumeRateLimit(c, u, route, keyed)
           \/ Http!FailOpen(c, u, route, keyed)
    PROVE  HttpTypes'
<1> DEFINE b == Http!Bucket(route, u)
<1>1. Http!Arrives(c, route, keyed) /\ UNCHANGED <<half, cache, storing, handled>>
    BY DEF Http!SkipRateLimit, Http!ConsumeRateLimit, Http!FailOpen, Http!limits
<1>2. Http!Pass(c, u, route, keyed) \/ UNCHANGED <<request, overlapped>>
    BY DEF Http!SkipRateLimit, Http!ConsumeRateLimit, Http!FailOpen, Http!PassGuard
<1>3. /\ request' \in [Clients -> Http!Requests]
      /\ \A d \in Clients : (Http!Keyed(d) => request[d].route.idempotent)'
      /\ overlapped' \subseteq Http!RedisKeys
    <2>1. CASE Http!Pass(c, u, route, keyed)
        BY <1>1, <2>1, HttpPasses
    <2>2. CASE UNCHANGED <<request, overlapped>>
        BY <2>2 DEF HttpTypes, Http!TypeOK, Http!Keyed, Http!At
    <2> QED
        BY <1>2, <2>1, <2>2
<1>4. /\ failures' \in 0..MaxFailures
      /\ bucket' \in [Http!Buckets -> 0..Limit + 1]
      /\ passed' \in [Http!Buckets -> (0..2 * Limit + MaxFailures) \X (0..2 * Limit + MaxFailures)]
      /\ \A k \in Http!Buckets : passed'[k][2] <= bucket'[k] + failures'
    <2>0. /\ failures \in 0..MaxFailures /\ bucket \in [Http!Buckets -> 0..Limit + 1]
          /\ passed \in [Http!Buckets -> (0..2 * Limit + MaxFailures) \X (0..2 * Limit + MaxFailures)]
          /\ \A k \in Http!Buckets : passed[k][2] <= bucket[k] + failures
        BY DEF HttpTypes, Http!TypeOK
    <2>1. CASE Http!SkipRateLimit(c, u, route, keyed)
        <3>1. UNCHANGED <<bucket, passed, failures>>
            BY <2>1 DEF Http!SkipRateLimit, Http!limits
        <3> QED
            BY <2>0, <3>1
    <2>2. CASE route.tier # "skip" /\ ~Http!SkipRateLimit(c, u, route, keyed)
        <3>1. b \in Http!Buckets
            BY <2>2 DEF Http!Bucket, Http!Buckets, Http!Tiers, ServedRoutes
        <3>2. PICK n, m, f, g, p, q :
                 /\ n = bucket[b] /\ m = bucket'[b] /\ f = failures /\ g = failures'
                 /\ p = passed[b] /\ q = passed'[b]
            OBVIOUS
        <3>3. /\ bucket' = [bucket EXCEPT ![b] = m] /\ passed' = [passed EXCEPT ![b] = q]
              /\ m \in 0..Limit + 1 /\ m >= n /\ g >= f /\ g \in 0..MaxFailures
              /\ \/ q = p
                 \/ q = [p EXCEPT ![2] = @ + 1] /\ m + g >= n + f + 1
            <4>1. CASE Http!ConsumeRateLimit(c, u, route, keyed)
                <5>1. /\ bucket' = [bucket EXCEPT ![b] = Http!Counted(b)] /\ failures' = failures
                      /\ \/ UNCHANGED passed
                         \/ /\ Http!Counted(b) <= Limit
                            /\ passed' = [passed EXCEPT ![b][2] = @ + 1]
                    BY <4>1 DEF Http!ConsumeRateLimit, Http!PassGuard
                <5>2. n \in 0..Limit + 1 /\ f \in 0..MaxFailures
                    BY <2>0, <3>1, <3>2
                <5>3. m = IF n <= Limit THEN n + 1 ELSE n
                    BY <2>0, <3>1, <3>2, <5>1 DEF Http!Counted
                <5>4. \/ passed' = passed /\ q = p
                      \/ /\ m <= Limit
                         /\ passed' = [passed EXCEPT ![b][2] = @ + 1]
                         /\ q = [p EXCEPT ![2] = @ + 1]
                    BY <2>0, <3>1, <3>2, <5>1
                <5>5. /\ m \in 0..Limit + 1 /\ m >= n /\ g >= f /\ g \in 0..MaxFailures
                      /\ m <= Limit => m + g >= n + f + 1
                    BY <3>2, <5>1, <5>2, <5>3, LimitConstants
                <5>6. bucket' = [bucket EXCEPT ![b] = m] /\ passed' = [passed EXCEPT ![b] = q]
                    BY <2>0, <3>1, <3>2, <5>1, <5>4
                <5> QED
                    BY <5>4, <5>5, <5>6
            <4>2. CASE Http!FailOpen(c, u, route, keyed)
                <5>1. /\ bucket' = bucket /\ failures' = failures + 1 /\ failures < MaxFailures
                      /\ passed' = [passed EXCEPT ![b][2] = @ + 1]
                    BY <4>2 DEF Http!FailOpen, Http!ValkeyFails, Http!PassGuard
                <5>2. n \in 0..Limit + 1 /\ f \in 0..MaxFailures /\ m = n /\ g = f + 1 /\ f < MaxFailures
                    BY <2>0, <3>1, <3>2, <5>1
                <5>3. q = [p EXCEPT ![2] = @ + 1]
                    BY <2>0, <3>1, <3>2, <5>1
                <5>4. m >= n /\ g >= f /\ g \in 0..MaxFailures /\ m + g >= n + f + 1
                    BY <5>2, LimitConstants
                <5>5. bucket' = [bucket EXCEPT ![b] = m] /\ passed' = [passed EXCEPT ![b] = q]
                    BY <2>0, <3>1, <3>2, <5>1, <5>2, <5>3
                <5> QED
                    BY <5>2, <5>3, <5>4, <5>5
            <4> QED
                BY <2>2, <4>1, <4>2
        <3>4. /\ n \in 0..Limit + 1 /\ f \in 0..MaxFailures /\ p[2] <= n + f
              /\ p \in (0..2 * Limit + MaxFailures) \X (0..2 * Limit + MaxFailures)
            BY <2>0, <3>1, <3>2
        <3>5. q[2] <= m + g /\ q[2] \in Nat /\ q[1] = p[1] /\ q = <<q[1], q[2]>>
            BY <3>3, <3>4, LimitConstants
        <3>6. q[2] \in 0..2 * Limit + MaxFailures
            BY <3>3, <3>5, HttpRange
        <3>7. q \in (0..2 * Limit + MaxFailures) \X (0..2 * Limit + MaxFailures)
            BY <3>4, <3>5, <3>6
        <3>8. ASSUME NEW k \in Http!Buckets PROVE passed'[k][2] <= bucket'[k] + failures'
            <4>1. CASE k = b
                BY <2>0, <3>1, <3>2, <3>3, <3>5, <4>1
            <4>2. CASE k # b
                <5>1. passed'[k] = passed[k] /\ bucket'[k] = bucket[k]
                    BY <2>0, <3>3, <4>2
                <5>2. PICK x, y : x = passed[k][2] /\ y = bucket[k]
                    OBVIOUS
                <5>3. x \in Nat /\ y \in Nat /\ x <= y + f
                    BY <2>0, <3>2, <5>2, LimitConstants
                <5>4. x <= y + g
                    BY <3>3, <3>4, <5>3, LimitConstants
                <5> QED
                    BY <3>2, <5>1, <5>2, <5>4
            <4> QED
                BY <4>1, <4>2
        <3> QED
            BY <2>0, <3>1, <3>2, <3>3, <3>7, <3>8
    <2> QED
        BY <2>1, <2>2 DEF Http!ConsumeRateLimit, Http!FailOpen
<1> QED
    BY <1>1, <1>3, <1>4 DEF HttpTypes, Http!TypeOK

(* The key of a request, and what a response kept under it looks like.     *)
LEMMA HttpKeys ==
    ASSUME HttpTypes, NEW c \in Clients, Http!Keyed(c)
    PROVE  /\ request[c] \in KeyedRequests
           /\ request[c].caller \in Callers /\ request[c].route \in ServedRoutes
           /\ Http!Key(request[c]) \in Http!RedisKeys
           /\ [key |-> Http!Key(request[c]), for |-> request[c].caller] \in Http!Responses
<1>1. PICK q : q = request[c]
    OBVIOUS
<1>2. q \in Http!Requests /\ q.step \in {"lookup", "handle"} /\ q.route.idempotent
    BY <1>1 DEF HttpTypes, Http!TypeOK, Http!Keyed, Http!At
<1>3. q \in [step : {"lookup", "handle"}, caller : Callers, route : ServedRoutes]
    BY <1>2, HttpSets DEF Http!Idle
<1>4. q \in KeyedRequests /\ q.caller \in Callers /\ q.route \in ServedRoutes
    BY <1>2, <1>3 DEF KeyedRequests
<1>5. PICK k : k = Http!Key(q)
    OBVIOUS
<1>6. k \in Http!RedisKeys
    BY <1>4, <1>5, KeysOfRequests
<1>7. [key |-> k, for |-> q.caller] \in Http!Responses
    BY <1>4, <1>6, HttpSets
<1> QED
    BY <1>1, <1>4, <1>5, <1>6, <1>7

(* What a response that is kept is made of.                                *)
LEMMA HttpResponses ==
    ASSUME NEW r \in Http!Responses
    PROVE  r.key \in Http!RedisKeys /\ r.for \in Callers
<1>1. PICK k \in Http!RedisKeys, u \in Callers : r = [key |-> k, for |-> u]
    BY HttpSets
<1> QED
    BY <1>1

(* A request goes on after the guard.                                      *)
LEMMA HttpGoesOn ==
    ASSUME HttpTypes, NEW c \in Clients, NEW q \in Http!Requests,
           q.step \in {"lookup", "handle"} => q.route.idempotent,
           request' = [request EXCEPT ![c] = q],
           UNCHANGED Http!limits, failures' \in 0..MaxFailures, failures' >= failures,
           cache' \subseteq Http!Responses, storing' \subseteq Http!Responses,
           handled' \in [Http!RedisKeys -> 0..2], overlapped' \subseteq Http!RedisKeys
    PROVE  HttpTypes'
<1>1. request' \in [Clients -> Http!Requests]
    BY DEF HttpTypes, Http!TypeOK
<1>2. ASSUME NEW d \in Clients, Http!Keyed(d)'
      PROVE  request'[d].route.idempotent
    <2>1. CASE d = c
        BY <1>2, <2>1 DEF HttpTypes, Http!TypeOK, Http!Keyed, Http!At
    <2>2. CASE d # c
        <3>1. request'[d] = request[d]
            BY <2>2 DEF HttpTypes, Http!TypeOK
        <3> QED
            BY <1>2, <3>1 DEF HttpTypes, Http!Keyed, Http!At
    <2> QED
        BY <2>1, <2>2
<1>3. UNCHANGED <<half, bucket, passed>>
    BY DEF Http!limits
<1>4. ASSUME NEW b \in Http!Buckets PROVE passed'[b][2] <= bucket'[b] + failures'
    <2>1. PICK x, y : x = passed[b][2] /\ y = bucket[b]
        OBVIOUS
    <2>2. x \in Nat /\ y \in Nat /\ x <= y + failures /\ failures \in Nat
        BY <2>1, LimitConstants DEF HttpTypes, Http!TypeOK
    <2>3. x <= y + failures'
        <3>1. PICK f, g : f = failures /\ g = failures'
            OBVIOUS
        <3>2. f \in Nat /\ g \in 0..MaxFailures /\ g >= f /\ x <= y + f
            BY <2>2, <3>1
        <3>3. x <= y + g
            BY <2>2, <3>2, LimitConstants
        <3> QED
            BY <3>1, <3>3
    <2> QED
        BY <1>3, <2>1, <2>3
<1> QED
    BY <1>1, <1>2, <1>3, <1>4 DEF HttpTypes, Http!TypeOK

(* The same for steps that leave the requests alone.                       *)
LEMMA HttpRests ==
    ASSUME HttpTypes, UNCHANGED <<Http!limits, request>>,
           failures' \in 0..MaxFailures, failures' >= failures,
           cache' \subseteq Http!Responses, storing' \subseteq Http!Responses,
           handled' \in [Http!RedisKeys -> 0..2], overlapped' \subseteq Http!RedisKeys
    PROVE  HttpTypes'
<1>1. UNCHANGED <<half, bucket, passed, request>>
    BY DEF Http!limits
<1>2. ASSUME NEW b \in Http!Buckets PROVE passed'[b][2] <= bucket'[b] + failures'
    <2>1. PICK x, y : x = passed[b][2] /\ y = bucket[b]
        OBVIOUS
    <2>2. x \in Nat /\ y \in Nat /\ x <= y + failures /\ failures \in Nat
        BY <2>1, LimitConstants DEF HttpTypes, Http!TypeOK
    <2>3. x <= y + failures'
        <3>1. PICK f, g : f = failures /\ g = failures'
            OBVIOUS
        <3>2. f \in Nat /\ g \in 0..MaxFailures /\ g >= f /\ x <= y + f
            BY <2>2, <3>1
        <3>3. x <= y + g
            BY <2>2, <3>2, LimitConstants
        <3> QED
            BY <3>1, <3>3
    <2> QED
        BY <1>1, <2>1, <2>3
<1> QED
    BY <1>1, <1>2 DEF HttpTypes, Http!TypeOK, Http!Keyed, Http!At

(* A failure is counted within its bound.                                  *)
LEMMA HttpFailing ==
    ASSUME HttpTypes
    PROVE  /\ failures \in 0..MaxFailures
           /\ Http!ValkeyFails => failures' \in 0..MaxFailures /\ failures' >= failures
BY LimitConstants DEF HttpTypes, Http!TypeOK, Http!ValkeyFails

(* A client without a request has none with a key.                         *)
LEMMA HttpIdle ==
    Http!Idle \in Http!Requests /\ Http!Idle.step = "idle"
BY DEF Http!Idle, Http!Requests

(* The look at the cache keeps the types.                                  *)
LEMMA HttpLooksUp ==
    ASSUME HttpTypes, NEW c \in Clients, Http!GetCached(c)
    PROVE  HttpTypes'
<1>1. /\ Http!Keyed(c) /\ request[c] \in Http!Requests /\ request[c].step = "lookup"
      /\ request[c].route.idempotent
    BY DEF Http!GetCached, Http!Keyed, Http!At, HttpTypes, Http!TypeOK
<1>2. /\ cache \subseteq Http!Responses /\ storing \subseteq Http!Responses
      /\ handled \in [Http!RedisKeys -> 0..2] /\ overlapped \subseteq Http!RedisKeys
      /\ failures \in 0..MaxFailures
    BY DEF HttpTypes, Http!TypeOK
<1>3. UNCHANGED <<Http!limits, cache, storing, handled, overlapped, failures>>
    BY DEF Http!GetCached, Http!responses
<1>4. failures' \in 0..MaxFailures /\ failures' >= failures
    BY <1>2, <1>3, LimitConstants
<1>5. CASE Http!Then(c, "handle")
    <2> DEFINE q == [request[c] EXCEPT !.step = "handle"]
    <2>1. q \in Http!Requests /\ q.route = request[c].route
        BY <1>1, HttpKeys, HttpSets DEF KeyedRequests
    <2>2. request' = [request EXCEPT ![c] = q]
        BY <1>5 DEF Http!Then, Http!GoTo
    <2> HIDE DEF q
    <2> QED
        BY <1>1, <1>2, <1>3, <1>4, <2>1, <2>2, HttpGoesOn
<1>6. ASSUME NEW r \in cache,
             Http!GoTo(c, [step |-> "respond", caller |-> request[c].caller,
                           route |-> request[c].route, for |-> r.for])
      PROVE  HttpTypes'
    <2> DEFINE q == [step |-> "respond", caller |-> request[c].caller,
                     route |-> request[c].route, for |-> r.for]
    <2>1. q \in Http!Requests /\ q.step = "respond"
        BY <1>1, <1>2, HttpKeys, HttpResponses DEF Http!Requests, ServedRoutes
    <2>2. request' = [request EXCEPT ![c] = q]
        BY <1>6 DEF Http!GoTo
    <2> HIDE DEF q
    <2> QED
        BY <1>2, <1>3, <1>4, <2>1, <2>2, HttpGoesOn
<1> QED
    BY <1>5, <1>6 DEF Http!GetCached

(* Running the handler keeps the types.                                    *)
LEMMA HttpHandles ==
    ASSUME HttpTypes, NEW c \in Clients, Http!Handle(c)
    PROVE  HttpTypes'
<1>1. Http!Keyed(c)
    BY DEF Http!Handle, Http!Keyed
<1> DEFINE k == Http!Key(request[c])
           q == [step |-> "respond", caller |-> request[c].caller,
                 route |-> request[c].route, for |-> request[c].caller]
<1>2. q \in Http!Requests /\ q.step = "respond"
    BY <1>1, HttpKeys DEF Http!Requests, ServedRoutes
<1>3. request' = [request EXCEPT ![c] = q]
    BY DEF Http!Handle, Http!GoTo
<1>4. /\ cache' \subseteq Http!Responses /\ overlapped' \subseteq Http!RedisKeys
      /\ UNCHANGED Http!limits /\ failures' = failures
    BY DEF Http!Handle, HttpTypes, Http!TypeOK
<1>5. storing' \subseteq Http!Responses
    BY <1>1, HttpKeys DEF Http!Handle, HttpTypes, Http!TypeOK
<1>6. handled' \in [Http!RedisKeys -> 0..2]
    <2>1. handled' = [handled EXCEPT ![k] = IF @ < 2 THEN @ + 1 ELSE @]
        BY DEF Http!Handle
    <2>2. k \in Http!RedisKeys /\ handled \in [Http!RedisKeys -> 0..2]
        BY <1>1, HttpKeys DEF HttpTypes, Http!TypeOK
    <2> HIDE DEF k
    <2>3. handled[k] \in 0..2
        BY <2>2
    <2> QED
        BY <2>1, <2>2, <2>3
<1>7. failures' \in 0..MaxFailures /\ failures' >= failures
    BY <1>4, HttpFailing, LimitConstants
<1> HIDE DEF q, k
<1> QED
    BY <1>2, <1>3, <1>4, <1>5, <1>6, <1>7, HttpGoesOn

(* The request ends.                                                       *)
LEMMA HttpReturns ==
    ASSUME HttpTypes, NEW c \in Clients,
           Http!GetFails(c) \/ Http!HandlerThrows(c) \/ Http!Respond(c)
    PROVE  HttpTypes'
<1>1. request' = [request EXCEPT ![c] = Http!Idle]
    BY DEF Http!GetFails, Http!HandlerThrows, Http!Respond, Http!Return, Http!GoTo
<1>2. UNCHANGED Http!limits /\ UNCHANGED <<cache, storing, handled, overlapped>>
    BY DEF Http!GetFails, Http!HandlerThrows, Http!Respond, Http!responses
<1>3. failures' \in 0..MaxFailures /\ failures' >= failures
    <2>1. Http!ValkeyFails \/ failures' = failures
        BY DEF Http!GetFails, Http!HandlerThrows, Http!Respond
    <2> QED
        BY <2>1, HttpFailing, LimitConstants
<1>4. /\ cache' \subseteq Http!Responses /\ storing' \subseteq Http!Responses
      /\ handled' \in [Http!RedisKeys -> 0..2] /\ overlapped' \subseteq Http!RedisKeys
    BY <1>2 DEF HttpTypes, Http!TypeOK
<1> QED
    BY <1>1, <1>2, <1>3, <1>4, HttpIdle, HttpGoesOn

(* The SET arrives or is lost, or a response expires.                      *)
LEMMA HttpKeeps ==
    ASSUME HttpTypes,
           \/ \E r \in storing : Http!Store(r) \/ Http!StoreFails(r)
           \/ \E r \in cache : Http!Expire(r)
    PROVE  HttpTypes'
<1>1. UNCHANGED <<Http!limits, request>>
    BY DEF Http!Store, Http!StoreFails, Http!Expire
<1>2. /\ cache' \subseteq Http!Responses /\ storing' \subseteq Http!Responses
      /\ overlapped' \subseteq Http!RedisKeys
    BY DEF Http!Store, Http!StoreFails, Http!Expire, HttpTypes, Http!TypeOK
<1>3. handled' \in [Http!RedisKeys -> 0..2]
    BY DEF Http!Store, Http!StoreFails, Http!Expire, HttpTypes, Http!TypeOK
<1>4. failures' \in 0..MaxFailures /\ failures' >= failures
    <2>1. Http!ValkeyFails \/ failures' = failures
        BY DEF Http!Store, Http!StoreFails, Http!Expire
    <2> QED
        BY <2>1, HttpFailing, LimitConstants
<1> QED
    BY <1>1, <1>2, <1>3, <1>4, HttpRests

(* Half a window passes: the types stay.                                   *)
LEMMA HttpTick ==
    ASSUME HttpTypes, Http!Tick
    PROVE  HttpTypes'
<1>1. /\ half' = 3 - half /\ bucket' = IF half = 2 THEN [b \in Http!Buckets |-> 0] ELSE bucket
      /\ passed' = [b \in Http!Buckets |-> <<passed[b][2], 0>>]
      /\ UNCHANGED <<cache, storing, handled, overlapped, failures, request>>
    BY DEF Http!Tick, Http!responses
<1>2. /\ half \in {1, 2} /\ failures \in 0..MaxFailures /\ bucket \in [Http!Buckets -> 0..Limit + 1]
      /\ passed \in [Http!Buckets -> (0..2 * Limit + MaxFailures) \X (0..2 * Limit + MaxFailures)]
    BY DEF HttpTypes, Http!TypeOK
<1>3. half' \in {1, 2} /\ bucket' \in [Http!Buckets -> 0..Limit + 1]
    BY <1>1, <1>2, LimitConstants
<1>4. 0 \in 0..2 * Limit + MaxFailures
    BY LimitConstants
<1>5. passed' \in [Http!Buckets -> (0..2 * Limit + MaxFailures) \X (0..2 * Limit + MaxFailures)]
    BY <1>1, <1>2, <1>4
<1>6. ASSUME NEW b \in Http!Buckets PROVE passed'[b][2] <= bucket'[b] + failures'
    <2>1. passed'[b][2] = 0 /\ failures' = failures
        BY <1>1
    <2>2. bucket'[b] \in 0..Limit + 1 /\ failures \in 0..MaxFailures
        BY <1>2, <1>3
    <2> QED
        BY <2>1, <2>2, LimitConstants
<1> QED
    BY <1>1, <1>2, <1>3, <1>5, <1>6 DEF HttpTypes, Http!TypeOK, Http!Keyed, Http!At

(* Buckets, windows, the cache and the requests are what they are declared *)
(* to be.                                                                  *)
LEMMA HttpTyped == Spec => [](on = "http" => HttpTypes)
<1> DEFINE Inv == on = "http" => HttpTypes
<1>1. Init => Inv
    <2> SUFFICES ASSUME Http!Init PROVE HttpTypes
        BY DEF Init
    <2>1. /\ half = 1 /\ failures = 0
          /\ bucket = [b \in Http!Buckets |-> 0] /\ passed = [b \in Http!Buckets |-> <<0, 0>>]
          /\ cache = {} /\ storing = {} /\ overlapped = {}
          /\ handled = [k \in Http!RedisKeys |-> 0]
          /\ request = [c \in Clients |-> Http!Idle]
        BY Zenon DEF Http!Init
    <2>2. /\ 0 \in 0..MaxFailures /\ 0 \in 0..Limit + 1 /\ 0 \in 0..2 * Limit + MaxFailures
        BY LimitConstants
    <2>3. /\ half \in {1, 2} /\ failures \in 0..MaxFailures
          /\ bucket \in [Http!Buckets -> 0..Limit + 1]
          /\ passed \in [Http!Buckets -> (0..2 * Limit + MaxFailures) \X (0..2 * Limit + MaxFailures)]
          /\ handled \in [Http!RedisKeys -> 0..2]
        BY <2>1, <2>2
    <2>4. \A b \in Http!Buckets : passed[b][2] <= bucket[b] + failures
        BY <2>1
    <2>5. /\ request \in [Clients -> Http!Requests]
          /\ \A c \in Clients : ~Http!Keyed(c)
        BY <2>1, HttpIdle DEF Http!Keyed, Http!At
    <2> QED
        BY <2>1, <2>3, <2>4, <2>5 DEF HttpTypes, Http!TypeOK
<1>2. Inv /\ [Next]_vars => Inv'
    <2> SUFFICES ASSUME Inv, [Next]_vars, on = "http" PROVE HttpTypes'
        BY ServiceStays
    <2>1. CASE UNCHANGED vars
        <3>1. UNCHANGED <<Http!limits, cache, storing, handled, overlapped, failures, request>>
            BY <2>1 DEF vars, Http!limits
        <3>2. /\ cache' \subseteq Http!Responses /\ storing' \subseteq Http!Responses
              /\ handled' \in [Http!RedisKeys -> 0..2] /\ overlapped' \subseteq Http!RedisKeys
              /\ failures' \in 0..MaxFailures /\ failures' >= failures
            BY <3>1, LimitConstants DEF HttpTypes, Http!TypeOK
        <3> QED
            BY <3>1, <3>2, HttpRests
    <2>2. CASE Http!Next
        <3>1. ASSUME NEW c \in Clients, NEW u \in Callers, NEW route \in ServedRoutes, NEW keyed \in BOOLEAN,
                     \/ Http!SkipRateLimit(c, u, route, keyed) \/ Http!ConsumeRateLimit(c, u, route, keyed)
                     \/ Http!FailOpen(c, u, route, keyed)
              PROVE  HttpTypes'
            BY <3>1, HttpArrives
        <3> QED
            BY <2>2, <3>1, HttpTick, HttpLooksUp, HttpHandles, HttpReturns, HttpKeeps, Zenon
            DEF Http!Next, ServedRoutes
    <2> QED
        BY <2>1, <2>2 DEF Next
<1> QED
    BY <1>1, <1>2, PTL DEF Spec

-----------------------------------------------------------------------------
(* Seeding: a second run finds everything in place                         *)

Seeders ==
    {Seed!Idle}
    \cup [step : {"fixture"}, id : {SeedId}, next : 1..2]
    \cup [step : {"status"}, id : Ids, next : 1..4]
    \cup [step : {"item"}, id : {SeedId}, next : 1..SeedItems]
    \cup [step : {"project", "items", "setCounter"}, id : {SeedId}]
    \cup [step : {"counter", "lead", "workflow"}, id : Ids]

SeedTypes ==
    /\ fixture = [f \in {"rows", "roles"} |-> fixture[f]]
    /\ project = [i \in Ids |-> project[i]]
    /\ counter = [i \in Ids |-> counter[i]]
    /\ statuses \in [Ids -> [Seed!Positions -> Nat]]
    /\ items = [i \in Ids |-> items[i]]
    /\ seeder \in Seeders
    /\ seeder.step \in {"counter", "lead", "workflow", "status"} => seeder.id \in Seed!Taken

FixturesIn == fixture["rows"] # "absent" /\ fixture["roles"] = "seeded"
KeyTaken == project[SeedId] # "absent" \/ Seed!Live # {}
Full == Seed!Categories(SeedId) = {"to_do", "in_progress", "done"}
ItemsIn(n) == \A k \in 1..n : k \in items[SeedId]

(* What the only writer has done so far. Whose rows it writes after the    *)
(* project is only certain when the key is of one project.                 *)
Begun ==
    /\ seeder.step = "fixture" /\ seeder.next = 2 => fixture["rows"] # "absent"
    /\ seeder.step \notin {"idle", "fixture"} => FixturesIn
    /\ seeder.step \notin {"idle", "fixture", "project"} => KeyTaken

Underway(j) ==
    /\ seeder.step \in {"lead", "workflow", "status", "items", "item", "setCounter"} =>
          counter[j] # Seed!NoCounter
    /\ seeder.step \in {"workflow", "status", "items", "item", "setCounter"} => j \in lead
    /\ \/ seeder.step = "status" /\ seeder.next > 1
       \/ seeder.step \in {"items", "item", "setCounter"}
       => statuses[j] # Seed!None
    /\ seeder.step \in {"item", "setCounter"} => Full
    /\ seeder.step = "item" => ItemsIn(seeder.next - 1)
    /\ seeder.step = "setCounter" => ItemsIn(SeedItems)

(* What it has left behind when it has ended, and what a further run, which*)
(* is anywhere, may be about to do.                                        *)
Seeded(j) ==
    /\ counter[j] # Seed!NoCounter /\ j \in lead /\ statuses[j] # Seed!None
    /\ Full => ItemsIn(SeedItems) /\ counter[SeedId] \in {Seed!NoCounter, SeedItems}
    /\ seeder.step # "status"
    /\ seeder.step \in {"item", "setCounter"} => Full

SeedInv ==
    /\ SeedTypes
    /\ quiet \in {"no", "run", "since"}
    /\ quiet = "run" => Begun
    /\ quiet = "since" => FixturesIn /\ KeyTaken
    /\ \A j \in Ids : Seed!Taken = {j} =>
          /\ quiet = "run" => Underway(j)
          /\ quiet = "since" => Seeded(j)

(* What the assumption on the constants says of the seed script.           *)
LEMMA SeedConstants ==
    /\ SeedId \in Ids /\ SeedItems \in Nat \ {0} /\ IsFiniteSet(Ids)
    /\ Len(Seed!Fixtures) = 2 /\ Seed!Fixtures[1] = "rows" /\ Seed!Fixtures[2] = "roles"
    /\ Seed!ToSet(Seed!Fixtures) = {"rows", "roles"}
    /\ Len(Seed!Workflow) = 4 /\ Seed!Positions = 1..4
<1>1. SeedId \in Ids /\ SeedItems \in Nat \ {0} /\ IsFiniteSet(Ids)
    <2>1. Seed!IsFiniteSet(Ids) <=> IsFiniteSet(Ids)
        BY DEF Seed!IsFiniteSet, IsFiniteSet
    <2> QED
        BY <2>1, ServicesAssumption DEF ServicesAssumption, Seed!SeedAssumption
<1> QED
    BY <1>1 DEF Seed!Fixtures, Seed!ToSet, Seed!Workflow, Seed!Positions

(* The key is of one project: it is that one the seed is about.            *)
LEMMA OneProject ==
    ASSUME Seed!Cardinality(Seed!Taken) = 1
    PROVE  \E j \in Ids : Seed!Taken = {j}
<1>1. Seed!Taken \subseteq Ids /\ IsFiniteSet(Seed!Taken)
    BY SeedConstants, FS_Subset DEF Seed!Taken
<1>2. Cardinality(Seed!Taken) = 1
    BY DEF Seed!Cardinality, Cardinality
<1>3. \E x : Seed!Taken = {x}
    BY <1>1, <1>2, FS_Singleton
<1> QED
    BY <1>1, <1>3

(* A step of a run after another one, with nobody else.                    *)
LEMMA SeedAgain ==
    ASSUME SeedInv, quiet = "since", NEW j \in Ids, Seed!Taken = {j}, Seed!SeedStep
    PROVE  UNCHANGED Seed!database
<1>1. /\ SeedTypes /\ FixturesIn /\ KeyTaken /\ Seeded(j)
      /\ seeder.step \in {"counter", "lead", "workflow", "status"} => seeder.id = j
    BY DEF SeedInv, SeedTypes
<1>2. CASE Seed!SeedFixture
    <2>1. seeder.next \in 1..2
        BY <1>1, <1>2 DEF SeedTypes, Seeders, Seed!Idle, Seed!SeedFixture, Seed!SeedAt
    <2>2. fixture' = fixture
        BY <1>1, <1>2, <2>1, SeedConstants DEF SeedTypes, FixturesIn, Seed!SeedFixture
    <2> QED
        BY <1>2, <2>2 DEF Seed!SeedFixture, Seed!database, Seed!rows
<1>3. CASE Seed!SeedProject
    BY <1>1, <1>3 DEF KeyTaken, Seed!KeyIsFree, Seed!SeedProject, Seed!database, Seed!rows
<1>4. CASE Seed!SeedCounter
    BY <1>1, <1>4 DEF SeedTypes, Seeded, Seed!SeedCounter, Seed!SeedAt, Seed!database, Seed!rows
<1>5. CASE Seed!SeedLead
    <2>1. lead' = lead
        BY <1>1, <1>5 DEF Seeded, Seed!SeedLead, Seed!SeedAt
    <2> QED
        BY <1>5, <2>1 DEF Seed!SeedLead, Seed!database, Seed!rows
<1>6. CASE Seed!SeedWorkflow \/ Seed!SeedItemsOf
    BY <1>6 DEF Seed!SeedWorkflow, Seed!SeedItemsOf, Seed!database
<1>7. CASE Seed!SeedStatus
    BY <1>1, <1>7 DEF Seeded, Seed!SeedStatus, Seed!SeedAt
<1>8. CASE Seed!SeedItem
    <2>1. seeder.next \in 1..SeedItems
        BY <1>1, <1>8 DEF SeedTypes, Seeders, Seed!Idle, Seed!SeedItem, Seed!SeedAt
    <2>2. seeder.next \in items[SeedId]
        BY <1>1, <1>8, <2>1 DEF Seeded, ItemsIn, Seed!SeedItem, Seed!SeedAt
    <2>3. items' = items
        BY <1>1, <1>8, <2>2 DEF SeedTypes, Seed!SeedItem
    <2> QED
        BY <1>8, <2>3 DEF Seed!SeedItem, Seed!database, Seed!rows
<1>9. CASE Seed!SeedSetCounter
    BY <1>1, <1>9 DEF SeedTypes, Seeded, Seed!SeedSetCounter, Seed!SeedAt, Seed!database, Seed!rows
<1> QED
    BY <1>2, <1>3, <1>4, <1>5, <1>6, <1>7, <1>8, <1>9 DEF Seed!SeedStep

(* Writes of anybody else end what is said of a run.                       *)
LEMMA SeedOthers ==
    ASSUME SeedInv,
           \/ \E f \in Seed!ToSet(Seed!Fixtures) : Seed!Change(f)
           \/ \E i \in Ids : Seed!DeleteProject(i)
           \/ \E c \in Writers : \/ Seed!CommitProject(c) \/ Seed!InsertItem(c)
                                \/ \E i \in Ids : Seed!TakeNumber(c, i)
    PROVE  SeedInv'
<1>1. quiet' = "no" /\ seeder' = seeder
    BY DEF Seed!Change, Seed!DeleteProject, Seed!CommitProject, Seed!InsertItem, Seed!TakeNumber, Seed!Touch, Seed!seed
<1>2. SeedTypes'
    <2>1. /\ fixture' = [f \in {"rows", "roles"} |-> fixture'[f]]
          /\ project' = [i \in Ids |-> project'[i]]
          /\ counter' = [i \in Ids |-> counter'[i]]
          /\ items' = [i \in Ids |-> items'[i]]
        BY DEF SeedInv, SeedTypes, Seed!Change, Seed!DeleteProject, Seed!CommitProject, Seed!InsertItem,
           Seed!TakeNumber, Seed!database, Seed!rows
    <2>2. statuses' \in [Ids -> [Seed!Positions -> Nat]]
        <3>1. \/ statuses' = statuses
              \/ \E i : statuses' = [statuses EXCEPT ![i] = [p \in Seed!Positions |-> 1]]
            BY DEF Seed!Change, Seed!DeleteProject, Seed!CommitProject, Seed!InsertItem,
               Seed!TakeNumber, Seed!database, Seed!rows
        <3>2. [p \in Seed!Positions |-> 1] \in [Seed!Positions -> Nat]
            OBVIOUS
        <3> QED
            BY <3>1, <3>2 DEF SeedInv, SeedTypes
    <2>3. Seed!Taken \subseteq Seed!Taken'
        BY DEF SeedInv, SeedTypes, Seed!Change, Seed!DeleteProject, Seed!CommitProject, Seed!InsertItem,
           Seed!TakeNumber, Seed!database, Seed!rows, Seed!Taken, Seed!Live
    <2> QED
        BY <1>1, <2>1, <2>2, <2>3 DEF SeedInv, SeedTypes
<1> QED
    BY <1>1, <1>2 DEF SeedInv

(* A step that writes nothing, to wherever what is left behind allows.     *)
LEMMA SeedMoves ==
    ASSUME SeedInv, UNCHANGED Seed!database, quiet' = quiet,
           seeder' \in Seeders,
           seeder'.step \in {"counter", "lead", "workflow", "status"} => seeder'.id \in Seed!Taken,
           quiet = "run" => Begun' /\ \A j \in Ids : Seed!Taken = {j} => Underway(j)',
           quiet = "since" => \A j \in Ids : Seed!Taken = {j} =>
               /\ seeder'.step # "status"
               /\ seeder'.step \in {"item", "setCounter"} => Full
    PROVE  SeedInv'
<1>1. Seed!Taken' = Seed!Taken /\ (KeyTaken' <=> KeyTaken) /\ (FixturesIn' <=> FixturesIn) /\ (Full' <=> Full)
      /\ \A n : ItemsIn(n)' <=> ItemsIn(n)
    BY DEF Seed!Taken, Seed!Live, KeyTaken, FixturesIn, Full, Seed!Categories, ItemsIn, Seed!database, Seed!rows
<1>2. SeedTypes'
    BY <1>1 DEF SeedInv, SeedTypes, Seed!database, Seed!rows
<1>3. ASSUME quiet = "since", NEW j \in Ids, Seed!Taken = {j}
      PROVE  Seeded(j)'
    BY <1>1, <1>3 DEF SeedInv, Seeded, Seed!database, Seed!rows
<1> QED
    BY <1>1, <1>2, <1>3 DEF SeedInv

(* Starting the script keeps the invariant.                                *)
LEMMA SeedStart ==
    ASSUME SeedInv, Seed!StartSeed
    PROVE  SeedInv'
<1>1. PICK q : q = [step |-> "fixture", id |-> SeedId, next |-> 1]
    OBVIOUS
<1>2. /\ seeder' = q /\ UNCHANGED Seed!database
      /\ quiet' = IF quiet = "no" THEN "run" ELSE quiet
    BY <1>1 DEF Seed!StartSeed, Seed!SeedLoop
<1>3. Seed!Taken' = Seed!Taken /\ (KeyTaken' <=> KeyTaken) /\ (FixturesIn' <=> FixturesIn) /\ (Full' <=> Full)
      /\ \A n : ItemsIn(n)' <=> ItemsIn(n)
    BY <1>2 DEF Seed!Taken, Seed!Live, KeyTaken, FixturesIn, Full, Seed!Categories, ItemsIn, Seed!database, Seed!rows
<1>4. SeedTypes'
    BY <1>1, <1>2, <1>3 DEF SeedInv, SeedTypes, Seeders, Seed!database, Seed!rows
<1>5. Begun' /\ \A j \in Ids : Underway(j)'
    BY <1>1, <1>2 DEF Begun, Underway
<1>6. ASSUME quiet = "since", NEW j \in Ids, Seed!Taken = {j}
      PROVE  Seeded(j)'
    BY <1>1, <1>2, <1>3, <1>6 DEF SeedInv, Seeded, Seed!database, Seed!rows
<1> QED
    BY <1>2, <1>3, <1>4, <1>5, <1>6 DEF SeedInv

(* Stopping the script anywhere keeps the invariant.                       *)
LEMMA SeedStop ==
    ASSUME SeedInv, Seed!StopSeed
    PROVE  SeedInv'
<1>1. /\ seeder' = Seed!Idle /\ UNCHANGED Seed!database
      /\ quiet' = IF quiet = "run" THEN "no" ELSE quiet
    BY DEF Seed!StopSeed
<1>2. Seed!Taken' = Seed!Taken /\ (KeyTaken' <=> KeyTaken) /\ (FixturesIn' <=> FixturesIn) /\ (Full' <=> Full)
      /\ \A n : ItemsIn(n)' <=> ItemsIn(n)
    BY <1>1 DEF Seed!Taken, Seed!Live, KeyTaken, FixturesIn, Full, Seed!Categories, ItemsIn, Seed!database, Seed!rows
<1>3. SeedTypes'
    BY <1>1, <1>2 DEF SeedInv, SeedTypes, Seeders, Seed!Idle, Seed!database, Seed!rows
<1>4. ASSUME quiet = "since", NEW j \in Ids, Seed!Taken = {j}
      PROVE  Seeded(j)'
    BY <1>1, <1>2, <1>4 DEF SeedInv, Seeded, Seed!Idle, Seed!database, Seed!rows
<1> QED
    BY <1>1, <1>2, <1>3, <1>4 DEF SeedInv

(* Seeding a fixture keeps the invariant.                                  *)
LEMMA SeedFixtures ==
    ASSUME SeedInv, Seed!SeedFixture
    PROVE  SeedInv'
<1>1. seeder.step = "fixture" /\ seeder.next \in 1..2
    BY DEF SeedInv, SeedTypes, Seeders, Seed!Idle, Seed!SeedFixture, Seed!SeedAt
<1>2. PICK q : q = IF seeder.next = 2 THEN [step |-> "project", id |-> SeedId]
                   ELSE [step |-> "fixture", id |-> SeedId, next |-> seeder.next + 1]
    OBVIOUS
<1>3. seeder' = q /\ UNCHANGED <<project, counter, lead, statuses, items, quiet>>
    BY <1>2, SeedConstants DEF Seed!SeedFixture, Seed!SeedGoTo, Seed!SeedLoop, Seed!rows, Seed!history
<1>4. fixture' = [fixture EXCEPT ![Seed!Fixtures[seeder.next]] =
                     IF @ = "absent" \/ Seed!Fixtures[seeder.next] = "roles" THEN "seeded" ELSE @]
    BY DEF Seed!SeedFixture
<1>5. /\ fixture' = [f \in {"rows", "roles"} |-> fixture'[f]]
      /\ seeder.next = 1 => fixture'["rows"] # "absent" /\ fixture'["roles"] = fixture["roles"]
      /\ seeder.next = 2 => fixture'["rows"] = fixture["rows"] /\ fixture'["roles"] = "seeded"
      /\ fixture["rows"] # "absent" => fixture'["rows"] # "absent"
    BY <1>1, <1>4, SeedConstants DEF SeedInv, SeedTypes
<1>6. Seed!Taken' = Seed!Taken /\ (KeyTaken' <=> KeyTaken) /\ (Full' <=> Full)
      /\ \A n : ItemsIn(n)' <=> ItemsIn(n)
    BY <1>3 DEF Seed!Taken, Seed!Live, KeyTaken, Full, Seed!Categories, ItemsIn
<1>7. q \in Seeders /\ q.step \in {"fixture", "project"}
    BY <1>1, <1>2 DEF Seeders
<1>8. SeedTypes'
    BY <1>3, <1>5, <1>6, <1>7 DEF SeedInv, SeedTypes
<1>9. quiet = "run" => Begun'
    BY <1>1, <1>2, <1>3, <1>5, <1>7 DEF SeedInv, Begun, FixturesIn
<1>10. \A j \in Ids : Underway(j)'
    BY <1>3, <1>7 DEF Underway
<1>11. quiet = "since" => FixturesIn' /\ KeyTaken'
    BY <1>1, <1>5, <1>6 DEF SeedInv, FixturesIn
<1>12. ASSUME quiet = "since", NEW j \in Ids, Seed!Taken = {j}
       PROVE  Seeded(j)'
    BY <1>3, <1>6, <1>7, <1>12 DEF SeedInv, Seeded
<1> QED
    BY <1>3, <1>6, <1>8, <1>9, <1>10, <1>11, <1>12 DEF SeedInv

(* The project: whoever has the key, it is taken from here on.             *)
LEMMA SeedProjects ==
    ASSUME SeedInv, Seed!SeedProject
    PROVE  SeedInv'
<1>1. seeder.step = "project" /\ UNCHANGED <<fixture, counter, lead, statuses, items, quiet>>
    BY DEF Seed!SeedProject, Seed!SeedAt, Seed!history
<1>2. (FixturesIn' <=> FixturesIn) /\ (Full' <=> Full) /\ \A n : ItemsIn(n)' <=> ItemsIn(n)
    BY <1>1 DEF FixturesIn, Full, Seed!Categories, ItemsIn
<1>3. PICK i \in Ids : /\ seeder' = [step |-> "counter", id |-> i] /\ i \in Seed!Taken'
                       /\ KeyTaken' /\ Seed!Taken' = Seed!Taken \cup {i}
                       /\ project' = [k \in Ids |-> project'[k]]
    <2>1. CASE project[SeedId] = "absent" /\ Seed!KeyIsFree
        <3>1. seeder' = [step |-> "counter", id |-> SeedId] /\ project' = [project EXCEPT ![SeedId] = "live"]
            BY <2>1 DEF Seed!SeedProject, Seed!SeedGoTo
        <3>2. /\ project' = [k \in Ids |-> project'[k]] /\ project'[SeedId] = "live"
              /\ \A k \in Ids \ {SeedId} : project'[k] = project[k]
            BY <3>1, SeedConstants DEF SeedInv, SeedTypes
        <3>3. SeedId \in Seed!Taken' /\ KeyTaken' /\ Seed!Taken' = Seed!Taken \cup {SeedId}
            BY <3>2, SeedConstants DEF Seed!Taken, KeyTaken
        <3> QED
            BY <3>1, <3>2, <3>3, SeedConstants
    <2>2. CASE ~(project[SeedId] = "absent" /\ Seed!KeyIsFree)
        <3>1. PICK k \in Seed!Taken : seeder' = [step |-> "counter", id |-> k]
            BY <2>2 DEF Seed!SeedProject, Seed!SeedGoTo
        <3>2. project' = project
            BY <2>2 DEF Seed!SeedProject
        <3>3. k \in Ids /\ Seed!Taken' = Seed!Taken
            BY <3>2 DEF Seed!Taken
        <3>4. KeyTaken'
            BY <2>2, <3>2 DEF KeyTaken, Seed!KeyIsFree, Seed!Live
        <3> QED
            BY <3>1, <3>2, <3>3, <3>4 DEF SeedInv, SeedTypes
    <2> QED
        BY <2>1, <2>2
<1>4. SeedTypes'
    BY <1>1, <1>3 DEF SeedInv, SeedTypes, Seeders
<1>5. quiet = "run" => Begun'
    BY <1>1, <1>2, <1>3 DEF SeedInv, Begun
<1>6. \A j \in Ids : Underway(j)'
    BY <1>3 DEF Underway
<1>7. ASSUME quiet = "since", NEW j \in Ids, Seed!Taken' = {j}
      PROVE  Seeded(j)'
    <2>1. project' = project
        BY <1>7 DEF SeedInv, KeyTaken, Seed!KeyIsFree, Seed!SeedProject
    <2>2. Seed!Taken = {j}
        BY <1>7, <2>1 DEF Seed!Taken
    <2> QED
        BY <1>1, <1>2, <1>3, <1>7, <2>2 DEF SeedInv, Seeded
<1> QED
    BY <1>1, <1>2, <1>3, <1>4, <1>5, <1>6, <1>7 DEF SeedInv

(* The steps between, each of which writes one thing for the row it is     *)
(* about.                                                                  *)
LEMMA SeedCounters ==
    ASSUME SeedInv, Seed!SeedCounter
    PROVE  SeedInv'
<1>1. PICK i \in Ids : i = seeder.id /\ i \in Seed!Taken /\ seeder.step = "counter"
    BY DEF SeedInv, SeedTypes, Seed!SeedCounter, Seed!SeedAt, Seed!Taken
<1>2. /\ seeder' = [step |-> "lead", id |-> i]
      /\ counter' = [counter EXCEPT ![i] = IF @ = Seed!NoCounter THEN 0 ELSE @]
      /\ UNCHANGED <<fixture, project, lead, statuses, items, quiet>>
    BY <1>1 DEF Seed!SeedCounter, Seed!SeedGoTo, Seed!history
<1>3. /\ Seed!Taken' = Seed!Taken /\ (KeyTaken' <=> KeyTaken) /\ (FixturesIn' <=> FixturesIn)
      /\ (Full' <=> Full) /\ \A n : ItemsIn(n)' <=> ItemsIn(n)
    BY <1>2 DEF Seed!Taken, Seed!Live, KeyTaken, FixturesIn, Full, Seed!Categories, ItemsIn
<1>4. /\ counter' = [k \in Ids |-> counter'[k]] /\ counter'[i] # Seed!NoCounter
      /\ \A k \in Ids : counter[k] # Seed!NoCounter => counter'[k] = counter[k]
    BY <1>1, <1>2 DEF SeedInv, SeedTypes, Seed!NoCounter
<1>5. SeedTypes'
    BY <1>1, <1>2, <1>3, <1>4 DEF SeedInv, SeedTypes, Seeders
<1>6. quiet = "run" => Begun'
    BY <1>1, <1>2, <1>3 DEF SeedInv, Begun
<1>7. ASSUME NEW j \in Ids, Seed!Taken = {j} PROVE Underway(j)'
    BY <1>1, <1>2, <1>4, <1>7 DEF Underway
<1>8. ASSUME quiet = "since", NEW j \in Ids, Seed!Taken = {j} PROVE Seeded(j)'
    <2>1. counter' = counter
        <3>1. counter[i] # Seed!NoCounter
            BY <1>1, <1>8 DEF SeedInv, Seeded
        <3> QED
            BY <1>2, <3>1 DEF SeedInv, SeedTypes
    <2> QED
        BY <1>2, <1>3, <1>8, <2>1 DEF SeedInv, Seeded
<1> QED
    BY <1>2, <1>3, <1>5, <1>6, <1>7, <1>8 DEF SeedInv

(* Seeding the leads of a project keeps the invariant.                     *)
LEMMA SeedLeads ==
    ASSUME SeedInv, Seed!SeedLead
    PROVE  SeedInv'
<1>1. PICK i \in Ids : i = seeder.id /\ i \in Seed!Taken /\ seeder.step = "lead"
    BY DEF SeedInv, SeedTypes, Seed!SeedLead, Seed!SeedAt, Seed!Taken
<1>2. /\ seeder' = [step |-> "workflow", id |-> i] /\ lead' = lead \cup {i}
      /\ UNCHANGED <<fixture, project, counter, statuses, items, quiet>>
    BY <1>1 DEF Seed!SeedLead, Seed!SeedGoTo, Seed!history
<1>3. /\ Seed!Taken' = Seed!Taken /\ (KeyTaken' <=> KeyTaken) /\ (FixturesIn' <=> FixturesIn)
      /\ (Full' <=> Full) /\ \A n : ItemsIn(n)' <=> ItemsIn(n)
    BY <1>2 DEF Seed!Taken, Seed!Live, KeyTaken, FixturesIn, Full, Seed!Categories, ItemsIn
<1>4. SeedTypes'
    BY <1>1, <1>2, <1>3 DEF SeedInv, SeedTypes, Seeders
<1>5. quiet = "run" => Begun'
    BY <1>1, <1>2, <1>3 DEF SeedInv, Begun
<1>6. ASSUME quiet = "run", NEW j \in Ids, Seed!Taken = {j} PROVE Underway(j)'
    BY <1>1, <1>2, <1>6 DEF SeedInv, Underway
<1>7. ASSUME quiet = "since", NEW j \in Ids, Seed!Taken = {j} PROVE Seeded(j)'
    BY <1>2, <1>3, <1>7 DEF SeedInv, Seeded
<1> QED
    BY <1>2, <1>3, <1>4, <1>5, <1>6, <1>7 DEF SeedInv

(* Seeding the workflow of a project keeps the invariant.                  *)
LEMMA SeedWorkflows ==
    ASSUME SeedInv, Seed!SeedWorkflow
    PROVE  SeedInv'
<1>1. PICK i \in Ids : i = seeder.id /\ i \in Seed!Taken /\ seeder.step = "workflow"
    BY DEF SeedInv, SeedTypes, Seed!SeedWorkflow, Seed!SeedAt, Seed!Taken
<1>2. PICK q : q = IF statuses[i] = Seed!None THEN [step |-> "status", id |-> i, next |-> 1]
                   ELSE [step |-> "items", id |-> SeedId]
    OBVIOUS
<1>3. seeder' = q /\ UNCHANGED Seed!database /\ quiet' = quiet
    BY <1>1, <1>2 DEF Seed!SeedWorkflow, Seed!SeedGoTo, Seed!SeedLoop, Seed!history
<1>4. q \in Seeders /\ (q.step \in {"counter", "lead", "workflow", "status"} => q.id \in Seed!Taken)
    BY <1>1, <1>2 DEF Seeders
<1>5. quiet = "run" => Begun'
    BY <1>1, <1>2, <1>3 DEF SeedInv, Begun, FixturesIn, KeyTaken, Seed!Live, Seed!database, Seed!rows
<1>6. ASSUME quiet = "run", NEW j \in Ids, Seed!Taken = {j} PROVE Underway(j)'
    <2>1. i = j /\ Underway(j)
        BY <1>1, <1>6 DEF SeedInv
    <2> QED
        BY <1>1, <1>2, <1>3, <2>1 DEF Underway, Seed!database, Seed!rows
<1>7. ASSUME quiet = "since", NEW j \in Ids, Seed!Taken = {j} PROVE q.step = "items"
    BY <1>1, <1>2, <1>7 DEF SeedInv, Seeded
<1> QED
    BY <1>3, <1>4, <1>5, <1>6, <1>7, SeedMoves

(* Seeding a status of a workflow keeps the invariant.                     *)
LEMMA SeedStatuses ==
    ASSUME SeedInv, Seed!SeedStatus
    PROVE  SeedInv'
<1>1. PICK i \in Ids, n \in 1..4 :
         i = seeder.id /\ n = seeder.next /\ i \in Seed!Taken /\ seeder.step = "status"
    BY DEF SeedInv, SeedTypes, Seeders, Seed!Idle, Seed!SeedStatus, Seed!SeedAt
<1>2. PICK q : q = IF n = 4 THEN [step |-> "items", id |-> SeedId]
                   ELSE [step |-> "status", id |-> i, next |-> n + 1]
    OBVIOUS
<1>3. /\ seeder' = q /\ statuses' = [statuses EXCEPT ![i][n] = @ + 1]
      /\ UNCHANGED <<fixture, project, counter, lead, items, quiet>>
    BY <1>1, <1>2, SeedConstants DEF Seed!SeedStatus, Seed!SeedGoTo, Seed!SeedLoop, Seed!history
<1>4. /\ Seed!Taken' = Seed!Taken /\ (KeyTaken' <=> KeyTaken) /\ (FixturesIn' <=> FixturesIn)
    BY <1>3 DEF Seed!Taken, Seed!Live, KeyTaken, FixturesIn
<1>5. q \in Seeders /\ (q.step = "status" => q.id = i) /\ q.step \in {"status", "items"}
    BY <1>1, <1>2 DEF Seeders
<1>6. statuses' \in [Ids -> [Seed!Positions -> Nat]] /\ statuses'[i] # Seed!None
    <2>1. PICK f \in [Seed!Positions -> Nat] : f = statuses[i]
        BY DEF SeedInv, SeedTypes
    <2>2. PICK g : g = [f EXCEPT ![n] = @ + 1]
        OBVIOUS
    <2>3. g \in [Seed!Positions -> Nat] /\ g[n] # 0 /\ n \in Seed!Positions
        BY <1>1, <2>1, <2>2, SeedConstants
    <2>4. statuses' = [statuses EXCEPT ![i] = g]
        BY <1>3, <2>1, <2>2
    <2> QED
        BY <2>3, <2>4 DEF SeedInv, SeedTypes, Seed!None
<1>7. SeedTypes'
    BY <1>1, <1>3, <1>4, <1>5, <1>6 DEF SeedInv, SeedTypes
<1>8. quiet = "run" => Begun'
    BY <1>1, <1>3, <1>4, <1>5 DEF SeedInv, Begun
<1>9. ASSUME quiet = "run", NEW j \in Ids, Seed!Taken = {j} PROVE Underway(j)'
    <2>1. i = j /\ Underway(j)
        BY <1>1, <1>9 DEF SeedInv
    <2> QED
        BY <1>1, <1>3, <1>5, <1>6, <2>1 DEF Underway
<1>10. ~(quiet = "since" /\ \E j \in Ids : Seed!Taken = {j})
    BY <1>1 DEF SeedInv, Seeded
<1> QED
    BY <1>3, <1>4, <1>7, <1>8, <1>9, <1>10 DEF SeedInv

(* The items, for a project that has a whole workflow; or the end.         *)
LEMMA SeedItemsBegin ==
    ASSUME SeedInv, Seed!SeedItemsOf
    PROVE  SeedInv'
<1>1. seeder.step = "items" /\ UNCHANGED Seed!database
    BY DEF Seed!SeedItemsOf, Seed!SeedAt
<1>2. CASE Full
    <2>1. PICK q : q = [step |-> "item", id |-> SeedId, next |-> 1]
        OBVIOUS
    <2>2. seeder' = q /\ quiet' = quiet
        BY <1>2, <2>1 DEF Full, Seed!SeedItemsOf, Seed!SeedLoop, Seed!history
    <2>3. q \in Seeders /\ q.step = "item" /\ q.next = 1
        BY <2>1, SeedConstants DEF Seeders
    <2>4. quiet = "run" => Begun'
        BY <1>1, <2>2, <2>3 DEF SeedInv, Begun, FixturesIn, KeyTaken, Seed!Live, Seed!database, Seed!rows
    <2>5. ASSUME quiet = "run", NEW j \in Ids, Seed!Taken = {j} PROVE Underway(j)'
        <3>1. Underway(j) /\ (Full' <=> Full)
            BY <1>1, <2>5 DEF SeedInv, Full, Seed!Categories, Seed!database, Seed!rows
        <3>2. ItemsIn(seeder.next - 1)'
            BY <2>2, <2>3 DEF ItemsIn
        <3> QED
            BY <1>1, <1>2, <2>2, <2>3, <3>1, <3>2 DEF Underway, Seed!database, Seed!rows
    <2> QED
        BY <1>1, <1>2, <2>2, <2>3, <2>4, <2>5, SeedMoves
<1>3. CASE ~Full
    <2>1. seeder' = Seed!Idle /\ quiet' = IF quiet = "run" THEN "since" ELSE quiet
        BY <1>3 DEF Full, Seed!SeedItemsOf, Seed!EndSeed
    <2>2. Seed!Taken' = Seed!Taken /\ (KeyTaken' <=> KeyTaken) /\ (FixturesIn' <=> FixturesIn) /\ (Full' <=> Full)
        BY <1>1 DEF Seed!Taken, Seed!Live, KeyTaken, FixturesIn, Full, Seed!Categories, Seed!database, Seed!rows
    <2>3. SeedTypes'
        BY <1>1, <2>1, <2>2 DEF SeedInv, SeedTypes, Seeders, Seed!Idle, Seed!database, Seed!rows
    <2>4. quiet' = "since" => FixturesIn /\ KeyTaken
        BY <1>1, <2>1 DEF SeedInv, Begun
    <2>5. ASSUME quiet' = "since", NEW j \in Ids, Seed!Taken = {j} PROVE Seeded(j)'
        <3>1. counter[j] # Seed!NoCounter /\ j \in lead /\ statuses[j] # Seed!None
            BY <1>1, <2>1, <2>5 DEF SeedInv, Underway, Seeded
        <3> QED
            BY <1>1, <1>3, <2>1, <2>2, <3>1 DEF Seeded, Seed!Idle, Seed!database, Seed!rows
    <2> QED
        BY <2>1, <2>2, <2>3, <2>4, <2>5 DEF SeedInv
<1> QED
    BY <1>2, <1>3

(* Seeding a work item keeps the invariant.                                *)
LEMMA SeedAnItem ==
    ASSUME SeedInv, Seed!SeedItem
    PROVE  SeedInv'
<1>1. PICK n \in 1..SeedItems : n = seeder.next /\ seeder.step = "item"
    BY DEF SeedInv, SeedTypes, Seeders, Seed!Idle, Seed!SeedItem, Seed!SeedAt
<1>2. PICK q : q = IF n = SeedItems THEN [step |-> "setCounter", id |-> SeedId]
                   ELSE [step |-> "item", id |-> SeedId, next |-> n + 1]
    OBVIOUS
<1>3. /\ seeder' = q /\ items' = [items EXCEPT ![SeedId] = @ \cup {n}]
      /\ UNCHANGED <<fixture, project, counter, lead, statuses, quiet>>
    BY <1>1, <1>2 DEF Seed!SeedItem, Seed!SeedGoTo, Seed!SeedLoop, Seed!history
<1>4. /\ Seed!Taken' = Seed!Taken /\ (KeyTaken' <=> KeyTaken) /\ (FixturesIn' <=> FixturesIn)
      /\ (Full' <=> Full)
    BY <1>3 DEF Seed!Taken, Seed!Live, KeyTaken, FixturesIn, Full, Seed!Categories
<1>5. /\ q \in Seeders /\ q.step \in {"item", "setCounter"}
      /\ q.step = "setCounter" => n = SeedItems
      /\ q.step = "item" => q.next = n + 1
    BY <1>1, <1>2, SeedConstants DEF Seeders
<1>6. /\ items' = [k \in Ids |-> items'[k]] /\ n \in items'[SeedId]
      /\ \A k : k \in items[SeedId] => k \in items'[SeedId]
    BY <1>3, SeedConstants DEF SeedInv, SeedTypes
<1>7. SeedTypes'
    BY <1>3, <1>4, <1>5, <1>6 DEF SeedInv, SeedTypes
<1>8. quiet = "run" => Begun'
    BY <1>1, <1>3, <1>4, <1>5 DEF SeedInv, Begun
<1>9. ASSUME quiet = "run", NEW j \in Ids, Seed!Taken = {j} PROVE Underway(j)'
    <2>1. Underway(j) /\ ItemsIn(n - 1)
        BY <1>1, <1>9 DEF SeedInv, Underway
    <2>2. ItemsIn(n)'
        BY <1>1, <1>6, <2>1, SeedConstants DEF ItemsIn
    <2>3. q.step = "item" => ItemsIn(seeder.next - 1)'
        BY <1>1, <1>3, <1>5, <2>2, SeedConstants DEF ItemsIn
    <2>4. q.step = "setCounter" => ItemsIn(SeedItems)'
        BY <1>5, <2>2
    <2> QED
        BY <1>1, <1>3, <1>4, <1>5, <2>1, <2>3, <2>4 DEF Underway
<1>10. ASSUME quiet = "since", NEW j \in Ids, Seed!Taken = {j} PROVE Seeded(j)'
    <2>1. Seeded(j)
        BY <1>10 DEF SeedInv
    <2>2. ItemsIn(SeedItems) => ItemsIn(SeedItems)'
        BY <1>6 DEF ItemsIn
    <2> QED
        BY <1>1, <1>3, <1>4, <1>5, <2>1, <2>2 DEF Seeded
<1> QED
    BY <1>3, <1>4, <1>7, <1>8, <1>9, <1>10 DEF SeedInv

(* The counter is set, and the run ends.                                   *)
LEMMA SeedEnds ==
    ASSUME SeedInv, Seed!SeedSetCounter
    PROVE  SeedInv'
<1>1. /\ seeder.step = "setCounter" /\ seeder' = Seed!Idle
      /\ counter' = [counter EXCEPT ![SeedId] = IF @ = Seed!NoCounter THEN @ ELSE SeedItems]
      /\ quiet' = (IF quiet = "run" THEN "since" ELSE quiet)
      /\ UNCHANGED <<fixture, project, lead, statuses, items>>
    BY DEF Seed!SeedSetCounter, Seed!SeedAt, Seed!EndSeed
<1>2. /\ Seed!Taken' = Seed!Taken /\ (KeyTaken' <=> KeyTaken) /\ (FixturesIn' <=> FixturesIn)
      /\ (Full' <=> Full) /\ (ItemsIn(SeedItems)' <=> ItemsIn(SeedItems))
    BY <1>1 DEF Seed!Taken, Seed!Live, KeyTaken, FixturesIn, Full, Seed!Categories, ItemsIn
<1>3. /\ counter' = [k \in Ids |-> counter'[k]]
      /\ counter'[SeedId] \in {Seed!NoCounter, SeedItems}
      /\ \A k \in Ids : counter[k] # Seed!NoCounter => counter'[k] # Seed!NoCounter
    <2>1. SeedItems # Seed!NoCounter
        BY SeedConstants DEF Seed!NoCounter
    <2>2. counter = [k \in Ids |-> counter[k]] /\ SeedId \in Ids
        BY SeedConstants DEF SeedInv, SeedTypes
    <2>3. counter'[SeedId] = IF counter[SeedId] = Seed!NoCounter THEN counter[SeedId] ELSE SeedItems
        BY <1>1, <2>2
    <2>4. counter' = [k \in Ids |-> counter'[k]] /\ \A k \in Ids \ {SeedId} : counter'[k] = counter[k]
        BY <1>1, <2>2
    <2> QED
        BY <2>1, <2>3, <2>4
<1>4. SeedTypes'
    BY <1>1, <1>2, <1>3 DEF SeedInv, SeedTypes, Seeders, Seed!Idle
<1>5. quiet' = "since" => FixturesIn /\ KeyTaken
    BY <1>1 DEF SeedInv, Begun
<1>6. ASSUME quiet' = "since", NEW j \in Ids, Seed!Taken = {j} PROVE Seeded(j)'
    <2>1. counter[j] # Seed!NoCounter /\ j \in lead /\ statuses[j] # Seed!None /\ Full /\ ItemsIn(SeedItems)
        BY <1>1, <1>6 DEF SeedInv, Underway, Seeded
    <2> QED
        BY <1>1, <1>2, <1>3, <2>1 DEF Seeded, Seed!Idle
<1> QED
    BY <1>1, <1>2, <1>4, <1>5, <1>6 DEF SeedInv

(* What writes nothing of the database.                                    *)
LEMMA SeedStays ==
    ASSUME SeedInv, UNCHANGED <<Seed!database, seeder, quiet>>
    PROVE  SeedInv'
<1>1. quiet = "run" => Begun' /\ \A j \in Ids : Seed!Taken = {j} => Underway(j)'
    BY DEF SeedInv, Begun, Underway, FixturesIn, KeyTaken, Full, ItemsIn, Seed!Live, Seed!Categories,
       Seed!database, Seed!rows
<1> QED
    BY <1>1, SeedMoves DEF SeedInv, SeedTypes, Seeded

(* Every step of the script keeps the invariant.                           *)
LEMMA SeedNext ==
    ASSUME SeedInv, Seed!Next
    PROVE  SeedInv'
<1>1. CASE Seed!SeedStep
    BY <1>1, SeedFixtures, SeedProjects, SeedCounters, SeedLeads, SeedWorkflows, SeedStatuses,
       SeedItemsBegin, SeedAnItem, SeedEnds DEF Seed!SeedStep
<1>2. ASSUME NEW c \in Writers, Seed!Abort(c) \/ \E i \in Ids : Seed!CreateProject(c, i)
      PROVE  SeedInv'
    BY <1>2, SeedStays DEF Seed!Abort, Seed!CreateProject, Seed!seed, Seed!history
<1> QED
    BY <1>1, <1>2, SeedStart, SeedStop, SeedOthers DEF Seed!Next

(* The invariant holds in every state of the composition.                  *)
LEMMA SeedInvariant == Spec => [](on = "seed" => SeedInv)
<1> DEFINE Inv == on = "seed" => SeedInv
<1>1. Init => Inv
    <2> SUFFICES ASSUME Seed!Init PROVE SeedInv
        BY DEF Init
    <2>1. [p \in Seed!Positions |-> 0] \in [Seed!Positions -> Nat]
        OBVIOUS
    <2>2. SeedTypes
        BY <2>1, SeedConstants DEF Seed!Init, SeedTypes, Seeders, Seed!Idle, Seed!None
    <2> QED
        BY <2>2 DEF Seed!Init, SeedInv
<1>2. Inv /\ [Next]_vars => Inv'
    <2> SUFFICES ASSUME Inv, [Next]_vars, on = "seed" PROVE SeedInv'
        BY ServiceStays
    <2>1. CASE UNCHANGED vars
        BY <2>1, SeedStays DEF vars, Seed!database, Seed!rows
    <2>2. CASE Next
        BY <2>2, SeedNext DEF Next
    <2> QED
        BY <2>1, <2>2
<1> QED
    BY <1>1, <1>2, PTL DEF Spec

(* After a run that reached its end a further one, complete or stopped at  *)
(* any step, writes nothing new, unless somebody else has written in       *)
(* between or several projects have had the key; for any number of runs,   *)
(* projects and items.                                                     *)
THEOREM ReseedingIsIdempotent == Spec => ReseedChangesNothing
<1>1. (on = "seed" => SeedInv) => (on = "seed" => Seed!NothingNew)
    BY SeedAgain, OneProject DEF Seed!NothingNew
<1> QED
    BY <1>1, SeedInvariant, PTL DEF Spec, ReseedChangesNothing

(* Everything but the statuses and the seed itself.                        *)
SeedRowTypes ==
    /\ fixture \in [{"rows", "roles"} -> {"absent", "seeded", "changed"}]
    /\ project \in [Ids -> {"absent", "live", "deleted"}]
    /\ counter \in [Ids -> {Seed!NoCounter} \cup 0..MaxNumber]
    /\ lead \subseteq Ids
    /\ items \in [Ids -> SUBSET (1..MaxNumber)]
    /\ runs \in 0..MaxRuns
    /\ refused \in BOOLEAN
    /\ request \in [Writers -> Seed!Requests]

(* Every run inserts a status of a position at most once for a project, so *)
(* that before it has come to a position there are as many as runs.        *)
StatusesCounted ==
    /\ statuses \in [Ids -> [1..4 -> Nat]]
    /\ \A i \in Ids, p \in 1..4 : statuses[i][p] <= runs + 1
    /\ seeder # Seed!Idle => runs >= 1
    /\ seeder.step \in {"fixture", "project", "counter", "lead", "workflow"}
       => \A i \in Ids, p \in 1..4 : statuses[i][p] <= runs
    /\ seeder.step = "status" => \A i \in Ids, p \in seeder.next..4 : statuses[i][p] <= runs

SeedBounds == SeedRowTypes /\ StatusesCounted

(* The seed's own numbers fit the bounds.                                  *)
LEMMA SeedNumbers ==
    MaxNumber \in Nat /\ MaxRuns \in Nat /\ SeedItems \in 1..MaxNumber
BY ServicesAssumption DEF ServicesAssumption, Seed!SeedAssumption

(* The requests a client makes are requests.                               *)
LEMMA SeedRequestTypes ==
    /\ Seed!Idle \in Seed!Requests
    /\ \A i \in Ids : [step |-> "create", id |-> i] \in Seed!Requests
    /\ \A i \in Ids, n \in 1..MaxNumber : [step |-> "insert", id |-> i, number |-> n] \in Seed!Requests
BY DEF Seed!Requests

(* Steps of requests, and of users, keep the types.                        *)
LEMMA RequestsKeepRowTypes ==
    ASSUME SeedRowTypes,
           \/ \E f \in Seed!ToSet(Seed!Fixtures) : Seed!Change(f)
           \/ \E i \in Ids : Seed!DeleteProject(i)
           \/ \E c \in Writers : \/ Seed!CommitProject(c) \/ Seed!InsertItem(c) \/ Seed!Abort(c)
                                \/ \E i \in Ids : Seed!CreateProject(c, i) \/ Seed!TakeNumber(c, i)
    PROVE  SeedRowTypes'
<1>1. ASSUME NEW f \in Seed!ToSet(Seed!Fixtures), Seed!Change(f)
      PROVE  SeedRowTypes'
    BY <1>1, SeedConstants DEF Seed!Change, Seed!Touch, Seed!rows, Seed!seed, SeedRowTypes
<1>2. ASSUME NEW i \in Ids, Seed!DeleteProject(i)
      PROVE  SeedRowTypes'
    BY <1>2 DEF Seed!DeleteProject, Seed!Touch, Seed!seed, SeedRowTypes
<1>3. ASSUME NEW c \in Writers, Seed!CommitProject(c)
      PROVE  SeedRowTypes'
    <2>1. PICK q \in Seed!Requests : q = request[c]
        BY DEF SeedRowTypes
    <2>2. q.step = "create"
        BY <1>3, <2>1 DEF Seed!CommitProject, Seed!At
    <2>3. q.id \in Ids
        BY <2>1, <2>2 DEF Seed!Requests, Seed!Idle
    <2>4. /\ project' = [project EXCEPT ![q.id] = "live"]
          /\ counter' = [counter EXCEPT ![q.id] = 0]
          /\ lead' = lead \cup {q.id}
          /\ request' = [request EXCEPT ![c] = Seed!Idle]
          /\ UNCHANGED <<fixture, items, runs, refused>>
        BY <1>3, <2>1 DEF Seed!CommitProject, Seed!Touch, Seed!GoTo, Seed!seed
    <2>5. 0 \in 0..MaxNumber
        BY SeedNumbers
    <2> QED
        BY <2>3, <2>4, <2>5, SeedRequestTypes DEF SeedRowTypes
<1>4. ASSUME NEW c \in Writers, Seed!InsertItem(c)
      PROVE  SeedRowTypes'
    <2>1. PICK q \in Seed!Requests : q = request[c]
        BY DEF SeedRowTypes
    <2>2. q.step = "insert"
        BY <1>4, <2>1 DEF Seed!InsertItem, Seed!At
    <2>3. q.id \in Ids /\ q.number \in 1..MaxNumber
        BY <2>1, <2>2 DEF Seed!Requests, Seed!Idle
    <2>4. /\ items' = [items EXCEPT ![q.id] = @ \cup {q.number}]
          /\ refused' = (refused \/ q.number \in items[q.id])
          /\ request' = [request EXCEPT ![c] = Seed!Idle]
          /\ UNCHANGED <<fixture, project, counter, lead, runs>>
        BY <1>4, <2>1 DEF Seed!InsertItem, Seed!GoTo, Seed!seed
    <2>5. refused' \in BOOLEAN
        BY Zenon, <2>4
    <2>6. items' \in [Ids -> SUBSET (1..MaxNumber)]
        BY <2>3, <2>4 DEF SeedRowTypes
    <2> QED
        BY <2>4, <2>5, <2>6, SeedRequestTypes DEF SeedRowTypes
<1>5. ASSUME NEW c \in Writers, Seed!Abort(c)
      PROVE  SeedRowTypes'
    BY <1>5, SeedRequestTypes
       DEF Seed!Abort, Seed!GoTo, Seed!database, Seed!rows, Seed!seed, Seed!history, SeedRowTypes
<1>6. ASSUME NEW c \in Writers, NEW i \in Ids, Seed!CreateProject(c, i)
      PROVE  SeedRowTypes'
    BY <1>6, SeedRequestTypes
       DEF Seed!CreateProject, Seed!GoTo, Seed!database, Seed!rows, Seed!seed, Seed!history, SeedRowTypes
<1>7. ASSUME NEW c \in Writers, NEW i \in Ids, Seed!TakeNumber(c, i)
      PROVE  SeedRowTypes'
    <2>1. PICK n : n = counter[i] + 1
        OBVIOUS
    <2>2. n \in 1..MaxNumber /\ n \in 0..MaxNumber
        BY <1>7, <2>1, SeedNumbers DEF Seed!TakeNumber
    <2>3. /\ counter' = [counter EXCEPT ![i] = n]
          /\ request' = [request EXCEPT ![c] = [step |-> "insert", id |-> i, number |-> n]]
          /\ UNCHANGED <<fixture, project, lead, items, runs, refused>>
        BY <1>7, <2>1 DEF Seed!TakeNumber, Seed!GoTo, Seed!Touch, Seed!seed
    <2> QED
        BY <2>2, <2>3, SeedRequestTypes DEF SeedRowTypes
<1> QED
    BY <1>1, <1>2, <1>3, <1>4, <1>5, <1>6, <1>7

(* Steps of the seed keep the types.                                       *)
LEMMA SeedKeepsRowTypes ==
    ASSUME SeedInv, SeedRowTypes, Seed!StartSeed \/ Seed!SeedStep \/ Seed!StopSeed
    PROVE  SeedRowTypes'
<1>1. SeedId \in Ids /\ SeedItems \in 1..MaxNumber /\ SeedItems \in 0..MaxNumber /\ 0 \in 0..MaxNumber
    BY SeedConstants, SeedNumbers
<1>2. CASE Seed!StartSeed
    BY <1>2, SeedNumbers DEF Seed!StartSeed, Seed!database, Seed!rows, SeedRowTypes
<1>3. CASE Seed!StopSeed
    BY <1>3 DEF Seed!StopSeed, Seed!database, Seed!rows, SeedRowTypes
<1>4. CASE Seed!SeedFixture
    <2>1. seeder.next \in 1..2
        BY <1>4 DEF SeedInv, SeedTypes, Seeders, Seed!Idle, Seed!SeedFixture, Seed!SeedAt
    <2>2. PICK f \in {"rows", "roles"} : f = Seed!Fixtures[seeder.next]
        BY <2>1, SeedConstants
    <2>3. fixture' = [fixture EXCEPT ![f] = IF @ = "absent" \/ f = "roles" THEN "seeded" ELSE @]
        BY <1>4, <2>2 DEF Seed!SeedFixture
    <2>4. UNCHANGED <<project, counter, lead, items, runs, refused, request>>
        BY <1>4 DEF Seed!SeedFixture, Seed!rows, Seed!history
    <2> QED
        BY <2>3, <2>4 DEF SeedRowTypes
<1>5. CASE Seed!SeedProject
    BY <1>1, <1>5 DEF Seed!SeedProject, Seed!history, SeedRowTypes
<1>6. CASE Seed!SeedCounter
    BY <1>1, <1>6 DEF Seed!SeedCounter, Seed!history, SeedRowTypes
<1>7. CASE Seed!SeedLead
    <2>1. seeder.id \in Ids
        BY <1>7 DEF SeedInv, SeedTypes, Seed!Taken, Seed!SeedLead, Seed!SeedAt
    <2> QED
        BY <1>7, <2>1 DEF Seed!SeedLead, Seed!history, SeedRowTypes
<1>8. CASE Seed!SeedWorkflow
    BY <1>8 DEF Seed!SeedWorkflow, Seed!history, Seed!database, Seed!rows, SeedRowTypes
<1>9. CASE Seed!SeedStatus
    BY <1>9 DEF Seed!SeedStatus, Seed!history, SeedRowTypes
<1>10. CASE Seed!SeedItemsOf
    BY <1>10 DEF Seed!SeedItemsOf, Seed!EndSeed, Seed!history, Seed!database, Seed!rows, SeedRowTypes
<1>11. CASE Seed!SeedItem
    <2>1. seeder.next \in 1..SeedItems
        BY <1>11 DEF SeedInv, SeedTypes, Seeders, Seed!Idle, Seed!SeedItem, Seed!SeedAt
    <2>2. PICK n \in 1..MaxNumber : n = seeder.next
        BY <2>1, SeedNumbers
    <2>3. items' = [items EXCEPT ![SeedId] = @ \cup {n}]
        BY <1>11, <2>2 DEF Seed!SeedItem
    <2>4. UNCHANGED <<fixture, project, counter, lead, runs, refused, request>>
        BY <1>11 DEF Seed!SeedItem, Seed!history
    <2> QED
        BY <1>1, <2>3, <2>4 DEF SeedRowTypes
<1>12. CASE Seed!SeedSetCounter
    BY <1>1, <1>12 DEF Seed!SeedSetCounter, Seed!EndSeed, SeedRowTypes
<1> QED
    BY <1>2, <1>3, <1>4, <1>5, <1>6, <1>7, <1>8, <1>9, <1>10, <1>11, <1>12 DEF Seed!SeedStep

(* A status is inserted once by a run.                                     *)
LEMMA StatusStep ==
    ASSUME SeedInv, StatusesCounted, SeedRowTypes, Seed!SeedStatus
    PROVE  StatusesCounted'
<1>1. seeder.step = "status" /\ seeder.next \in 1..4 /\ seeder.id \in Ids
    BY DEF SeedInv, SeedTypes, Seeders, Seed!Idle, Seed!Taken, Seed!SeedStatus, Seed!SeedAt
<1>2. PICK n \in 1..4, d \in Ids : n = seeder.next /\ d = seeder.id
    BY <1>1
<1>3. PICK before, after :
          /\ before \in [1..4 -> Nat] /\ before = statuses[d]
          /\ after = [before EXCEPT ![n] = before[n] + 1]
    BY DEF StatusesCounted
<1>4. statuses' = [statuses EXCEPT ![d] = after] /\ runs' = runs
    BY <1>2, <1>3 DEF Seed!SeedStatus
<1>5. after \in [1..4 -> Nat] /\ \A p \in 1..4 : after[p] = IF p = n THEN before[p] + 1 ELSE before[p]
    BY <1>3
<1>6. runs \in Nat /\ runs >= 1
    BY <1>1, SeedNumbers DEF StatusesCounted, SeedRowTypes, Seed!Idle
<1>7. PICK q : q = IF n = 4 THEN [step |-> "items", id |-> SeedId]
                   ELSE [step |-> "status", id |-> d, next |-> n + 1]
    OBVIOUS
<1>8. seeder' = q
    BY <1>2, <1>7, SeedConstants DEF Seed!SeedStatus, Seed!SeedGoTo, Seed!SeedLoop
<1>9. statuses' \in [Ids -> [1..4 -> Nat]]
    BY <1>4, <1>5 DEF StatusesCounted
<1>10. ASSUME NEW i \in Ids, NEW p \in 1..4
      PROVE  /\ statuses'[i][p] <= runs + 1
             /\ p > n => statuses'[i][p] <= runs
    <2>1. statuses'[i][p] = IF i = d /\ p = n THEN statuses[i][p] + 1 ELSE statuses[i][p]
        BY <1>3, <1>4, <1>5 DEF StatusesCounted
    <2>2. statuses[i][p] \in Nat /\ statuses[i][p] <= runs + 1 /\ (p >= n => statuses[i][p] <= runs)
        BY <1>1, <1>2 DEF StatusesCounted
    <2> QED
        BY <1>6, <2>1, <2>2
<1>11. seeder'.step = "status" => \A i \in Ids, p \in seeder'.next..4 : statuses'[i][p] <= runs
    BY <1>7, <1>8, <1>10
<1>12. seeder'.step \in {"status", "items"}
    BY <1>7, <1>8
<1> QED
    BY <1>4, <1>6, <1>9, <1>10, <1>11, <1>12 DEF StatusesCounted

(* Every other step counts them right.                                     *)
LEMMA StatusesStayCounted ==
    ASSUME SeedInv, SeedRowTypes, StatusesCounted, Seed!Next
    PROVE  StatusesCounted'
<1>1. runs \in Nat
    BY SeedNumbers DEF SeedRowTypes
<1>2. CASE Seed!SeedStatus
    BY <1>2, StatusStep
<1>3. ASSUME UNCHANGED <<statuses, seeder, runs>>
      PROVE  StatusesCounted'
    BY <1>3 DEF StatusesCounted
<1>4. CASE Seed!StartSeed
    <2>1. PICK q : q = [step |-> "fixture", id |-> SeedId, next |-> 1]
        OBVIOUS
    <2>2. seeder' = q /\ runs' = runs + 1 /\ statuses' = statuses
        BY <1>4, <2>1 DEF Seed!StartSeed, Seed!SeedLoop, Seed!database, Seed!rows
    <2>3. \A i \in Ids, p \in 1..4 : statuses[i][p] \in Nat
        BY DEF StatusesCounted
    <2>4. \A i \in Ids, p \in 1..4 : statuses[i][p] <= runs + 1 /\ statuses[i][p] <= runs + 1 + 1
        BY <1>1, <2>3 DEF StatusesCounted
    <2>5. seeder'.step = "fixture"
        BY <2>1, <2>2
    <2> QED
        BY <1>1, <2>2, <2>4, <2>5 DEF StatusesCounted
<1>5. ASSUME UNCHANGED <<statuses, runs>>, seeder # Seed!Idle,
             \/ /\ seeder.step \in {"fixture", "project", "counter", "lead", "workflow"}
                /\ seeder'.step = "status" => seeder'.next = 1
             \/ seeder'.step \in {"idle", "items", "item", "setCounter"}
      PROVE  StatusesCounted'
    BY <1>5 DEF StatusesCounted
<1>6. CASE Seed!StopSeed
    <2>1. UNCHANGED <<statuses, runs>> /\ seeder # Seed!Idle /\ seeder' = Seed!Idle
        BY <1>6 DEF Seed!StopSeed, Seed!database, Seed!rows
    <2> QED
        BY <1>5, <2>1 DEF Seed!Idle
<1>7. CASE Seed!SeedFixture \/ Seed!SeedProject \/ Seed!SeedCounter \/ Seed!SeedLead \/ Seed!SeedWorkflow
    <2>1. UNCHANGED <<statuses, runs>>
          /\ seeder.step \in {"fixture", "project", "counter", "lead", "workflow"}
        BY <1>7 DEF Seed!SeedFixture, Seed!SeedProject, Seed!SeedCounter, Seed!SeedLead, Seed!SeedWorkflow,
           Seed!database, Seed!rows, Seed!SeedAt
    <2>2. seeder'.step = "status" => seeder'.next = 1
        <3>1. CASE Seed!SeedFixture
            <4>1. PICK q, r : /\ q = [step |-> "project", id |-> SeedId]
                              /\ r = [step |-> "fixture", id |-> SeedId, next |-> seeder.next + 1]
                OBVIOUS
            <4>2. seeder' \in {q, r}
                BY <3>1, <4>1 DEF Seed!SeedFixture, Seed!SeedGoTo, Seed!SeedLoop
            <4> QED
                BY <4>1, <4>2
        <3>2. CASE Seed!SeedProject
            <4>1. \E i : seeder' = [step |-> "counter", id |-> i]
                BY <3>2 DEF Seed!SeedProject, Seed!SeedGoTo
            <4> QED
                BY <4>1
        <3>3. CASE Seed!SeedCounter
            BY <3>3 DEF Seed!SeedCounter, Seed!SeedGoTo
        <3>4. CASE Seed!SeedLead
            BY <3>4 DEF Seed!SeedLead, Seed!SeedGoTo
        <3>5. CASE Seed!SeedWorkflow
            <4>1. PICK q, r : /\ q = [step |-> "status", id |-> seeder.id, next |-> 1]
                              /\ r = [step |-> "items", id |-> SeedId]
                OBVIOUS
            <4>2. seeder' \in {q, r}
                BY <3>5, <4>1 DEF Seed!SeedWorkflow, Seed!SeedGoTo, Seed!SeedLoop
            <4> QED
                BY <4>1, <4>2
        <3> QED
            BY <1>7, <3>1, <3>2, <3>3, <3>4, <3>5
    <2> QED
        BY <1>5, <2>1, <2>2 DEF Seed!Idle
<1>8. CASE Seed!SeedItemsOf \/ Seed!SeedItem \/ Seed!SeedSetCounter
    <2>1. UNCHANGED <<statuses, runs>> /\ seeder.step \in {"items", "item", "setCounter"}
        BY <1>8 DEF Seed!SeedItemsOf, Seed!SeedItem, Seed!SeedSetCounter, Seed!database, Seed!rows, Seed!SeedAt
    <2>2. \/ seeder' = Seed!Idle
          \/ \E n : seeder' = [step |-> "item", id |-> SeedId, next |-> n]
          \/ seeder' = [step |-> "setCounter", id |-> SeedId]
        BY Zenon, <1>8 DEF Seed!SeedItemsOf, Seed!SeedItem, Seed!SeedSetCounter, Seed!EndSeed,
           Seed!SeedGoTo, Seed!SeedLoop
    <2>3. seeder'.step \in {"idle", "item", "setCounter"}
        BY <2>2 DEF Seed!Idle
    <2> QED
        BY <1>5, <2>1, <2>3 DEF Seed!Idle
<1>9. ASSUME NEW c \in Writers, Seed!CommitProject(c)
      PROVE  StatusesCounted'
    <2>1. PICK d, one : d = request[c].id /\ one = [p \in 1..4 |-> 1]
        OBVIOUS
    <2>2. statuses' = [statuses EXCEPT ![d] = one] /\ UNCHANGED <<seeder, runs>>
        BY <1>9, <2>1, SeedConstants DEF Seed!CommitProject, Seed!seed
    <2>3. one \in [1..4 -> Nat] /\ \A p \in 1..4 : one[p] = 1
        BY <2>1
    <2>4. statuses' \in [Ids -> [1..4 -> Nat]]
        BY <2>2, <2>3 DEF StatusesCounted
    <2>5. \A i \in Ids, p \in 1..4 : statuses'[i][p] \in {statuses[i][p], 1}
        BY <2>2, <2>3 DEF StatusesCounted
    <2>6. \A i \in Ids, p \in 1..4 : statuses'[i][p] <= runs + 1
        BY <1>1, <2>5 DEF StatusesCounted
    <2>7. ASSUME seeder # Seed!Idle, NEW i \in Ids, NEW p \in 1..4, statuses[i][p] <= runs
          PROVE  statuses'[i][p] <= runs
        BY <1>1, <2>5, <2>7 DEF StatusesCounted
    <2>8. seeder.step \in {"fixture", "project", "counter", "lead", "workflow", "status"} => seeder # Seed!Idle
        BY DEF Seed!Idle
    <2>9. seeder.step = "status" => seeder.next \in 1..4
        BY DEF SeedInv, SeedTypes, Seeders, Seed!Idle
    <2>10. seeder.step \in {"fixture", "project", "counter", "lead", "workflow"}
           => \A i \in Ids, p \in 1..4 : statuses'[i][p] <= runs
        BY <2>7, <2>8 DEF StatusesCounted
    <2>11. seeder.step = "status" => \A i \in Ids, p \in seeder.next..4 : statuses'[i][p] <= runs
        BY <2>7, <2>8, <2>9 DEF StatusesCounted
    <2> QED
        BY <2>2, <2>4, <2>6, <2>10, <2>11 DEF StatusesCounted
<1>10. ASSUME NEW c \in Writers,
              \/ Seed!InsertItem(c) \/ Seed!Abort(c)
              \/ \E i \in Ids : Seed!CreateProject(c, i) \/ Seed!TakeNumber(c, i)
       PROVE  StatusesCounted'
    BY <1>3, <1>10 DEF Seed!InsertItem, Seed!Abort, Seed!CreateProject, Seed!TakeNumber,
       Seed!database, Seed!rows, Seed!seed
<1>11. CASE (\E f \in Seed!ToSet(Seed!Fixtures) : Seed!Change(f)) \/ (\E i \in Ids : Seed!DeleteProject(i))
    BY <1>3, <1>11 DEF Seed!Change, Seed!DeleteProject, Seed!rows, Seed!seed
<1> QED
    BY <1>2, <1>4, <1>6, <1>7, <1>8, <1>9, <1>10, <1>11 DEF Seed!Next, Seed!SeedStep

(* The narrow types of the invariants are within the ones of the module.   *)
LEMMA SeedTyping ==
    ASSUME SeedInv, SeedBounds
    PROVE  Seed!TypeOK
<1>1. statuses \in [Ids -> [Seed!Positions -> 0..MaxRuns + 1]]
    <2> SUFFICES ASSUME NEW i \in Ids, NEW p \in 1..4
                 PROVE  statuses[i][p] \in 0..MaxRuns + 1
        BY SeedConstants DEF SeedBounds, StatusesCounted
    <2>1. statuses[i][p] \in Nat /\ statuses[i][p] <= runs + 1 /\ runs \in 0..MaxRuns
        BY DEF SeedBounds, StatusesCounted, SeedRowTypes
    <2> QED
        BY <2>1, SeedNumbers
<1>2. seeder \in Seed!Seeders
    <2>1. /\ 1..2 \subseteq 1..(MaxNumber + 4) /\ 1..4 \subseteq 1..(MaxNumber + 4)
          /\ 1..SeedItems \subseteq 1..(MaxNumber + 4) /\ SeedId \in Ids
        BY SeedConstants, SeedNumbers
    <2>2. seeder \in Seeders
        BY DEF SeedInv, SeedTypes
    <2> QED
        BY <2>1, <2>2 DEF Seeders, Seed!Seeders
<1> QED
    BY <1>1, <1>2, SeedConstants DEF SeedInv, SeedBounds, SeedRowTypes, Seed!TypeOK

(* The projects, their rows and the seed are what they are declared to be. *)
LEMMA SeedTyped == Spec => [](on = "seed" => Seed!TypeOK)
<1> DEFINE Inv == on = "seed" => SeedBounds
<1>1. Init => Inv
    <2> SUFFICES ASSUME Seed!Init PROVE SeedBounds
        BY DEF Init
    <2>1. 0 \in 0..MaxRuns
        BY SeedNumbers
    <2>2. SeedRowTypes
        BY <2>1, SeedConstants, SeedRequestTypes DEF Seed!Init, SeedRowTypes
    <2>3. PICK none : none = [p \in 1..4 |-> 0]
        OBVIOUS
    <2>4. none \in [1..4 -> Nat] /\ \A p \in 1..4 : none[p] = 0
        BY <2>3
    <2>5. statuses = [i \in Ids |-> none] /\ seeder = Seed!Idle /\ runs = 0
        BY <2>3, SeedConstants DEF Seed!Init, Seed!None
    <2>6. StatusesCounted
        BY <2>4, <2>5 DEF StatusesCounted, Seed!Idle
    <2> QED
        BY <2>2, <2>6 DEF SeedBounds
<1>2. (on = "seed" => SeedInv) /\ Inv /\ [Next]_vars => Inv'
    <2> SUFFICES ASSUME SeedInv, SeedBounds, [Next]_vars, on = "seed" PROVE SeedBounds'
        BY ServiceStays
    <2>1. CASE UNCHANGED vars
        BY <2>1 DEF vars, SeedBounds, SeedRowTypes, StatusesCounted
    <2>2. CASE Next
        <3>1. Seed!Next
            BY <2>2 DEF Next
        <3>2. SeedRowTypes'
            BY <3>1, RequestsKeepRowTypes, SeedKeepsRowTypes DEF SeedBounds, Seed!Next
        <3> QED
            BY <3>1, <3>2, StatusesStayCounted DEF SeedBounds
    <2> QED
        BY <2>1, <2>2
<1>3. (on = "seed" => SeedInv) /\ Inv => (on = "seed" => Seed!TypeOK)
    BY SeedTyping
<1> QED
    BY <1>1, <1>2, <1>3, SeedInvariant, PTL DEF Spec

-----------------------------------------------------------------------------
(* Every service keeps to its types                                        *)

(* Rows, requests, locks and counters stay what they are declared to be,   *)
(* in every service: no request carries a field its step does not have,    *)
(* attempts and half windows stay within their limits, hours within what   *)
(* the logs add up to, and a project's statuses within the runs of the     *)
(* seed and its creation.                                                  *)
THEOREM ServicesAreTyped == Spec => []TypeOK
<1>1. (on = "access" => AccessInv) => (on = "access" => Access!TypeOK)
    BY DEF AccessInv
<1>2. (on = "http" => HttpTypes) => (on = "http" => Http!TypeOK)
    BY DEF HttpTypes
<1>3. (on = "preferences" => PreferenceInv) => (on = "preferences" => Preferences!TypeOK)
    BY DEF PreferenceInv
<1>4. (on = "tree" => TreeInv) => (on = "tree" => Tree!TypeOK)
    BY DEF TreeInv
<1>5. (on = "removal" => RemovalTypes) => (on = "removal" => Removal!TypeOK)
    BY DEF RemovalTypes
<1>6. (on = "time" => TimeTypes) => (on = "time" => Time!TypeOK)
    BY DEF TimeTypes
<1>7. (on = "snapshot" => SnapshotInv) => (on = "snapshot" => Snapshot!TypeOK)
    BY DEF SnapshotInv
<1>8. /\ on = "access" => Access!TypeOK
      /\ on = "http" => Http!TypeOK
      /\ on = "email" => Email!TypeOK
      /\ on = "preferences" => Preferences!TypeOK
      /\ on = "order" => Order!TypeOK
      /\ on = "tree" => Tree!TypeOK
      /\ on = "removal" => Removal!TypeOK
      /\ on = "time" => Time!TypeOK
      /\ on = "snapshot" => Snapshot!TypeOK
      /\ on = "seed" => Seed!TypeOK
      => TypeOK
    BY Zenon DEF TypeOK
<1> QED
    BY <1>1, <1>2, <1>3, <1>4, <1>5, <1>6, <1>7, <1>8, AccessInvariant, HttpTyped, EmailTyped,
       PreferenceInvariant, OrderTyped, TreeInvariant, RemovalTyped, TimeTyped, SnapshotInvariant,
       SeedTyped, PTL
=============================================================================
