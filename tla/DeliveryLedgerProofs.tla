------------------------- MODULE DeliveryLedgerProofs -------------------------
(***************************************************************************)
(* The reception path for any number of concurrent deliveries, request     *)
(* identifiers and bodies.  One inductive invariant, LedgerInv, says what  *)
(* the rows of the ledger promise each other and what a handler may assume *)
(* of rows it read earlier; the answers given to the vendor, the receipts  *)
(* and the permanence of packets follow from it.  The row locks are not    *)
(* needed for any of it: the unique keys are.                              *)
(***************************************************************************)
EXTENDS DeliveryLedger, FiniteSetTheorems, TLAPS

\* The ledger's tables and handlers have their shape.
LedgerTables ==
    /\ identity \in [RequestIds -> Deliveries \cup {None}]
    /\ receipt \in [Deliveries -> Receipts \cup {None}]
    /\ packet \in [Received -> Packets \cup {None}]
    /\ seqState \in SequenceStates \cup {None}
    /\ job \in [Received -> JobStates \cup {None}]
    /\ lock \in [Deliveries -> Deliveries \cup {None}]
    /\ handler \in [Deliveries -> Handlers]

\* The frame in body b is a packet, preserved with exactly these bytes.
Backed(b) ==
    /\ SeqOf[b] \in Received
    /\ packet[SeqOf[b]] # None
    /\ SourceBody(SeqOf[b]) = b

\* Its job has left PENDING_QUEUE.
HandedOver(b) ==
    /\ SeqOf[b] \in Received
    /\ job[SeqOf[b]] \in JobStates \ {"PENDING_QUEUE"}

\* A packet row has its source receipt and its job row, which comes with it.
PacketOK(s) ==
    /\ packet[s] # None =>
          /\ receipt[packet[s].source] # None
          /\ SeqOf[receipt[packet[s].source].body] = s
          /\ job[s] \in JobStates
    /\ packet[s] = None => job[s] = None

\* The status of a receipt is backed by the packet and job tables.
ReceiptOK(r) ==
    LET row == receipt[r] IN
    row # None =>
        /\ row.body = handler[r].body
        /\ row.status \in {"ACCEPTED", "DUPLICATE"}
              => row.packet = SeqOf[row.body] /\ Backed(row.body)
        /\ row.status = "ACCEPTED" => packet[row.packet].source = r
        /\ row.status = "CONFLICT" /\ row.reason = "SEQUENCE_CONFLICT"
              => /\ row.packet \in Received /\ packet[row.packet] # None
                 /\ SourceBody(row.packet) # row.body
        /\ row.queue = "QUEUED" => HandedOver(row.body)

\* An identity row names the first receipt of its request.
IdentityOK(q) ==
    identity[q] # None =>
        receipt[identity[q]] # None /\ handler[identity[q]].id = q

\* Another receipt of that request carries other bytes.
RequestOK(d) ==
    receipt[d] # None /\ handler[d].id # None =>
        /\ identity[handler[d].id] # None
        /\ receipt[d].body = receipt[identity[handler[d].id]].body
              => d = identity[handler[d].id]

Working == {"replay", "validate", "lookup", "sequence", "first", "enqueue", "mark"}

\* What a handler may assume.  A receipt row it holds may be stale, but what
\* ACCEPTED and DUPLICATE stand for is permanent, and so is a job that has
\* left PENDING_QUEUE.
HandlerOK(d) ==
    LET h == handler[d] IN
    /\ h.pc # "idle" => h.body \in Bodies
    /\ h.pc # "done" => h.reply = None
    /\ h.pc \in {"idle", "record", "insert"}
          => receipt[d] = None /\ h.held = None /\ h.heldJob = None
    /\ h.pc \in Working => /\ h.receipt \in Deliveries
                           /\ receipt[h.receipt] # None
                           /\ receipt[h.receipt].body = h.body
    /\ h.pc \in {"lookup", "sequence", "first", "enqueue", "mark"}
          => SeqOf[h.body] \in Received
    /\ h.pc \in {"enqueue", "mark"} => Backed(h.body)
    /\ h.held # None /\ h.held.status \in {"ACCEPTED", "DUPLICATE"} => Backed(h.body)
    /\ h.heldJob \notin {None, "PENDING_QUEUE"} => HandedOver(h.body)
    /\ h.reply \in {200, 202} => Backed(h.body) /\ HandedOver(h.body)

\* The inductive invariant.
LedgerInv ==
    /\ LedgerTables
    /\ \A s \in Received : PacketOK(s)
    /\ \A q \in RequestIds : IdentityOK(q)
    /\ \A d \in Deliveries : ReceiptOK(d) /\ RequestOK(d) /\ HandlerOK(d)
-----------------------------------------------------------------------------
(* What a step leaves of the invariant.                                    *)

\* Rows are never taken away: receipts keep their bytes, packets everything, and
\* a job that has left PENDING_QUEUE does not return to it.  Without a packet row
\* nothing happens to its job.
Grows ==
    /\ \A d \in Deliveries : receipt[d] # None =>
          receipt'[d] # None /\ receipt'[d].body = receipt[d].body
    /\ \A s \in Received : packet[s] # None => packet'[s] = packet[s]
    /\ \A s \in Received : job[s] \in JobStates => job'[s] \in JobStates
    /\ \A s \in Received : job[s] \in JobStates \ {"PENDING_QUEUE"}
                              => job'[s] \in JobStates \ {"PENDING_QUEUE"}
    /\ \A s \in Received : packet'[s] = None => job'[s] = job[s]

\* A step that leaves the tables alone is one that takes nothing away.
LEMMA UnchangedGrows ==
    UNCHANGED <<receipt, packet, job>> => Grows
BY DEF Grows

\* The sequence numbers of the session, and the bodies that carry them.
LEMMA ReceivedNumbers ==
    /\ Received \subseteq SequenceNumbers /\ None \notin Received
    /\ \A b \in Bodies : SeqOf[b] # None => SeqOf[b] \in Received
<1>1. SeqOf \in [Bodies -> SequenceNumbers \cup {None}]
  BY LedgerAssumption
<1> QED BY <1>1 DEF Received

\* No row is None.
LEMMA RowsAreRows ==
    /\ None \notin Receipts /\ None \notin Packets /\ None \notin SequenceStates
    /\ None \notin JobStates /\ None \notin Deliveries /\ None \notin RequestIds
BY LedgerRowAssumption, LedgerAssumption

\* What is backed stays backed, and what is handed over stays so.
LEMMA BackedStays ==
    ASSUME LedgerInv, Grows, NEW b
    PROVE  (Backed(b) => Backed(b)') /\ (HandedOver(b) => HandedOver(b)')
<1>1. ASSUME Backed(b) PROVE Backed(b)'
  <2>1. /\ SeqOf[b] \in Received /\ packet[SeqOf[b]] # None
        /\ receipt[packet[SeqOf[b]].source].body = b
    BY <1>1 DEF Backed, SourceBody
  <2>2. packet[SeqOf[b]].source \in Deliveries /\ receipt[packet[SeqOf[b]].source] # None
    BY <2>1 DEF LedgerInv, LedgerTables, PacketOK, Packets
  <2>3. /\ packet'[SeqOf[b]] = packet[SeqOf[b]]
        /\ receipt'[packet[SeqOf[b]].source].body = b
    BY <2>1, <2>2 DEF Grows
  <2> QED BY <2>1, <2>3 DEF Backed, SourceBody
<1>2. ASSUME HandedOver(b) PROVE HandedOver(b)'
  BY <1>2 DEF HandedOver, Grows
<1> QED BY <1>1, <1>2

\* A packet row keeps its promises.
LEMMA PacketFrame ==
    ASSUME LedgerInv, Grows, NEW s \in Received, packet'[s] = packet[s]
    PROVE  PacketOK(s)'
<1>1. PacketOK(s) /\ (packet[s] # None => packet[s].source \in Deliveries)
  BY DEF LedgerInv, LedgerTables, Packets
<1> QED BY <1>1 DEF PacketOK, Grows

\* So does a receipt row.
LEMMA ReceiptFrame ==
    ASSUME LedgerInv, Grows, NEW r \in Deliveries, receipt'[r] = receipt[r],
           receipt[r] # None => handler'[r].body = handler[r].body
    PROVE  ReceiptOK(r)'
<1>1. CASE receipt[r] = None
  BY <1>1 DEF ReceiptOK
<1>2. CASE receipt[r] # None
  <2> DEFINE row == receipt[r]
  <2>1. ReceiptOK(r)
    BY DEF LedgerInv
  <2>2. (Backed(row.body) => Backed(row.body)') /\ (HandedOver(row.body) => HandedOver(row.body)')
    BY BackedStays
  <2>3. row.status \in {"ACCEPTED", "DUPLICATE"}
           => row.packet \in Received /\ packet'[row.packet] = packet[row.packet]
    BY <1>2, <2>1 DEF ReceiptOK, Backed, Grows
  <2>4. ASSUME row.status = "CONFLICT", row.reason = "SEQUENCE_CONFLICT"
        PROVE  /\ row.packet \in Received /\ packet'[row.packet] # None
               /\ SourceBody(row.packet)' # row.body
    <3>1. /\ row.packet \in Received /\ packet[row.packet] # None
          /\ receipt[packet[row.packet].source].body # row.body
      BY <1>2, <2>1, <2>4 DEF ReceiptOK, SourceBody
    <3>2. /\ packet[row.packet].source \in Deliveries
          /\ receipt[packet[row.packet].source] # None
      BY <3>1 DEF LedgerInv, LedgerTables, PacketOK, Packets
    <3>3. packet'[row.packet] = packet[row.packet]
      BY <3>1 DEF Grows
    <3>4. receipt'[packet[row.packet].source].body = receipt[packet[row.packet].source].body
      BY <3>2 DEF Grows
    <3>5. SourceBody(row.packet)' = receipt'[packet'[row.packet].source].body
      BY DEF SourceBody
    <3> QED BY <3>1, <3>3, <3>4, <3>5
  <2>5. receipt'[r] = row
    OBVIOUS
  <2> QED BY <1>2, <2>1, <2>2, <2>3, <2>4 DEF ReceiptOK
<1> QED BY <1>1, <1>2

\* So does a handler that does not move.
LEMMA HandlerFrame ==
    ASSUME LedgerInv, Grows, NEW e \in Deliveries, handler'[e] = handler[e],
           receipt[e] = None => receipt'[e] = None
    PROVE  HandlerOK(e)'
<1>1. HandlerOK(e)
  BY DEF LedgerInv
<1>2. LET b == handler[e].body IN
      (Backed(b) => Backed(b)') /\ (HandedOver(b) => HandedOver(b)')
  BY BackedStays
<1>3. handler[e].receipt \in Deliveries /\ receipt[handler[e].receipt] # None
         => /\ receipt'[handler[e].receipt] # None
            /\ receipt'[handler[e].receipt].body = receipt[handler[e].receipt].body
  BY DEF Grows
<1> QED BY <1>1, <1>2, <1>3 DEF HandlerOK

\* A step of the handler of delivery d keeps the invariant when it takes nothing
\* away, writes rows that keep their promises, enters only its own receipt under
\* its own request, and ends in a proper state.
LEMMA LedgerMoves ==
    ASSUME LedgerInv, NEW d \in Deliveries, LedgerTables', Grows,
           \A e \in Deliveries : e # d => handler'[e] = handler[e],
           \A e \in Deliveries : e # d /\ receipt[e] = None => receipt'[e] = None,
           receipt[d] # None => /\ handler'[d].id = handler[d].id
                                /\ handler'[d].body = handler[d].body,
           \A q \in RequestIds : \/ identity'[q] = identity[q]
                                 \/ /\ identity[q] = None /\ identity'[q] = d
                                    /\ receipt'[d] # None /\ handler'[d].id = q,
           receipt[d] = None /\ receipt'[d] # None => RequestOK(d)',
           \A r \in Deliveries : receipt'[r] = receipt[r] \/ ReceiptOK(r)',
           \A s \in Received : packet'[s] = packet[s] \/ PacketOK(s)',
           HandlerOK(d)'
    PROVE  LedgerInv'
<1>1. \A s \in Received : PacketOK(s)'
  BY PacketFrame
<1>2. \A r \in Deliveries : ReceiptOK(r)'
  BY ReceiptFrame
<1>3. \A e \in Deliveries : HandlerOK(e)'
  BY HandlerFrame
<1>4. \A e \in Deliveries : receipt[e] # None => handler'[e].id = handler[e].id
  OBVIOUS
<1>5. ASSUME NEW q \in RequestIds PROVE IdentityOK(q)'
  <2>1. CASE identity[q] = None
    BY <2>1 DEF IdentityOK
  <2>2. CASE identity[q] # None
    <3>1. /\ identity[q] \in Deliveries /\ receipt[identity[q]] # None
          /\ handler[identity[q]].id = q /\ identity'[q] = identity[q]
      BY <2>2 DEF LedgerInv, LedgerTables, IdentityOK
    <3>2. receipt'[identity[q]] # None /\ handler'[identity[q]].id = q
      BY <1>4, <3>1 DEF Grows
    <3> QED BY <3>1, <3>2 DEF IdentityOK
  <2> QED BY <2>1, <2>2
<1>6. ASSUME NEW e \in Deliveries PROVE RequestOK(e)'
  <2>1. CASE receipt[e] = None
    BY <2>1 DEF RequestOK
  <2>2. CASE receipt[e] # None
    <3> DEFINE q == handler[e].id
    <3>1. SUFFICES ASSUME q # None
                   PROVE  /\ identity'[q] # None
                          /\ receipt'[e].body = receipt'[identity'[q]].body
                                => e = identity'[q]
      BY <1>4, <2>2 DEF RequestOK
    <3>2. q \in RequestIds
      BY <3>1 DEF LedgerInv, LedgerTables, Handlers
    <3>3. identity[q] # None /\ (receipt[e].body = receipt[identity[q]].body => e = identity[q])
      BY <2>2, <3>1 DEF LedgerInv, RequestOK
    <3>4. identity[q] \in Deliveries /\ receipt[identity[q]] # None /\ identity'[q] = identity[q]
      BY <3>2, <3>3 DEF LedgerInv, LedgerTables, IdentityOK
    <3>5. /\ receipt'[e].body = receipt[e].body
          /\ receipt'[identity[q]].body = receipt[identity[q]].body
      BY <2>2, <3>4 DEF Grows
    <3> QED BY <3>3, <3>4, <3>5
  <2> QED BY <2>1, <2>2
<1> QED BY <1>1, <1>2, <1>3, <1>5, <1>6 DEF LedgerInv

\* The same for a step that leaves the tables alone.
LEMMA QuietStep ==
    ASSUME LedgerInv, NEW d \in Deliveries, UNCHANGED tables,
           lock' \in [Deliveries -> Deliveries \cup {None}],
           NEW h \in Handlers, handler' = [handler EXCEPT ![d] = h],
           handler[d].pc # "idle" => h.id = handler[d].id /\ h.body = handler[d].body,
           HandlerOK(d)'
    PROVE  LedgerInv'
<1>1. UNCHANGED <<identity, receipt, packet, seqState, job>>
  BY DEF tables
<1>2. LedgerTables'
  BY <1>1 DEF LedgerInv, LedgerTables
<1>3. handler'[d] = h /\ \A e \in Deliveries : e # d => handler'[e] = handler[e]
  BY DEF LedgerInv, LedgerTables
<1>4. receipt[d] # None => handler[d].pc # "idle"
  BY DEF LedgerInv, HandlerOK
<1> QED BY <1>1, <1>2, <1>3, <1>4, UnchangedGrows, LedgerMoves
-----------------------------------------------------------------------------
(* Steps of a handler.                                                     *)

Pcs == {"idle", "record", "insert", "replay", "validate", "lookup",
        "sequence", "first", "enqueue", "mark", "done"}

Replies == {None, 200, 202, 400, 409, 422, 500, 503}

\* h is handler d after a step within its request.
Continues(d, h) ==
    /\ h \in Handlers /\ handler' = [handler EXCEPT ![d] = h]
    /\ handler'[d] = h
    /\ h.id = handler[d].id /\ h.body = handler[d].body

\* The fields of a handler.
LEMMA HandlerFields ==
    Handlers = [pc : Pcs, id : RequestIds \cup {None}, body : Bodies \cup {None},
                octets : BOOLEAN, receipt : Deliveries \cup {None}, try : {1, 2},
                held : Receipts \cup {None}, heldJob : JobStates \cup {None},
                path : {"new", "duplicate", "resume"}, reply : Replies]
BY DEF Handlers, Pcs, Replies

\* The program counter moves.
LEMMA GoToEffect ==
    ASSUME LedgerInv, NEW d \in Deliveries, NEW p \in Pcs, GoTo(d, p)
    PROVE  \E h \in Handlers :
              /\ Continues(d, h) /\ h.pc = p /\ h.receipt = handler[d].receipt
              /\ h.held = handler[d].held /\ h.heldJob = handler[d].heldJob
              /\ h.reply = handler[d].reply
<1> DEFINE h == [handler[d] EXCEPT !.pc = p]
<1>1. handler \in [Deliveries -> Handlers] /\ handler[d] \in Handlers
  BY DEF LedgerInv, LedgerTables
<1>2. /\ h \in Handlers /\ h.id = handler[d].id /\ h.body = handler[d].body
      /\ h.pc = p /\ h.receipt = handler[d].receipt
      /\ h.held = handler[d].held /\ h.heldJob = handler[d].heldJob
      /\ h.reply = handler[d].reply
  BY <1>1 DEF Handlers, Pcs
<1>3. handler' = [handler EXCEPT ![d] = h]
  BY DEF GoTo
<1> QED BY <1>1, <1>2, <1>3 DEF Continues

\* The handler answers.
LEMMA AnswerEffect ==
    ASSUME LedgerInv, NEW d \in Deliveries, NEW code \in Replies, Answer(d, code)
    PROVE  \E h \in Handlers :
              /\ Continues(d, h) /\ h.pc = "done" /\ h.receipt = handler[d].receipt
              /\ h.held = handler[d].held /\ h.heldJob = handler[d].heldJob
              /\ h.reply = code
<1> DEFINE h == [handler[d] EXCEPT !.pc = "done", !.reply = code]
<1>1. handler \in [Deliveries -> Handlers] /\ handler[d] \in Handlers
  BY DEF LedgerInv, LedgerTables
<1>2. /\ h \in Handlers /\ h.id = handler[d].id /\ h.body = handler[d].body
      /\ h.pc = "done" /\ h.receipt = handler[d].receipt
      /\ h.held = handler[d].held /\ h.heldJob = handler[d].heldJob
      /\ h.reply = code
  <2>1. "done" \in Pcs
    BY DEF Pcs
  <2> QED BY <1>1, <2>1, HandlerFields
<1>3. handler' = [handler EXCEPT ![d] = h]
  BY <1>1 DEF Answer
<1> QED BY <1>1, <1>2, <1>3 DEF Continues

\* A handler begins to queue the job.
LEMMA PathEffect ==
    ASSUME LedgerInv, NEW d \in Deliveries, NEW way \in {"new", "duplicate", "resume"},
           handler' = [handler EXCEPT ![d].pc = "enqueue", ![d].path = way]
    PROVE  \E h \in Handlers :
              /\ Continues(d, h) /\ h.pc = "enqueue" /\ h.receipt = handler[d].receipt
              /\ h.held = handler[d].held /\ h.heldJob = handler[d].heldJob
              /\ h.reply = handler[d].reply
<1> DEFINE h == [handler[d] EXCEPT !.pc = "enqueue", !.path = way]
<1>1. handler \in [Deliveries -> Handlers] /\ handler[d] \in Handlers
  BY DEF LedgerInv, LedgerTables
<1>2. /\ h \in Handlers /\ h.id = handler[d].id /\ h.body = handler[d].body
      /\ h.pc = "enqueue" /\ h.receipt = handler[d].receipt
      /\ h.held = handler[d].held /\ h.heldJob = handler[d].heldJob
      /\ h.reply = handler[d].reply
  <2>1. "enqueue" \in Pcs
    BY DEF Pcs
  <2> QED BY <1>1, <2>1, HandlerFields
<1>3. handler' = [handler EXCEPT ![d] = h]
  BY <1>1
<1> QED BY <1>1, <1>2, <1>3 DEF Continues

\* A handler begins a try of a transaction, with the receipt row it holds.
Tries(d, p, t, row) ==
    handler' = [handler EXCEPT ![d].pc = p, ![d].try = t, ![d].held = row]

\* What that leaves of the handler.
LEMMA HeldEffect ==
    ASSUME LedgerInv, NEW d \in Deliveries, NEW p \in Pcs, NEW t \in {1, 2},
           NEW row \in Receipts \cup {None},
           Tries(d, p, t, row)
    PROVE  \E h \in Handlers :
              /\ Continues(d, h) /\ h.pc = p /\ h.receipt = handler[d].receipt
              /\ h.held = row /\ h.heldJob = handler[d].heldJob
              /\ h.reply = handler[d].reply
<1> DEFINE h == [handler[d] EXCEPT !.pc = p, !.try = t, !.held = row]
<1>1. handler \in [Deliveries -> Handlers] /\ handler[d] \in Handlers
  BY DEF LedgerInv, LedgerTables
<1>2. /\ h \in Handlers /\ h.id = handler[d].id /\ h.body = handler[d].body
      /\ h.pc = p /\ h.receipt = handler[d].receipt
      /\ h.held = row /\ h.heldJob = handler[d].heldJob
      /\ h.reply = handler[d].reply
  BY <1>1, HandlerFields
<1>3. handler' = [handler EXCEPT ![d] = h]
  BY <1>1 DEF Tries
<1> QED BY <1>1, <1>2, <1>3 DEF Continues

\* A pending replay holds its job row.
LEMMA ResumeEffect ==
    ASSUME LedgerInv, NEW d \in Deliveries, NEW state \in JobStates \cup {None},
           handler' = [handler EXCEPT ![d].pc = "enqueue", ![d].path = "resume",
                                      ![d].heldJob = state]
    PROVE  \E h \in Handlers :
              /\ Continues(d, h) /\ h.pc = "enqueue" /\ h.receipt = handler[d].receipt
              /\ h.held = handler[d].held /\ h.heldJob = state
              /\ h.reply = handler[d].reply
<1> DEFINE h == [handler[d] EXCEPT !.pc = "enqueue", !.path = "resume",
                                   !.heldJob = state]
<1>1. handler \in [Deliveries -> Handlers] /\ handler[d] \in Handlers
  BY DEF LedgerInv, LedgerTables
<1>2. /\ h \in Handlers /\ h.id = handler[d].id /\ h.body = handler[d].body
      /\ h.pc = "enqueue" /\ h.receipt = handler[d].receipt
      /\ h.held = handler[d].held /\ h.heldJob = state
      /\ h.reply = handler[d].reply
  <2>1. "enqueue" \in Pcs
    BY DEF Pcs
  <2> QED BY <1>1, <2>1, HandlerFields
<1>3. handler' = [handler EXCEPT ![d] = h]
  BY <1>1
<1> QED BY <1>1, <1>2, <1>3 DEF Continues

\* A handler within its request is in a proper state after a step.
LEMMA Onward ==
    ASSUME LedgerInv, Grows, NEW d \in Deliveries, NEW h, Continues(d, h),
           handler[d].pc # "idle", h.pc \notin {"idle", "record", "insert"},
           h.pc # "done" => h.reply = None,
           \/ h.held \in {None, handler[d].held}
           \/ h.held.status \in {"ACCEPTED", "DUPLICATE"} => Backed(h.body)',
           \/ h.heldJob = handler[d].heldJob
           \/ h.heldJob \notin {None, "PENDING_QUEUE"} => HandedOver(h.body)',
           h.pc \in Working => handler[d].pc \in Working /\ h.receipt = handler[d].receipt,
           h.pc \in {"lookup", "sequence", "first", "enqueue", "mark"}
              => SeqOf[h.body] \in Received,
           h.pc \in {"enqueue", "mark"} => Backed(h.body)',
           h.reply \in {200, 202} => Backed(h.body)' /\ HandedOver(h.body)'
    PROVE  HandlerOK(d)'
<1>1. HandlerOK(d) /\ handler'[d] = h /\ h.body = handler[d].body
  BY DEF LedgerInv, Continues
<1>2. (Backed(h.body) => Backed(h.body)') /\ (HandedOver(h.body) => HandedOver(h.body)')
  BY BackedStays
<1>3. h.pc \in Working => /\ h.receipt \in Deliveries
                          /\ receipt'[h.receipt] # None
                          /\ receipt'[h.receipt].body = h.body
  <2>1. h.pc \in Working => /\ h.receipt \in Deliveries
                            /\ receipt[h.receipt] # None
                            /\ receipt[h.receipt].body = h.body
    BY <1>1 DEF HandlerOK
  <2> QED BY <2>1 DEF Grows
<1>4. /\ h.held # None /\ h.held.status \in {"ACCEPTED", "DUPLICATE"} => Backed(h.body)'
      /\ h.heldJob \notin {None, "PENDING_QUEUE"} => HandedOver(h.body)'
  BY <1>1, <1>2 DEF HandlerOK
<1>5. h.body \in Bodies
  BY <1>1 DEF HandlerOK
<1> QED BY <1>1, <1>2, <1>3, <1>4, <1>5 DEF HandlerOK, Backed, HandedOver, SourceBody

\* A handler that answers without a success code and leaves the tables alone.
LEMMA QuietAnswer ==
    ASSUME LedgerInv, NEW d \in Deliveries, UNCHANGED tables,
           lock' \in [Deliveries -> Deliveries \cup {None}],
           handler[d].pc # "idle",
           NEW code \in Replies, code \notin {200, 202}, Answer(d, code)
    PROVE  LedgerInv'
<1>1. PICK h \in Handlers :
         /\ Continues(d, h) /\ h.pc = "done" /\ h.receipt = handler[d].receipt
         /\ h.held = handler[d].held /\ h.heldJob = handler[d].heldJob
         /\ h.reply = code
  BY AnswerEffect
<1>2. Grows
  BY UnchangedGrows DEF tables
<1>3. HandlerOK(d)'
  BY <1>1, <1>2, Onward DEF Working
<1> QED BY <1>1, <1>3, QuietStep DEF Continues

\* The arrival, the identity lookup and the inserts of record_delivery.
LEMMA RecordKeeps ==
    ASSUME LedgerInv, NEW d \in Deliveries, Arrive(d) \/ RecordLookup(d) \/ RecordInsert(d)
    PROVE  LedgerInv'
<1>1. /\ LedgerTables /\ HandlerOK(d) /\ handler \in [Deliveries -> Handlers]
      /\ handler[d] \in Handlers /\ receipt \in [Deliveries -> Receipts \cup {None}]
      /\ identity \in [RequestIds -> Deliveries \cup {None}]
      /\ lock \in [Deliveries -> Deliveries \cup {None}]
  BY DEF LedgerInv, LedgerTables
<1>2. /\ handler[d].pc \in {"idle", "record", "insert"} /\ handler[d].reply = None
      /\ receipt[d] = None /\ handler[d].held = None /\ handler[d].heldJob = None
      /\ handler[d].pc # "idle" => handler[d].body \in Bodies
  BY <1>1 DEF Arrive, RecordLookup, RecordInsert, At, HandlerOK
<1>3. UNCHANGED <<packet, seqState, job, lock>>
  BY DEF Arrive, RecordLookup, RecordInsert, tables
<1>4. {"idle", "record", "insert", "replay", "validate", "done"} \subseteq Pcs
      /\ {409, 503} \subseteq Replies
  BY DEF Pcs, Replies
<1>5. None \notin {200, 202} /\ "insert" \notin Working /\ "record" \notin Working
  BY ModulusAssumption DEF Working
<1>6. CASE Arrive(d)
  <2>1. PICK q \in RequestIds \cup {None}, b \in Bodies, octets \in ContentTypes :
           handler' = [handler EXCEPT ![d].pc = "record", ![d].id = q,
                                      ![d].body = b, ![d].octets = octets]
    BY <1>6 DEF Arrive
  <2> DEFINE h == [handler[d] EXCEPT !.pc = "record", !.id = q, !.body = b,
                                     !.octets = octets]
  <2>2. octets \in BOOLEAN
    BY LedgerAssumption
  <2>3. /\ h \in Handlers /\ h.pc = "record" /\ h.body = b /\ h.reply = None
        /\ h.held = None /\ h.heldJob = None
    <3>1. "record" \in Pcs
      BY DEF Pcs
    <3>2. /\ h \in Handlers /\ h.pc = "record" /\ h.body = b
          /\ h.reply = handler[d].reply
          /\ h.held = handler[d].held /\ h.heldJob = handler[d].heldJob
      BY <1>1, <2>2, <3>1, HandlerFields
    <3> HIDE DEF h
    <3> QED BY <1>2, <3>2
  <2>4. handler' = [handler EXCEPT ![d] = h]
    BY <1>1, <2>1
  <2> HIDE DEF h
  <2>5. handler'[d] = h /\ handler[d].pc = "idle" /\ UNCHANGED tables
    BY <1>1, <1>6, <2>4 DEF Arrive, At
  <2>6. HandlerOK(d)'
    BY <1>2, <1>5, <2>3, <2>5 DEF HandlerOK, tables
  <2> QED BY <1>1, <1>3, <2>3, <2>4, <2>5, <2>6, QuietStep
<1>7. CASE RecordLookup(d) /\ GoTo(d, "insert") /\ UNCHANGED receipt
  <2>1. PICK h \in Handlers :
           /\ Continues(d, h) /\ h.pc = "insert"
           /\ h.held = None /\ h.heldJob = None /\ h.reply = None
    BY <1>2, <1>4, <1>7, GoToEffect
  <2>2. handler[d].pc = "record" /\ UNCHANGED tables
    BY <1>7 DEF RecordLookup, At, tables
  <2>3. HandlerOK(d)'
    BY <1>2, <1>5, <2>1, <2>2 DEF HandlerOK, Continues, tables
  <2> QED BY <1>1, <1>3, <2>1, <2>2, <2>3, QuietStep DEF Continues
<1>8. ASSUME RecordLookup(d), ~ (GoTo(d, "insert") /\ UNCHANGED receipt)
      PROVE  LedgerInv'
  <2> DEFINE q == handler[d].id
             first == identity[q]
  <2>1. /\ handler[d].pc = "record" /\ q # None /\ first # None
        /\ UNCHANGED identity
        /\ \/ /\ receipt[first].body = handler[d].body
              /\ handler' = [handler EXCEPT ![d].pc = "replay", ![d].receipt = first]
              /\ UNCHANGED receipt
           \/ /\ receipt[first].body # handler[d].body
              /\ receipt' = [receipt EXCEPT ![d] =
                    NewReceipt(handler[d].body, "CONFLICT", "REQUEST_ID_REUSED", first)]
              /\ Answer(d, 409)
    BY <1>8 DEF RecordLookup, At
  <2>2. q \in RequestIds /\ first \in Deliveries /\ receipt[first] # None
    BY <1>1, <2>1, HandlerFields DEF LedgerInv, IdentityOK
  <2>3. CASE UNCHANGED receipt
    <3> DEFINE h == [handler[d] EXCEPT !.pc = "replay", !.receipt = first]
    <3>1. /\ receipt[first].body = handler[d].body
          /\ handler' = [handler EXCEPT ![d].pc = "replay", ![d].receipt = first]
      <4>1. ASSUME receipt' = [receipt EXCEPT ![d] =
                     NewReceipt(handler[d].body, "CONFLICT", "REQUEST_ID_REUSED", first)]
            PROVE  FALSE
        <5>1. receipt'[d] = NewReceipt(handler[d].body, "CONFLICT", "REQUEST_ID_REUSED", first)
          BY <1>1, <4>1
        <5>2. receipt'[d] \in Receipts
          BY <1>2, <2>1, <2>2, <5>1 DEF NewReceipt, Receipts
        <5> QED BY <1>2, <2>3, <5>2, RowsAreRows
      <4> QED BY <2>1, <4>1
    <3>2. /\ h \in Handlers /\ h.pc = "replay" /\ h.receipt = first
          /\ h.body = handler[d].body /\ h.id = handler[d].id
          /\ h.held = None /\ h.heldJob = None /\ h.reply = None
      <4>1. "replay" \in Pcs
        BY DEF Pcs
      <4>2. /\ h \in Handlers /\ h.pc = "replay" /\ h.receipt = first
            /\ h.body = handler[d].body /\ h.id = handler[d].id
            /\ h.reply = handler[d].reply
            /\ h.held = handler[d].held /\ h.heldJob = handler[d].heldJob
        BY <1>1, <2>2, <4>1, HandlerFields
      <4> HIDE DEF h
      <4> QED BY <1>2, <4>2
    <3>3. handler' = [handler EXCEPT ![d] = h]
      BY <1>1, <3>1
    <3> HIDE DEF h, first
    <3>4. handler'[d] = h /\ UNCHANGED tables
      BY <1>1, <1>3, <2>1, <2>3, <3>3 DEF tables
    <3>5. HandlerOK(d)'
      BY <1>2, <1>5, <2>1, <2>2, <2>3, <3>1, <3>2, <3>4 DEF HandlerOK
    <3> QED BY <1>1, <1>3, <3>2, <3>3, <3>4, <3>5, QuietStep
  <2>4. CASE /\ receipt[first].body # handler[d].body
             /\ receipt' = [receipt EXCEPT ![d] =
                    NewReceipt(handler[d].body, "CONFLICT", "REQUEST_ID_REUSED", first)]
             /\ Answer(d, 409)
    <3> DEFINE row == NewReceipt(handler[d].body, "CONFLICT", "REQUEST_ID_REUSED", first)
    <3>1. /\ row \in Receipts /\ row.body = handler[d].body /\ row.status = "CONFLICT"
          /\ row.reason = "REQUEST_ID_REUSED" /\ row.queue = "NOT_APPLICABLE"
      BY <1>2, <2>1, <2>2 DEF NewReceipt, Receipts
    <3>2. PICK h \in Handlers :
             /\ Continues(d, h) /\ h.pc = "done" /\ h.receipt = handler[d].receipt
             /\ h.held = None /\ h.heldJob = None /\ h.reply = 409
      BY <1>2, <1>4, <2>4, AnswerEffect
    <3> HIDE DEF row
    <3>3. /\ receipt' \in [Deliveries -> Receipts \cup {None}] /\ receipt'[d] = row
          /\ \A e \in Deliveries : e # d => receipt'[e] = receipt[e]
      BY <1>1, <2>4, <3>1 DEF row
    <3>4. Grows
      BY <1>2, <1>3, <3>3 DEF Grows
    <3>5. /\ handler' \in [Deliveries -> Handlers] /\ handler'[d] = h
          /\ h.id = q /\ h.body = handler[d].body
          /\ \A e \in Deliveries : e # d => handler'[e] = handler[e]
      BY <1>1, <3>2 DEF Continues
    <3>6. LedgerTables'
      BY <1>1, <1>3, <2>1, <3>3, <3>5 DEF LedgerTables
    <3>7. ReceiptOK(d)'
      BY <3>1, <3>3, <3>5 DEF ReceiptOK
    <3>8. RequestOK(d)'
      <4>1. first # d
        BY <1>2, <2>2
      <4>2. identity'[handler'[d].id] = first /\ receipt'[first].body = receipt[first].body
        BY <2>1, <2>2, <3>3, <3>5, <4>1
      <4> QED BY <2>1, <2>4, <3>1, <3>3, <4>2 DEF RequestOK
    <3>9. HandlerOK(d)'
      BY <1>2, <2>1, <3>2, <3>4, <3>5, Onward DEF Working
    <3> QED BY <1>2, <1>3, <2>1, <3>3, <3>4, <3>5, <3>6, <3>7, <3>8, <3>9, LedgerMoves
  <2> QED BY <2>1, <2>3, <2>4
<1>9. CASE RecordInsert(d)
  <2> DEFINE q == handler[d].id
  <2>1. handler[d].pc = "insert" /\ q \in RequestIds \cup {None}
    BY <1>1, <1>9, HandlerFields DEF RecordInsert, At
  <2>2. CASE q # None /\ identity[q] # None
    <3>1. UNCHANGED tables
      BY <1>3, <1>9, <2>2 DEF RecordInsert, tables
    <3>2. CASE Answer(d, 503)
      BY <1>1, <1>3, <1>4, <2>1, <3>1, <3>2, QuietAnswer
    <3>3. CASE handler' = [handler EXCEPT ![d].pc = "record", ![d].try = 2]
      <4> DEFINE h == [handler[d] EXCEPT !.pc = "record", !.try = 2]
      <4>1. /\ h \in Handlers /\ h.pc = "record" /\ h.id = handler[d].id
            /\ h.body = handler[d].body
            /\ h.held = None /\ h.heldJob = None /\ h.reply = None
        <5>1. "record" \in Pcs
          BY DEF Pcs
        <5>2. /\ h \in Handlers /\ h.pc = "record" /\ h.id = handler[d].id
              /\ h.body = handler[d].body /\ h.reply = handler[d].reply
              /\ h.held = handler[d].held /\ h.heldJob = handler[d].heldJob
          BY <1>1, <5>1, HandlerFields
        <5> HIDE DEF h
        <5> QED BY <1>2, <5>2
      <4>2. handler' = [handler EXCEPT ![d] = h]
        BY <1>1, <3>3
      <4> HIDE DEF h
      <4>3. handler'[d] = h
        BY <1>1, <4>2
      <4>4. HandlerOK(d)'
        BY <1>2, <1>5, <2>1, <3>1, <4>1, <4>3 DEF HandlerOK, tables
      <4> QED BY <1>1, <1>3, <3>1, <4>1, <4>2, <4>4, QuietStep
    <3> QED BY <1>9, <2>2, <3>2, <3>3 DEF RecordInsert
  <2>3. CASE ~ (q # None /\ identity[q] # None)
    <3> DEFINE row == NewReceipt(handler[d].body, "PENDING", None, None)
               h == [handler[d] EXCEPT !.pc = "validate", !.receipt = d, !.try = 1]
    <3>1. /\ receipt' = [receipt EXCEPT ![d] = row]
          /\ identity' = [r \in RequestIds |-> IF r = q THEN d ELSE identity[r]]
          /\ handler' = [handler EXCEPT ![d].pc = "validate", ![d].receipt = d, ![d].try = 1]
      BY <1>9, <2>3 DEF RecordInsert
    <3>2. /\ row \in Receipts /\ row.body = handler[d].body /\ row.status = "PENDING"
          /\ row.queue = "NOT_APPLICABLE"
      BY <1>2, <2>1 DEF NewReceipt, Receipts
    <3>3. /\ h \in Handlers /\ h.pc = "validate" /\ h.id = q /\ h.receipt = d
          /\ h.body = handler[d].body
          /\ h.held = None /\ h.heldJob = None /\ h.reply = None
      <4>1. "validate" \in Pcs
        BY DEF Pcs
      <4>2. /\ h \in Handlers /\ h.pc = "validate" /\ h.id = q /\ h.receipt = d
            /\ h.body = handler[d].body /\ h.reply = handler[d].reply
            /\ h.held = handler[d].held /\ h.heldJob = handler[d].heldJob
        BY <1>1, <4>1, HandlerFields
      <4> HIDE DEF h
      <4> QED BY <1>2, <4>2
    <3>4. handler' = [handler EXCEPT ![d] = h]
      BY <1>1, <3>1
    <3> HIDE DEF h, row
    <3>5. /\ handler' \in [Deliveries -> Handlers] /\ handler'[d] = h
          /\ \A e \in Deliveries : e # d => handler'[e] = handler[e]
      BY <1>1, <3>3, <3>4
    <3>6. /\ receipt' \in [Deliveries -> Receipts \cup {None}] /\ receipt'[d] = row
          /\ row # None
          /\ \A e \in Deliveries : e # d => receipt'[e] = receipt[e]
      BY <1>1, <3>1, <3>2, RowsAreRows
    <3>7. Grows
      BY <1>2, <1>3, <3>6 DEF Grows
    <3>8. /\ identity' \in [RequestIds -> Deliveries \cup {None}]
          /\ \A r \in RequestIds : identity'[r] = IF r = q THEN d ELSE identity[r]
      BY <1>1, <3>1
    <3>9. LedgerTables'
      BY <1>1, <1>3, <3>5, <3>6, <3>8 DEF LedgerTables
    <3>10. \A r \in RequestIds : \/ identity'[r] = identity[r]
                                 \/ /\ identity[r] = None /\ identity'[r] = d
                                    /\ receipt'[d] # None /\ handler'[d].id = r
      BY <2>3, <3>3, <3>5, <3>6, <3>8, RowsAreRows
    <3>11. RequestOK(d)'
      <4>1. q # None => identity'[q] = d
        BY <2>1, <3>8
      <4> QED BY <3>3, <3>5, <4>1, RowsAreRows DEF RequestOK
    <3>12. ReceiptOK(d)'
      BY <3>2, <3>3, <3>5, <3>6 DEF ReceiptOK
    <3>13. HandlerOK(d)'
      BY <1>2, <1>5, <2>1, <3>2, <3>3, <3>5, <3>6 DEF HandlerOK
    <3> QED BY <1>2, <1>3, <3>5, <3>6, <3>7, <3>9, <3>10, <3>11, <3>12, <3>13, LedgerMoves
  <2> QED BY <2>2, <2>3
<1> QED BY <1>6, <1>7, <1>8, <1>9

Statuses == {"PENDING", "REJECTED", "ACCEPTED", "DUPLICATE", "CONFLICT"}

Reasons == {None, "INVALID_CONTENT_TYPE", "INVALID_REQUEST_ID", "VALIDATION",
            "REQUEST_ID_REUSED", "SEQUENCE_CONFLICT", "SEQUENCE_STATE_CONFLICT"}

Queues == {"NOT_APPLICABLE", "PENDING_QUEUE", "QUEUED"}

\* The fields of a receipt.
LEMMA ReceiptFields ==
    Receipts = [body : Bodies, status : Statuses, reason : Reasons,
                packet : Received \cup {None}, duplicate_of : Deliveries \cup {None},
                queue : Queues]
BY DEF Receipts, Statuses, Reasons, Queues

\* The handler of d writes the row of r, the receipt it works on.
Writes(d, r, row) ==
    r = handler[d].receipt /\ receipt' = [receipt EXCEPT ![r] = row]

\* A handler writes the row of the receipt it works on.
LEMMA WriteGrows ==
    ASSUME LedgerInv, NEW d \in Deliveries, NEW h \in Handlers, Continues(d, h),
           handler[d].pc \in Working, NEW row \in Receipts, row.body = handler[d].body,
           NEW r, Writes(d, r, row), UNCHANGED <<packet, job>>
    PROVE  /\ Grows
           /\ r \in Deliveries
           /\ receipt' \in [Deliveries -> Receipts \cup {None}]
           /\ receipt'[r] = row
           /\ handler'[r].body = row.body
           /\ \A e \in Deliveries : e # r => receipt'[e] = receipt[e]
           /\ \A e \in Deliveries : receipt[e] = None => receipt'[e] = None
           /\ \A e \in Deliveries : e # d => handler'[e] = handler[e]
<1>1. /\ receipt \in [Deliveries -> Receipts \cup {None}]
      /\ handler \in [Deliveries -> Handlers]
  BY DEF LedgerInv, LedgerTables
<1>2. r = handler[d].receipt /\ receipt' = [receipt EXCEPT ![r] = row]
  BY DEF Writes
<1>3. r \in Deliveries /\ receipt[r] # None /\ receipt[r].body = row.body
  BY <1>2 DEF LedgerInv, HandlerOK
<1>4. /\ receipt' \in [Deliveries -> Receipts \cup {None}] /\ receipt'[r] = row
      /\ \A e \in Deliveries : e # r => receipt'[e] = receipt[e]
  BY <1>1, <1>2, <1>3
<1>5. row # None
  BY RowsAreRows
<1>6. Grows
  BY <1>3, <1>4, <1>5 DEF Grows
<1>7. /\ \A e \in Deliveries : handler'[e].body = handler[e].body
      /\ \A e \in Deliveries : e # d => handler'[e] = handler[e]
  BY <1>1 DEF Continues
<1>8. handler[r].body = row.body
  BY <1>3 DEF LedgerInv, ReceiptOK
<1> QED BY <1>2, <1>3, <1>4, <1>6, <1>7, <1>8

\* Such a step keeps the invariant when the row and the handler are proper.
LEMMA WriteKeeps ==
    ASSUME LedgerInv, NEW d \in Deliveries, NEW h \in Handlers, Continues(d, h),
           handler[d].pc \in Working, NEW row \in Receipts, row.body = handler[d].body,
           NEW r, Writes(d, r, row), UNCHANGED <<identity, packet, seqState, job>>,
           lock' \in [Deliveries -> Deliveries \cup {None}],
           ReceiptOK(r)', HandlerOK(d)'
    PROVE  LedgerInv'
<1>1. /\ Grows
      /\ receipt' \in [Deliveries -> Receipts \cup {None}]
      /\ \A e \in Deliveries : e # r => receipt'[e] = receipt[e]
      /\ \A e \in Deliveries : receipt[e] = None => receipt'[e] = None
      /\ \A e \in Deliveries : e # d => handler'[e] = handler[e]
  BY WriteGrows
<1>2. handler' \in [Deliveries -> Handlers]
  BY DEF LedgerInv, LedgerTables, Continues
<1>3. LedgerTables'
  BY <1>1, <1>2 DEF LedgerInv, LedgerTables
<1>4. handler'[d].id = handler[d].id /\ handler'[d].body = handler[d].body
  BY DEF Continues
<1> QED BY <1>1, <1>3, <1>4, LedgerMoves

\* reject_delivery.
LEMMA RejectKeeps ==
    ASSUME LedgerInv, NEW d \in Deliveries, At(d, "validate"),
           NEW reason \in {"INVALID_CONTENT_TYPE", "INVALID_REQUEST_ID", "VALIDATION"},
           NEW code \in {400, 422}, RejectDelivery(d, reason, code)
    PROVE  LedgerInv'
<1>1. /\ HandlerOK(d) /\ lock' \in [Deliveries -> Deliveries \cup {None}]
      /\ receipt \in [Deliveries -> Receipts \cup {None}]
      /\ UNCHANGED <<identity, packet, seqState, job, lock>>
  BY DEF LedgerInv, LedgerTables, RejectDelivery
<1>2. handler[d].pc = "validate" /\ handler[d].pc \in Working
  BY DEF At, Working
<1>3. {400, 422, 500} \subseteq Replies /\ code \notin {200, 202}
  BY DEF Replies
<1>4. CASE Seen(d).status = "PENDING"
  <2>1. PICK r : r = handler[d].receipt
    OBVIOUS
  <2>2. /\ r \in Deliveries /\ receipt[r] # None /\ receipt[r] \in Receipts
        /\ receipt[r].body = handler[d].body
    BY <1>1, <1>2, <2>1 DEF HandlerOK
  <2>3. /\ Answer(d, code)
        /\ receipt' = [receipt EXCEPT ![r] =
               [receipt[r] EXCEPT !.status = "REJECTED", !.reason = reason]]
    <3>1. /\ Answer(d, code)
          /\ receipt' = [receipt EXCEPT ![r].status = "REJECTED", ![r].reason = reason]
      BY <1>4, <2>1 DEF RejectDelivery
    <3>2. DOMAIN receipt = Deliveries /\ r \in Deliveries
      BY <1>1, <2>2
    <3>3. [receipt EXCEPT ![r].status = "REJECTED", ![r].reason = reason]
             = [receipt EXCEPT ![r] =
                  [receipt[r] EXCEPT !.status = "REJECTED", !.reason = reason]]
      BY <3>2
    <3> QED BY <3>1, <3>3
  <2>4. PICK row \in Receipts :
           /\ receipt' = [receipt EXCEPT ![r] = row]
           /\ row.body = receipt[r].body /\ row.status = "REJECTED"
           /\ row.queue = receipt[r].queue
    <3> DEFINE row == [receipt[r] EXCEPT !.status = "REJECTED", !.reason = reason]
    <3>1. "REJECTED" \in Statuses /\ reason \in Reasons
      BY DEF Statuses, Reasons
    <3>2. /\ row \in Receipts /\ row.body = receipt[r].body
          /\ row.status = "REJECTED" /\ row.queue = receipt[r].queue
      BY <2>2, <3>1, ReceiptFields
    <3> QED BY <2>3, <3>2
  <2>5. PICK h \in Handlers :
           /\ Continues(d, h) /\ h.pc = "done" /\ h.receipt = handler[d].receipt
           /\ h.held = handler[d].held /\ h.heldJob = handler[d].heldJob
           /\ h.reply = code
    BY <1>3, <2>3, AnswerEffect
  <2>6. Writes(d, r, row)
    BY <2>1, <2>4 DEF Writes
  <2>7. Grows /\ receipt'[r] = row /\ handler'[r].body = row.body
    BY <1>1, <1>2, <2>2, <2>4, <2>5, <2>6, WriteGrows
  <2>8. ReceiptOK(r)'
    <3>1. ReceiptOK(r)
      BY <2>2 DEF LedgerInv
    <3>2. row.queue = "QUEUED" => HandedOver(row.body)
      BY <2>2, <2>4, <3>1 DEF ReceiptOK
    <3>3. HandedOver(row.body) => HandedOver(row.body)'
      BY <2>7, BackedStays
    <3> QED BY <2>4, <2>7, <3>2, <3>3 DEF ReceiptOK
  <2>9. HandlerOK(d)'
    BY <1>2, <1>3, <2>5, <2>7, Onward DEF Working
  <2> QED BY <1>1, <1>2, <2>2, <2>4, <2>5, <2>6, <2>8, <2>9, WriteKeeps
<1>5. CASE Seen(d).status # "PENDING"
  <2>1. UNCHANGED tables
    BY <1>1, <1>5 DEF RejectDelivery, tables
  <2>2. PICK c : c = IF Seen(d).status = "REJECTED" /\ Seen(d).reason = reason
                     THEN code ELSE 500
    OBVIOUS
  <2>3. Answer(d, c) /\ c \in Replies /\ c \notin {200, 202}
    BY <1>3, <1>5, <2>2 DEF RejectDelivery
  <2> QED BY <1>1, <1>2, <2>1, <2>3, QuietAnswer
<1> QED BY <1>4, <1>5

\* The row a handler works on backs what it says.
LEMMA OwnReceipt ==
    ASSUME LedgerInv, NEW d \in Deliveries, handler[d].pc \in Working
    PROVE  \E r \in Deliveries, b \in Bodies, row \in Receipts :
              /\ r = handler[d].receipt /\ b = handler[d].body /\ row = receipt[r]
              /\ row.body = b /\ ReceiptOK(r)
              /\ row.status \in {"ACCEPTED", "DUPLICATE"} => Backed(b)
              /\ row.queue = "QUEUED" => HandedOver(b)
<1>1. /\ handler[d].receipt \in Deliveries /\ receipt[handler[d].receipt] # None
      /\ receipt[handler[d].receipt].body = handler[d].body
      /\ handler[d].body \in Bodies
  BY DEF LedgerInv, HandlerOK, Working
<1>2. ReceiptOK(handler[d].receipt) /\ receipt[handler[d].receipt] \in Receipts
  BY <1>1 DEF LedgerInv, LedgerTables
<1>3. LET row == receipt[handler[d].receipt] IN
      /\ row.status \in {"ACCEPTED", "DUPLICATE"} => Backed(handler[d].body)
      /\ row.queue = "QUEUED" => HandedOver(handler[d].body)
  BY <1>1, <1>2 DEF ReceiptOK
<1> QED BY <1>1, <1>2, <1>3

\* The packet of a backed body has a job row.
LEMMA BackedHasJob ==
    ASSUME LedgerInv, NEW b, Backed(b)
    PROVE  job[SeqOf[b]] \in JobStates
BY DEF LedgerInv, Backed, PacketOK

\* A handler that repeats a success already reached and leaves the tables alone.
LEMMA QuietSuccess ==
    ASSUME LedgerInv, NEW d \in Deliveries, UNCHANGED tables,
           lock' \in [Deliveries -> Deliveries \cup {None}],
           handler[d].pc # "idle", NEW b, b = handler[d].body,
           Backed(b), HandedOver(b), NEW code \in {200, 202}, Answer(d, code)
    PROVE  LedgerInv'
<1>1. Grows /\ code \in Replies
  BY UnchangedGrows DEF tables, Replies
<1>2. PICK h \in Handlers :
         /\ Continues(d, h) /\ h.pc = "done" /\ h.receipt = handler[d].receipt
         /\ h.held = handler[d].held /\ h.heldJob = handler[d].heldJob
         /\ h.reply = code
  BY <1>1, AnswerEffect
<1>3. Backed(b)' /\ HandedOver(b)' /\ h.body = b
  BY <1>1, <1>2, BackedStays DEF Continues
<1>4. HandlerOK(d)'
  BY <1>1, <1>2, <1>3, Onward DEF Working
<1> QED BY <1>2, <1>4, QuietStep DEF Continues

\* A replay reads its receipt.
LEMMA ReplayKeeps ==
    ASSUME LedgerInv, NEW d \in Deliveries, Replay(d)
    PROVE  LedgerInv'
<1>1. /\ handler[d].pc = "replay" /\ handler[d].pc \in Working /\ UNCHANGED tables
      /\ HandlerOK(d)
  BY DEF Replay, At, Working, LedgerInv
<1>2. lock' \in [Deliveries -> Deliveries \cup {None}] /\ Grows
  BY UnchangedGrows DEF Replay, LedgerInv, LedgerTables, tables
<1>3. PICK r \in Deliveries, b \in Bodies, row \in Receipts :
         /\ r = handler[d].receipt /\ b = handler[d].body /\ row = receipt[r]
         /\ row.status \in {"ACCEPTED", "DUPLICATE"} => Backed(b)
         /\ row.queue = "QUEUED" => HandedOver(b)
  BY <1>1, OwnReceipt
<1>4. 422 \in Replies /\ "validate" \in Pcs /\ None \notin {200, 202}
  BY ModulusAssumption DEF Replies, Pcs
<1>5. CASE Answer(d, 422)
  BY <1>1, <1>2, <1>4, <1>5, QuietAnswer
<1>6. CASE row.status \in {"ACCEPTED", "DUPLICATE"} /\ row.queue = "QUEUED" /\ Answer(d, 200)
  BY <1>1, <1>2, <1>3, <1>6, QuietSuccess
<1>7. CASE handler' = [handler EXCEPT ![d].pc = "validate", ![d].try = 1, ![d].held = row]
  <2>1. PICK h \in Handlers :
           /\ Continues(d, h) /\ h.pc = "validate" /\ h.receipt = handler[d].receipt
           /\ h.held = row /\ h.heldJob = handler[d].heldJob
           /\ h.reply = handler[d].reply
    <3>1. 1 \in {1, 2} /\ row \in Receipts \cup {None}
      OBVIOUS
    <3>2. Tries(d, "validate", 1, row)
      BY <1>7 DEF Tries
    <3> QED BY <1>4, <3>1, <3>2, HeldEffect
  <2>2. h.body = b /\ h.reply = None
    BY <1>1, <1>3, <2>1 DEF HandlerOK, Continues
  <2>3. Backed(b) => Backed(b)'
    BY <1>2, BackedStays
  <2>4. HandlerOK(d)'
    BY <1>1, <1>2, <1>3, <1>4, <2>1, <2>2, <2>3, Onward DEF Working
  <2> QED BY <1>1, <1>2, <2>1, <2>4, QuietStep DEF Continues
<1> QED BY <1>3, <1>5, <1>6, <1>7 DEF Replay

\* The checks before the acceptance transaction.
LEMMA ValidateKeeps ==
    ASSUME LedgerInv, NEW d \in Deliveries, Validate(d)
    PROVE  LedgerInv'
<1>1. /\ At(d, "validate") /\ handler[d].pc = "validate" /\ handler[d].pc \in Working
      /\ HandlerOK(d)
  BY DEF Validate, At, Working, LedgerInv
<1>2. \/ RejectDelivery(d, "INVALID_CONTENT_TYPE", 400)
      \/ RejectDelivery(d, "INVALID_REQUEST_ID", 400)
      \/ RejectDelivery(d, "VALIDATION", 422)
      \/ /\ PendingReplay(d)
         /\ handler' = [handler EXCEPT ![d].pc = "enqueue", ![d].path = "resume",
                                       ![d].heldJob = job[SeqIn(d)]]
         /\ UNCHANGED <<tables, lock>>
      \/ SeqIn(d) # None /\ GoTo(d, "lookup") /\ UNCHANGED <<tables, lock>>
  BY DEF Validate
<1>3. CASE \/ RejectDelivery(d, "INVALID_CONTENT_TYPE", 400)
           \/ RejectDelivery(d, "INVALID_REQUEST_ID", 400)
           \/ RejectDelivery(d, "VALIDATION", 422)
  BY <1>1, <1>3, RejectKeeps
<1>4. PICK r \in Deliveries, b \in Bodies, row \in Receipts :
         /\ r = handler[d].receipt /\ b = handler[d].body /\ row = receipt[r]
         /\ row.status \in {"ACCEPTED", "DUPLICATE"} => Backed(b)
         /\ row.queue = "QUEUED" => HandedOver(b)
  BY <1>1, OwnReceipt
<1>5. "lookup" \in Pcs /\ None \notin {200, 202} /\ handler[d].reply = None
  BY <1>1, ModulusAssumption DEF Pcs, HandlerOK
<1>6. ASSUME UNCHANGED <<tables, lock>>
      PROVE  UNCHANGED tables /\ Grows /\ lock' \in [Deliveries -> Deliveries \cup {None}]
  BY <1>6, UnchangedGrows DEF tables, LedgerInv, LedgerTables
<1>7. CASE /\ PendingReplay(d)
           /\ handler' = [handler EXCEPT ![d].pc = "enqueue", ![d].path = "resume",
                                         ![d].heldJob = job[SeqIn(d)]]
           /\ UNCHANGED <<tables, lock>>
  <2>1. Backed(b) /\ SeqOf[b] \in Received
    BY <1>1, <1>4, <1>7 DEF PendingReplay, HandlerOK, Backed
  <2>2. PICK state \in JobStates : state = job[SeqOf[b]]
    BY <2>1, BackedHasJob
  <2>3. handler' = [handler EXCEPT ![d].pc = "enqueue", ![d].path = "resume",
                                   ![d].heldJob = state]
    BY <1>4, <1>7, <2>2 DEF SeqIn
  <2>4. PICK h \in Handlers :
           /\ Continues(d, h) /\ h.pc = "enqueue" /\ h.receipt = handler[d].receipt
           /\ h.held = handler[d].held /\ h.heldJob = state
           /\ h.reply = handler[d].reply
    <3>1. state \in JobStates \cup {None}
      OBVIOUS
    <3> QED BY <2>3, <3>1, ResumeEffect
  <2>5. h.body = b /\ Backed(b)' /\ (HandedOver(b) => HandedOver(b)')
    BY <1>4, <1>6, <1>7, <2>1, <2>4, BackedStays DEF Continues
  <2>6. h.heldJob # "PENDING_QUEUE" => HandedOver(b)
    BY <2>1, <2>2, <2>4 DEF HandedOver
  <2>7. HandlerOK(d)'
    BY <1>1, <1>5, <1>6, <1>7, <2>1, <2>4, <2>5, <2>6, Onward DEF Working
  <2> QED BY <1>1, <1>6, <1>7, <2>4, <2>7, QuietStep DEF Continues
<1>8. CASE SeqIn(d) # None /\ GoTo(d, "lookup") /\ UNCHANGED <<tables, lock>>
  <2>1. PICK h \in Handlers :
           /\ Continues(d, h) /\ h.pc = "lookup" /\ h.receipt = handler[d].receipt
           /\ h.held = handler[d].held /\ h.heldJob = handler[d].heldJob
           /\ h.reply = handler[d].reply
    BY <1>5, <1>8, GoToEffect
  <2>2. h.body = b /\ SeqOf[b] \in Received
    BY <1>4, <1>8, <2>1, ReceivedNumbers DEF Continues, SeqIn
  <2>3. HandlerOK(d)'
    BY <1>1, <1>5, <1>6, <1>8, <2>1, <2>2, Onward DEF Working
  <2> QED BY <1>1, <1>6, <1>8, <2>1, <2>3, QuietStep DEF Continues
<1> QED BY <1>2, <1>3, <1>7, <1>8
-----------------------------------------------------------------------------
(* The acceptance transaction.                                             *)

\* What a handler sees of its receipt, held or read, backs what it says.
LEMMA SeenIsBacked ==
    ASSUME LedgerInv, NEW d \in Deliveries, handler[d].pc \in Working,
           Seen(d).status \in {"ACCEPTED", "DUPLICATE"}
    PROVE  Backed(handler[d].body)
<1>1. CASE handler[d].held # None
  BY <1>1 DEF LedgerInv, HandlerOK, Seen
<1>2. CASE handler[d].held = None
  <2>1. receipt[handler[d].receipt].status \in {"ACCEPTED", "DUPLICATE"}
    BY <1>2 DEF Seen
  <2> QED BY <2>1, OwnReceipt
<1> QED BY <1>1, <1>2

\* A duplicate is answered when its job has been handed over, and queued before.
LEMMA AfterDuplicateEffect ==
    ASSUME LedgerInv, NEW d \in Deliveries, NEW b, b = handler[d].body,
           SeqOf[b] \in Received, job[SeqOf[b]] \in JobStates, AfterDuplicate(d)
    PROVE  \E h \in Handlers :
              /\ Continues(d, h) /\ h.body = b /\ h.receipt = handler[d].receipt
              /\ h.held = handler[d].held /\ h.heldJob = handler[d].heldJob
              /\ \/ h.pc = "enqueue" /\ h.reply = handler[d].reply
                 \/ h.pc = "done" /\ h.reply = 200 /\ HandedOver(b)
<1>1. CASE job[SeqOf[b]] = "PENDING_QUEUE"
  <2>1. /\ handler' = [handler EXCEPT ![d].pc = "enqueue", ![d].path = "duplicate"]
        /\ "duplicate" \in {"new", "duplicate", "resume"}
    BY <1>1 DEF AfterDuplicate, QueueStatus, SeqIn
  <2> QED BY <2>1, PathEffect DEF Continues
<1>2. CASE job[SeqOf[b]] # "PENDING_QUEUE"
  <2>1. Answer(d, 200) /\ HandedOver(b) /\ 200 \in Replies
    BY <1>2 DEF AfterDuplicate, QueueStatus, SeqIn, HandedOver, Replies
  <2> QED BY <2>1, AnswerEffect DEF Continues
<1> QED BY <1>1, <1>2

\* The handler leaves the lookup for a packet that exists.
LEMMA DuplicateStep ==
    ASSUME LedgerInv, Grows, NEW d \in Deliveries, NEW b, handler[d].pc = "lookup",
           NEW h \in Handlers, Continues(d, h), h.body = b, SeqOf[b] \in Received,
           h.receipt = handler[d].receipt, Backed(b)',
           h.held = handler[d].held, h.heldJob = handler[d].heldJob,
           \/ h.pc = "enqueue" /\ h.reply = handler[d].reply
           \/ h.pc = "done" /\ h.reply = 200 /\ HandedOver(b)
    PROVE  HandlerOK(d)'
<1>1. HandedOver(b) => HandedOver(b)'
  BY BackedStays
<1>2. handler[d].reply = None /\ None \notin {200, 202} /\ handler[d].pc \in Working
  BY ModulusAssumption DEF LedgerInv, HandlerOK, Working
<1> QED BY <1>1, <1>2, Onward DEF Working

\* The verdict of AcceptLookup on receipt r, of a delivery whose sequence number
\* s is taken by the packet from receipt e, with the same bytes or with others.
Verdict(d, r, s, e, same) ==
    /\ receipt' = [receipt EXCEPT ![r] =
          [receipt[r] EXCEPT
             !.status = IF same THEN "DUPLICATE" ELSE "CONFLICT",
             !.reason = IF same THEN @ ELSE "SEQUENCE_CONFLICT",
             !.packet = s,
             !.duplicate_of = e]]
    /\ IF same THEN AfterDuplicate(d) ELSE Answer(d, 409)

\* It agrees with the bytes.
LEMMA VerdictKeeps ==
    ASSUME LedgerInv, NEW d \in Deliveries, handler[d].pc = "lookup",
           UNCHANGED <<identity, packet, seqState, job, lock>>,
           packet[SeqIn(d)] # None,
           Verdict(d, handler[d].receipt, SeqIn(d), packet[SeqIn(d)].source,
                   ExactDuplicate(handler[d].receipt, packet[SeqIn(d)]))
    PROVE  LedgerInv'
<1>1. /\ handler[d].pc \in Working /\ lock' \in [Deliveries -> Deliveries \cup {None}]
      /\ HandlerOK(d) /\ receipt \in [Deliveries -> Receipts \cup {None}]
      /\ UNCHANGED <<packet, job>>
  BY DEF Working, LedgerInv, LedgerTables
<1>2. PICK r \in Deliveries, b \in Bodies, old \in Receipts :
         /\ r = handler[d].receipt /\ b = handler[d].body /\ old = receipt[r]
         /\ old.body = b
         /\ old.queue = "QUEUED" => HandedOver(b)
  BY <1>1, OwnReceipt
<1>3. SeqIn(d) = SeqOf[b] /\ SeqOf[b] \in Received
  BY <1>1, <1>2 DEF SeqIn, HandlerOK
<1>4. PICK e : e = packet[SeqOf[b]].source
  OBVIOUS
<1>5. /\ e \in Deliveries /\ receipt[e] # None /\ SeqOf[receipt[e].body] = SeqOf[b]
      /\ job[SeqOf[b]] \in JobStates /\ packet[SeqOf[b]] # None
  BY <1>3, <1>4 DEF LedgerInv, LedgerTables, PacketOK, Packets
<1>6. PICK same \in BOOLEAN : /\ same = ExactDuplicate(r, packet[SeqOf[b]])
                              /\ same = (receipt[e].body = b)
  BY <1>2, <1>4 DEF ExactDuplicate
<1>7. Verdict(d, r, SeqOf[b], e, same)
  BY <1>2, <1>3, <1>4, <1>6
<1>8. PICK row \in Receipts :
         /\ Writes(d, r, row) /\ row.body = b /\ row.queue = old.queue
         /\ row.packet = SeqOf[b]
         /\ same => row.status = "DUPLICATE"
         /\ ~ same => row.status = "CONFLICT"
  <2> DEFINE row == [old EXCEPT !.status = IF same THEN "DUPLICATE" ELSE "CONFLICT",
                                !.reason = IF same THEN @ ELSE "SEQUENCE_CONFLICT",
                                !.packet = SeqOf[b], !.duplicate_of = e]
  <2>1. /\ (IF same THEN "DUPLICATE" ELSE "CONFLICT") \in Statuses
        /\ old.reason \in Reasons /\ "SEQUENCE_CONFLICT" \in Reasons
    BY ReceiptFields DEF Statuses, Reasons
  <2>2. /\ row \in Receipts /\ row.body = b /\ row.queue = old.queue
        /\ row.packet = SeqOf[b]
        /\ row.status = IF same THEN "DUPLICATE" ELSE "CONFLICT"
    BY <1>2, <1>3, <1>5, <2>1, ReceiptFields
  <2>3. receipt' = [receipt EXCEPT ![r] = row]
    <3>1. receipt' = [receipt EXCEPT ![r] =
             [receipt[r] EXCEPT !.status = IF same THEN "DUPLICATE" ELSE "CONFLICT",
                                !.reason = IF same THEN @ ELSE "SEQUENCE_CONFLICT",
                                !.packet = SeqOf[b], !.duplicate_of = e]]
      BY <1>7 DEF Verdict
    <3> QED BY <1>2, <3>1
  <2> HIDE DEF row
  <2>4. Writes(d, r, row)
    BY <1>2, <2>3 DEF Writes
  <2> QED BY <2>2, <2>4
<1>9. CASE same
  <2>1. PICK h \in Handlers :
           /\ Continues(d, h) /\ h.body = b /\ h.receipt = handler[d].receipt
           /\ h.held = handler[d].held /\ h.heldJob = handler[d].heldJob
           /\ \/ h.pc = "enqueue" /\ h.reply = handler[d].reply
              \/ h.pc = "done" /\ h.reply = 200 /\ HandedOver(b)
    <3>1. AfterDuplicate(d)
      BY <1>7, <1>9 DEF Verdict
    <3> QED BY <1>2, <1>3, <1>5, <3>1, AfterDuplicateEffect
  <2>2. Grows /\ receipt'[r] = row /\ handler'[r].body = row.body
    BY <1>1, <1>2, <1>8, <2>1, WriteGrows
  <2>3. Backed(b)
    BY <1>3, <1>4, <1>5, <1>6, <1>9 DEF Backed, SourceBody
  <2>4. Backed(b)' /\ (HandedOver(b) => HandedOver(b)')
    BY <2>2, <2>3, BackedStays
  <2>5. ReceiptOK(r)'
    BY <1>2, <1>8, <1>9, <2>2, <2>4 DEF ReceiptOK
  <2>6. HandlerOK(d)'
    BY <1>3, <2>1, <2>2, <2>4, DuplicateStep
  <2> QED BY <1>1, <1>2, <1>8, <2>1, <2>5, <2>6, WriteKeeps
<1>10. CASE ~ same
  <2>1. Answer(d, 409) /\ 409 \in Replies
    BY <1>7, <1>10 DEF Verdict, Replies
  <2>2. PICK h \in Handlers :
           /\ Continues(d, h) /\ h.pc = "done" /\ h.receipt = handler[d].receipt
           /\ h.held = handler[d].held /\ h.heldJob = handler[d].heldJob
           /\ h.reply = 409
    BY <2>1, AnswerEffect
  <2>3. Grows /\ receipt'[r] = row /\ handler'[r].body = row.body
    BY <1>1, <1>2, <1>8, <2>2, WriteGrows
  <2>4. HandedOver(b) => HandedOver(b)'
    BY <2>3, BackedStays
  <2>5. packet'[SeqOf[b]] # None /\ SourceBody(SeqOf[b])' # b
    <3>1. packet'[SeqOf[b]] = packet[SeqOf[b]] /\ receipt'[e].body = receipt[e].body
      BY <1>3, <1>5, <2>3 DEF Grows
    <3> QED BY <1>4, <1>5, <1>6, <1>10, <3>1 DEF SourceBody
  <2>6. ReceiptOK(r)'
    BY <1>2, <1>3, <1>8, <1>10, <2>3, <2>4, <2>5 DEF ReceiptOK
  <2>7. HandlerOK(d)'
    BY <1>1, <2>2, <2>3, Onward DEF Working
  <2> QED BY <1>1, <1>2, <1>8, <2>2, <2>6, <2>7, WriteKeeps
<1> QED BY <1>9, <1>10

\* The lookups of the acceptance transaction.
LEMMA AcceptLookupKeeps ==
    ASSUME LedgerInv, NEW d \in Deliveries, AcceptLookup(d)
    PROVE  LedgerInv'
<1>1. /\ handler[d].pc = "lookup" /\ handler[d].pc \in Working
      /\ UNCHANGED <<identity, packet, seqState, job>>
      /\ HandlerOK(d) /\ lock \in [Deliveries -> Deliveries \cup {None}]
  BY DEF AcceptLookup, At, Working, LedgerInv, LedgerTables
<1>2. PICK r \in Deliveries, b \in Bodies, row \in Receipts :
         r = handler[d].receipt /\ b = handler[d].body /\ row = receipt[r]
  BY <1>1, OwnReceipt
<1>3. /\ SeqIn(d) = SeqOf[b] /\ SeqOf[b] \in Received /\ handler[d].reply = None
      /\ None \notin {200, 202} /\ 500 \in Replies /\ "sequence" \in Pcs
  BY <1>1, <1>2, ModulusAssumption DEF SeqIn, HandlerOK, Replies, Pcs
<1>4. UNCHANGED receipt => UNCHANGED tables /\ Grows
  BY <1>1, UnchangedGrows DEF tables
<1>5. CASE /\ Seen(d).status = "ACCEPTED"
           /\ handler' = [handler EXCEPT ![d].pc = "enqueue", ![d].path = "new"]
           /\ UNCHANGED <<receipt, lock>>
  <2>1. PICK h \in Handlers :
           /\ Continues(d, h) /\ h.pc = "enqueue" /\ h.receipt = handler[d].receipt
           /\ h.held = handler[d].held /\ h.heldJob = handler[d].heldJob
           /\ h.reply = handler[d].reply
    BY <1>5, PathEffect
  <2>2. Backed(b) /\ h.body = b
    BY <1>1, <1>2, <1>5, <2>1, SeenIsBacked DEF Continues
  <2>3. Backed(b)'
    BY <1>4, <1>5, <2>2, BackedStays
  <2>4. HandlerOK(d)'
    BY <1>1, <1>3, <1>4, <1>5, <2>1, <2>2, <2>3, Onward DEF Working
  <2> QED BY <1>1, <1>4, <1>5, <2>1, <2>4, QuietStep DEF Continues
<1>6. CASE Seen(d).status = "DUPLICATE" /\ AfterDuplicate(d) /\ UNCHANGED <<receipt, lock>>
  <2>1. Backed(b) /\ job[SeqOf[b]] \in JobStates
    BY <1>1, <1>2, <1>6, SeenIsBacked, BackedHasJob
  <2>2. PICK h \in Handlers :
           /\ Continues(d, h) /\ h.body = b /\ h.receipt = handler[d].receipt
           /\ h.held = handler[d].held /\ h.heldJob = handler[d].heldJob
           /\ \/ h.pc = "enqueue" /\ h.reply = handler[d].reply
              \/ h.pc = "done" /\ h.reply = 200 /\ HandedOver(b)
    BY <1>2, <1>3, <1>6, <2>1, AfterDuplicateEffect
  <2>3. Backed(b)'
    BY <1>4, <1>6, <2>1, BackedStays
  <2>4. HandlerOK(d)'
    BY <1>1, <1>3, <1>4, <1>6, <2>2, <2>3, DuplicateStep
  <2> QED BY <1>1, <1>4, <1>6, <2>2, <2>4, QuietStep DEF Continues
<1>7. CASE Answer(d, 500) /\ UNCHANGED <<receipt, lock>>
  BY <1>1, <1>3, <1>4, <1>7, QuietAnswer
<1>8. CASE /\ lock' = [lock EXCEPT ![handler[d].receipt] = d]
           /\ GoTo(d, "sequence")
           /\ UNCHANGED receipt
  <2>1. PICK h \in Handlers :
           /\ Continues(d, h) /\ h.pc = "sequence" /\ h.receipt = handler[d].receipt
           /\ h.held = handler[d].held /\ h.heldJob = handler[d].heldJob
           /\ h.reply = handler[d].reply
    BY <1>3, <1>8, GoToEffect
  <2>2. h.body = b /\ lock' \in [Deliveries -> Deliveries \cup {None}]
    BY <1>1, <1>2, <1>8, <2>1 DEF Continues
  <2>3. HandlerOK(d)'
    BY <1>1, <1>3, <1>4, <1>8, <2>1, <2>2, Onward DEF Working
  <2> QED BY <1>1, <1>4, <1>8, <2>1, <2>2, <2>3, QuietStep DEF Continues
<1>9. CASE /\ packet[SeqIn(d)] # None /\ UNCHANGED lock
           /\ Verdict(d, handler[d].receipt, SeqIn(d), packet[SeqIn(d)].source,
                      ExactDuplicate(handler[d].receipt, packet[SeqIn(d)]))
  BY <1>1, <1>9, VerdictKeeps
<1> QED BY <1>5, <1>6, <1>7, <1>8, <1>9 DEF AcceptLookup, Verdict

\* A unique-key violation leaves the tables alone.
LEMMA IntegrityErrorKeeps ==
    ASSUME LedgerInv, NEW d \in Deliveries, handler[d].pc \in {"sequence", "first"},
           AcceptIntegrityError(d)
    PROVE  LedgerInv'
<1>1. /\ UNCHANGED tables /\ HandlerOK(d) /\ handler[d].pc \in Working
      /\ lock \in [Deliveries -> Deliveries \cup {None}]
      /\ lock' = [lock EXCEPT ![handler[d].receipt] = None]
  BY DEF AcceptIntegrityError, LedgerInv, LedgerTables, Working
<1>2. lock' \in [Deliveries -> Deliveries \cup {None}] /\ Grows
  BY <1>1, UnchangedGrows DEF tables
<1>3. /\ 503 \in Replies /\ None \notin {200, 202} /\ "lookup" \in Pcs
      /\ handler[d].reply = None /\ SeqOf[handler[d].body] \in Received
  BY <1>1, ModulusAssumption DEF Replies, Pcs, HandlerOK
<1>4. CASE Answer(d, 503)
  BY <1>1, <1>2, <1>3, <1>4, QuietAnswer
<1>5. CASE Tries(d, "lookup", 2, None)
  <2>1. 2 \in {1, 2} /\ None \in Receipts \cup {None}
    OBVIOUS
  <2>2. PICK h \in Handlers :
           /\ Continues(d, h) /\ h.pc = "lookup" /\ h.receipt = handler[d].receipt
           /\ h.held = None /\ h.heldJob = handler[d].heldJob
           /\ h.reply = handler[d].reply
    BY <1>3, <1>5, <2>1, HeldEffect
  <2>3. SeqOf[h.body] \in Received
    BY <1>3, <2>2 DEF Continues
  <2>4. HandlerOK(d)'
    BY <1>1, <1>2, <1>3, <2>2, <2>3, Onward DEF Working
  <2> QED BY <1>1, <1>2, <2>2, <2>4, QuietStep DEF Continues
<1> QED BY <1>4, <1>5 DEF AcceptIntegrityError, Tries

\* What the sequence rules make of a high-water mark and a new number.
LEMMA StorageTypes ==
    ASSUME NEW high \in SequenceNumbers \cup {None}, NEW s \in SequenceNumbers
    PROVE  /\ StorageDisposition(high, s)
                 \in {"FIRST", "IN_ORDER", "GAP", "LATE", "SEQUENCE_STATE_CONFLICT"}
           /\ StorageMissingBefore(high, s) \in Nat
           /\ StorageNextHighWater(high, s) \in SequenceNumbers
<1> DEFINE t == StorageDisposition(high, s)
           d == ForwardDistance(high, s)
<1>1. CASE high = None
  <2>1. t = "FIRST"
    BY <1>1 DEF StorageDisposition
  <2>2. StorageMissingBefore(high, s) = s
    BY <2>1, Zenon DEF StorageMissingBefore
  <2>3. StorageNextHighWater(high, s) = s
    BY <2>1 DEF StorageNextHighWater, StorageAdvances
  <2> HIDE DEF t
  <2> QED BY <2>1, <2>2, <2>3 DEF SequenceNumbers, t
<1>2. CASE high # None
  <2>1. d \in Nat
    BY <1>2, ModulusAssumption DEF SequenceNumbers, ForwardDistance
  <2>2. t = IF d = 0 THEN "SEQUENCE_STATE_CONFLICT"
            ELSE IF d = 1 THEN "IN_ORDER"
            ELSE IF d < HalfRange THEN "GAP" ELSE "LATE"
    BY <1>2 DEF StorageDisposition
  <2> HIDE DEF t, d
  <2>3. t \in {"FIRST", "IN_ORDER", "GAP", "LATE", "SEQUENCE_STATE_CONFLICT"}
    BY <2>2
  <2>4. StorageMissingBefore(high, s) \in Nat
    <3>1. CASE t = "GAP"
      <4>1. StorageMissingBefore(high, s) = d - 1
        BY <3>1, Zenon DEF StorageMissingBefore, t, d
      <4>2. d # 0
        BY <2>2, <3>1
      <4> QED BY <2>1, <4>1, <4>2
    <3>2. CASE t # "GAP"
      <4>1. t # "FIRST"
        BY <2>2
      <4>2. StorageMissingBefore(high, s) = 0
        BY <3>2, <4>1, Zenon DEF StorageMissingBefore, t
      <4> QED BY <4>2
    <3> QED BY <3>1, <3>2
  <2>5. StorageNextHighWater(high, s) \in SequenceNumbers
    BY <1>2 DEF StorageNextHighWater
  <2> QED BY <2>3, <2>4, <2>5 DEF t
<1> QED BY <1>1, <1>2

\* The inserts of the acceptance transaction: a packet row for a free sequence
\* number, its job, and the accepted receipt.
LEMMA InsertKeeps ==
    ASSUME LedgerInv, NEW d \in Deliveries, handler[d].pc \in {"sequence", "first"},
           NEW s, s = SeqIn(d), packet[s] = None, NEW state, state = seqState,
           state # None => StorageDisposition(state.high_water, s)
                              # "SEQUENCE_STATE_CONFLICT",
           InsertPacket(d, s, state)
    PROVE  LedgerInv'
<1>1. /\ handler[d].pc \in Working /\ HandlerOK(d) /\ LedgerTables
      /\ lock \in [Deliveries -> Deliveries \cup {None}]
      /\ receipt \in [Deliveries -> Receipts \cup {None}]
      /\ packet \in [Received -> Packets \cup {None}]
      /\ job \in [Received -> JobStates \cup {None}]
      /\ state \in SequenceStates \cup {None}
      /\ handler[d].reply = None /\ None \notin {200, 202}
  BY ModulusAssumption DEF Working, LedgerInv, LedgerTables, HandlerOK
<1>2. PICK r \in Deliveries, b \in Bodies, old \in Receipts :
         /\ r = handler[d].receipt /\ b = handler[d].body /\ old = receipt[r]
         /\ old.body = b
  BY <1>1, OwnReceipt
<1>3. s = SeqOf[b] /\ s \in Received /\ s \in SequenceNumbers
  BY <1>1, <1>2, ReceivedNumbers DEF HandlerOK, SeqIn
<1>4. PICK high \in SequenceNumbers \cup {None} :
         high = IF state = None THEN None ELSE state.high_water
  BY <1>1 DEF SequenceStates
<1>5. /\ StorageDisposition(high, s) \in {"FIRST", "IN_ORDER", "GAP", "LATE"}
      /\ StorageMissingBefore(high, s) \in Nat
      /\ StorageNextHighWater(high, s) \in SequenceNumbers
  <2>1. StorageDisposition(high, s) # "SEQUENCE_STATE_CONFLICT"
    <3>1. CASE state = None
      BY <1>4, <3>1 DEF StorageDisposition
    <3>2. CASE state # None
      BY <1>4, <3>2
    <3> QED BY <3>1, <3>2
  <2> QED BY <1>3, <1>4, <2>1, StorageTypes
<1>6. PICK p \in Packets : packet' = [packet EXCEPT ![s] = p] /\ p.source = r
  <2> DEFINE p == [source |-> r, disposition |-> StorageDisposition(high, s),
                   missing_before |-> StorageMissingBefore(high, s)]
  <2>1. p \in Packets /\ p.source = r
    BY <1>5 DEF Packets
  <2>2. packet' = [packet EXCEPT ![s] = p]
    BY <1>2, <1>4 DEF InsertPacket
  <2> QED BY <2>1, <2>2
<1>7. seqState' \in SequenceStates
  <2>1. seqState' = [high_water |-> StorageNextHighWater(high, s),
                     accepted |-> IF state = None THEN 1 ELSE state.accepted + 1,
                     missing |-> IF state = None THEN StorageMissingBefore(high, s)
                                 ELSE state.missing + StorageMissingBefore(high, s)]
    BY <1>4 DEF InsertPacket
  <2>2. /\ (IF state = None THEN 1 ELSE state.accepted + 1) \in Nat
        /\ (IF state = None THEN StorageMissingBefore(high, s)
            ELSE state.missing + StorageMissingBefore(high, s)) \in Nat
    BY <1>1, <1>5 DEF SequenceStates
  <2> QED BY <1>5, <2>1, <2>2 DEF SequenceStates
<1>8. PICK row \in Receipts :
         /\ receipt' = [receipt EXCEPT ![r] = row]
         /\ row.body = b /\ row.status = "ACCEPTED" /\ row.packet = s
         /\ row.queue = "PENDING_QUEUE"
  <2> DEFINE row == [receipt[r] EXCEPT !.status = "ACCEPTED", !.packet = s,
                                       !.queue = "PENDING_QUEUE"]
  <2>1. "ACCEPTED" \in Statuses /\ "PENDING_QUEUE" \in Queues
    BY DEF Statuses, Queues
  <2>2. /\ row \in Receipts /\ row.body = b /\ row.status = "ACCEPTED"
        /\ row.packet = s /\ row.queue = "PENDING_QUEUE"
    BY <1>2, <1>3, <2>1, ReceiptFields
  <2>3. receipt' = [receipt EXCEPT ![r] = row]
    BY <1>2 DEF InsertPacket
  <2> QED BY <2>2, <2>3
<1>9. /\ job' = [job EXCEPT ![s] = "PENDING_QUEUE"]
      /\ lock' = [lock EXCEPT ![r] = None] /\ UNCHANGED identity
      /\ handler' = [handler EXCEPT ![d].pc = "enqueue", ![d].path = "new"]
  BY <1>2 DEF InsertPacket
<1>10. PICK h \in Handlers :
          /\ Continues(d, h) /\ h.pc = "enqueue" /\ h.receipt = handler[d].receipt
          /\ h.held = handler[d].held /\ h.heldJob = handler[d].heldJob
          /\ h.reply = handler[d].reply
  BY <1>9, PathEffect
<1>11. /\ handler' \in [Deliveries -> Handlers] /\ handler'[d] = h /\ h.body = b
       /\ \A e \in Deliveries : /\ handler'[e].body = handler[e].body
                                /\ handler'[e].id = handler[e].id
                                /\ e # d => handler'[e] = handler[e]
  BY <1>1, <1>2, <1>10 DEF Continues, LedgerTables
<1>12. /\ receipt' \in [Deliveries -> Receipts \cup {None}]
       /\ receipt'[r] = row /\ row # None /\ receipt[r] # None
       /\ \A e \in Deliveries : e # r => receipt'[e] = receipt[e]
  BY <1>1, <1>2, <1>8, RowsAreRows
<1>13. /\ packet' \in [Received -> Packets \cup {None}]
       /\ packet'[s] = p /\ p # None
       /\ \A t \in Received : t # s => packet'[t] = packet[t]
  BY <1>1, <1>3, <1>6, RowsAreRows
<1>14. /\ job' \in [Received -> JobStates \cup {None}]
       /\ job'[s] \in JobStates /\ job[s] = None
       /\ \A t \in Received : t # s => job'[t] = job[t]
  <2>1. "PENDING_QUEUE" \in JobStates
    BY DEF JobStates
  <2>2. job[s] = None
    BY <1>3 DEF LedgerInv, PacketOK
  <2> QED BY <1>1, <1>3, <1>9, <2>1, <2>2
<1>15. Grows
  BY <1>2, <1>8, <1>12, <1>13, <1>14, RowsAreRows DEF Grows
<1>16. LedgerTables'
  BY <1>1, <1>7, <1>9, <1>11, <1>12, <1>13, <1>14 DEF LedgerTables
<1>17. Backed(b)'
  BY <1>3, <1>6, <1>8, <1>12, <1>13 DEF Backed, SourceBody
<1>18. PacketOK(s)'
  BY <1>3, <1>6, <1>8, <1>12, <1>13, <1>14 DEF PacketOK
<1>19. ReceiptOK(r)'
  <2>1. handler[r].body = b
    BY <1>2, <1>12 DEF LedgerInv, ReceiptOK
  <2> QED BY <1>3, <1>6, <1>8, <1>11, <1>12, <1>13, <1>17, <2>1 DEF ReceiptOK
<1>20. HandlerOK(d)'
  BY <1>1, <1>3, <1>10, <1>11, <1>15, <1>17, Onward DEF Working
<1> QED BY <1>9, <1>11, <1>12, <1>13, <1>15, <1>16, <1>18, <1>19, <1>20, LedgerMoves

\* The sequence state lookup and what follows it.
LEMMA AcceptSequenceKeeps ==
    ASSUME LedgerInv, NEW d \in Deliveries, AcceptSequence(d) \/ AcceptFirst(d)
    PROVE  LedgerInv'
<1>1. /\ handler[d].pc \in {"sequence", "first"} /\ handler[d].pc \in Working
      /\ HandlerOK(d) /\ lock \in [Deliveries -> Deliveries \cup {None}]
      /\ receipt \in [Deliveries -> Receipts \cup {None}]
      /\ handler[d].reply = None /\ None \notin {200, 202}
  BY ModulusAssumption DEF AcceptSequence, AcceptFirst, At, Working, LedgerInv,
                           LedgerTables, HandlerOK
<1>2. PICK r \in Deliveries, b \in Bodies, old \in Receipts :
         /\ r = handler[d].receipt /\ b = handler[d].body /\ old = receipt[r]
         /\ old.body = b /\ ReceiptOK(r)
         /\ old.queue = "QUEUED" => HandedOver(b)
  BY <1>1, OwnReceipt
<1>3. SeqOf[b] \in Received
  BY <1>1, <1>2 DEF HandlerOK
<1>4. CASE GoTo(d, "first") /\ UNCHANGED <<tables, lock>>
  <2>1. "first" \in Pcs /\ Grows /\ UNCHANGED tables
    BY <1>4, UnchangedGrows DEF Pcs, tables
  <2>2. PICK h \in Handlers :
           /\ Continues(d, h) /\ h.pc = "first" /\ h.receipt = handler[d].receipt
           /\ h.held = handler[d].held /\ h.heldJob = handler[d].heldJob
           /\ h.reply = handler[d].reply
    BY <1>4, <2>1, GoToEffect
  <2>3. h.body = b
    BY <1>2, <2>2 DEF Continues
  <2>4. HandlerOK(d)'
    BY <1>1, <1>3, <2>1, <2>2, <2>3, Onward DEF Working
  <2> QED BY <1>1, <1>4, <2>1, <2>2, <2>4, QuietStep DEF Continues
<1>5. CASE /\ receipt' = [receipt EXCEPT ![handler[d].receipt].status = "CONFLICT",
                                         ![handler[d].receipt].reason
                                              = "SEQUENCE_STATE_CONFLICT"]
           /\ lock' = [lock EXCEPT ![handler[d].receipt] = None]
           /\ Answer(d, 409)
           /\ UNCHANGED <<identity, packet, seqState, job>>
  <2>1. PICK row \in Receipts :
           /\ receipt' = [receipt EXCEPT ![r] = row]
           /\ row.body = b /\ row.status = "CONFLICT"
           /\ row.reason = "SEQUENCE_STATE_CONFLICT" /\ row.queue = old.queue
    <3> DEFINE row == [receipt[r] EXCEPT !.status = "CONFLICT",
                                         !.reason = "SEQUENCE_STATE_CONFLICT"]
    <3>1. "CONFLICT" \in Statuses /\ "SEQUENCE_STATE_CONFLICT" \in Reasons
      BY DEF Statuses, Reasons
    <3>2. /\ row \in Receipts /\ row.body = b /\ row.status = "CONFLICT"
          /\ row.reason = "SEQUENCE_STATE_CONFLICT" /\ row.queue = old.queue
      BY <1>2, <3>1, ReceiptFields
    <3>3. receipt' = [receipt EXCEPT ![r].status = "CONFLICT",
                                     ![r].reason = "SEQUENCE_STATE_CONFLICT"]
      BY <1>2, <1>5
    <3>4. DOMAIN receipt = Deliveries /\ r \in Deliveries
      BY <1>1
    <3>5. [receipt EXCEPT ![r].status = "CONFLICT",
                          ![r].reason = "SEQUENCE_STATE_CONFLICT"]
             = [receipt EXCEPT ![r] = row]
      BY <3>4
    <3> QED BY <3>2, <3>3, <3>5
  <2>2. Writes(d, r, row) /\ 409 \in Replies
    BY <1>2, <2>1 DEF Writes, Replies
  <2>3. PICK h \in Handlers :
           /\ Continues(d, h) /\ h.pc = "done" /\ h.receipt = handler[d].receipt
           /\ h.held = handler[d].held /\ h.heldJob = handler[d].heldJob
           /\ h.reply = 409
    BY <1>5, <2>2, AnswerEffect
  <2>4. UNCHANGED <<packet, job>> /\ lock' \in [Deliveries -> Deliveries \cup {None}]
    BY <1>1, <1>5
  <2>5. Grows /\ receipt'[r] = row /\ handler'[r].body = row.body
    BY <1>1, <1>2, <2>1, <2>2, <2>3, <2>4, WriteGrows
  <2>6. HandedOver(b) => HandedOver(b)'
    BY <2>5, BackedStays
  <2>7. ReceiptOK(r)'
    BY <1>2, <2>1, <2>5, <2>6 DEF ReceiptOK
  <2>8. HandlerOK(d)'
    BY <1>1, <2>3, <2>5, Onward DEF Working
  <2> QED BY <1>1, <1>2, <1>5, <2>1, <2>2, <2>3, <2>4, <2>7, <2>8, WriteKeeps
<1>6. CASE AcceptIntegrityError(d)
  BY <1>1, <1>6, IntegrityErrorKeeps
<1>7. PICK s, state : s = SeqIn(d) /\ state = seqState
  OBVIOUS
<1>8. CASE /\ state # None /\ packet[s] = None
           /\ StorageDisposition(state.high_water, s) # "SEQUENCE_STATE_CONFLICT"
           /\ InsertPacket(d, s, state)
  BY <1>1, <1>7, <1>8, InsertKeeps
<1>9. CASE state = None /\ packet[s] = None /\ InsertPacket(d, s, state)
  BY <1>1, <1>7, <1>9, InsertKeeps
<1>10. CASE AcceptFirst(d)
  <2>1. \/ AcceptIntegrityError(d)
        \/ /\ seqState = None /\ packet[SeqIn(d)] = None
           /\ InsertPacket(d, SeqIn(d), None)
    BY <1>10 DEF AcceptFirst
  <2> QED BY <1>6, <1>7, <1>9, <2>1
<1>11. CASE AcceptSequence(d)
  <2>1. \/ GoTo(d, "first") /\ UNCHANGED <<tables, lock>>
        \/ /\ receipt' = [receipt EXCEPT ![handler[d].receipt].status = "CONFLICT",
                                         ![handler[d].receipt].reason
                                              = "SEQUENCE_STATE_CONFLICT"]
           /\ lock' = [lock EXCEPT ![handler[d].receipt] = None]
           /\ Answer(d, 409)
           /\ UNCHANGED <<identity, packet, seqState, job>>
        \/ AcceptIntegrityError(d)
        \/ /\ seqState # None /\ packet[SeqIn(d)] = None
           /\ StorageDisposition(seqState.high_water, SeqIn(d)) # "SEQUENCE_STATE_CONFLICT"
           /\ InsertPacket(d, SeqIn(d), seqState)
    BY <1>11 DEF AcceptSequence
  <2> QED BY <1>4, <1>5, <1>6, <1>7, <1>8, <2>1
<1> QED BY <1>10, <1>11
-----------------------------------------------------------------------------
(* The queue, failures, and the worker.                                    *)

\* The Redis call, and a failing statement.
LEMMA EnqueueAbortKeeps ==
    ASSUME LedgerInv, NEW d \in Deliveries, Enqueue(d) \/ Abort(d)
    PROVE  LedgerInv'
<1>1. /\ UNCHANGED tables /\ HandlerOK(d) /\ lock \in [Deliveries -> Deliveries \cup {None}]
      /\ 503 \in Replies /\ "mark" \in Pcs /\ None \notin {200, 202}
  BY ModulusAssumption DEF Enqueue, Abort, LedgerInv, LedgerTables, Replies, Pcs
<1>2. Grows /\ lock' \in [Deliveries -> Deliveries \cup {None}] /\ handler[d].pc # "idle"
  BY <1>1, UnchangedGrows DEF Enqueue, Abort, At, tables
<1>3. CASE Answer(d, 503)
  BY <1>1, <1>2, <1>3, QuietAnswer
<1>4. CASE Enqueue(d) /\ GoTo(d, "mark")
  <2>1. /\ handler[d].pc = "enqueue" /\ handler[d].pc \in Working /\ handler[d].reply = None
        /\ SeqOf[handler[d].body] \in Received
    BY <1>1, <1>4 DEF Enqueue, At, Working, HandlerOK
  <2>2. PICK h \in Handlers :
           /\ Continues(d, h) /\ h.pc = "mark" /\ h.receipt = handler[d].receipt
           /\ h.held = handler[d].held /\ h.heldJob = handler[d].heldJob
           /\ h.reply = handler[d].reply
    BY <1>1, <1>4, GoToEffect
  <2>3. SeqOf[h.body] \in Received /\ Backed(h.body)
    BY <1>1, <2>1, <2>2 DEF Continues, HandlerOK
  <2>4. Backed(h.body)'
    BY <1>2, <2>3, BackedStays
  <2>5. HandlerOK(d)'
    BY <1>1, <1>2, <2>1, <2>2, <2>3, <2>4, Onward DEF Working
  <2> QED BY <1>1, <1>2, <2>1, <2>2, <2>5, QuietStep DEF Continues
<1> QED BY <1>3, <1>4 DEF Enqueue, Abort

\* mark_job_queued.
LEMMA MarkKeeps ==
    ASSUME LedgerInv, NEW d \in Deliveries, MarkJobQueued(d)
    PROVE  LedgerInv'
<1>1. /\ handler[d].pc = "mark" /\ handler[d].pc \in Working /\ HandlerOK(d) /\ LedgerTables
      /\ UNCHANGED <<identity, packet, seqState, lock>>
      /\ lock' \in [Deliveries -> Deliveries \cup {None}]
      /\ receipt \in [Deliveries -> Receipts \cup {None}]
      /\ job \in [Received -> JobStates \cup {None}]
      /\ packet \in [Received -> Packets \cup {None}]
  BY DEF MarkJobQueued, At, Working, LedgerInv, LedgerTables
<1>2. PICK b \in Bodies : b = handler[d].body
  BY <1>1, OwnReceipt
<1>3. /\ SeqIn(d) = SeqOf[b] /\ SeqOf[b] \in Received /\ Backed(b)
      /\ packet[SeqOf[b]] # None
  BY <1>1, <1>2 DEF SeqIn, HandlerOK, Backed
<1>4. PICK code \in {200, 202, 500} :
         /\ Answer(d, code)
         /\ code # 500 => SeenJob(d) \in {"PENDING_QUEUE", "RETRY_WAIT", "QUEUED"}
  <2> DEFINE transitioned == SeenJob(d) \in {"PENDING_QUEUE", "RETRY_WAIT"}
             code == IF ~ transitioned /\ SeenJob(d) # "QUEUED" THEN 500
                     ELSE IF handler[d].path = "duplicate" THEN 200
                     ELSE IF handler[d].path = "resume" /\ ~ transitioned THEN 200
                     ELSE 202
  <2>1. Answer(d, code)
    BY DEF MarkJobQueued
  <2>2. /\ code \in {200, 202, 500}
        /\ code # 500 => SeenJob(d) \in {"PENDING_QUEUE", "RETRY_WAIT", "QUEUED"}
    OBVIOUS
  <2> HIDE DEF code
  <2> QED BY <2>1, <2>2
<1>5. code \in Replies
  BY DEF Replies
<1>6. CASE SeenJob(d) \notin {"PENDING_QUEUE", "RETRY_WAIT"}
  <2>1. UNCHANGED tables
    BY <1>1, <1>6 DEF MarkJobQueued, tables
  <2>2. CASE code = 500
    BY <1>1, <1>4, <1>5, <2>1, <2>2, QuietAnswer
  <2>3. CASE code # 500
    <3>1. SeenJob(d) = "QUEUED" /\ code \in {200, 202}
      BY <1>4, <1>6, <2>3
    <3>2. HandedOver(b)
      <4>1. CASE handler[d].heldJob # None
        BY <1>1, <1>2, <3>1, <4>1 DEF SeenJob, HandlerOK
      <4>2. CASE handler[d].heldJob = None
        BY <1>3, <3>1, <4>2 DEF SeenJob, HandedOver, JobStates
      <4> QED BY <4>1, <4>2
    <3> QED BY <1>1, <1>2, <1>3, <1>4, <2>1, <3>1, <3>2, QuietSuccess
  <2> QED BY <2>2, <2>3
<1>7. CASE SeenJob(d) \in {"PENDING_QUEUE", "RETRY_WAIT"}
  <2>1. PICK s \in Received : s = SeqOf[b]
    BY <1>3
  <2>2. /\ job' = [job EXCEPT ![s] = "QUEUED"]
        /\ receipt' = [r \in Deliveries |->
              IF receipt[r] # None /\ receipt[r].packet = s /\ receipt[r].status = "ACCEPTED"
              THEN [receipt[r] EXCEPT !.queue = "QUEUED"] ELSE receipt[r]]
    BY <1>3, <1>7, <2>1 DEF MarkJobQueued
  <2>3. "QUEUED" \in JobStates \ {"PENDING_QUEUE"} /\ "QUEUED" \in Queues
    BY DEF JobStates, Queues
  <2>4. /\ job' \in [Received -> JobStates \cup {None}] /\ job'[s] = "QUEUED"
        /\ \A t \in Received : t # s => job'[t] = job[t]
    BY <1>1, <2>2, <2>3
  <2>5. ASSUME NEW r \in Deliveries, receipt'[r] # receipt[r]
        PROVE  /\ receipt[r] # None /\ receipt'[r] \in Receipts
               /\ receipt'[r].body = receipt[r].body
               /\ receipt[r].status = "ACCEPTED" /\ receipt'[r].status = "ACCEPTED"
               /\ receipt[r].packet = s /\ receipt'[r].packet = s
    <3>1. /\ receipt[r] # None /\ receipt[r].packet = s
          /\ receipt[r].status = "ACCEPTED"
          /\ receipt'[r] = [receipt[r] EXCEPT !.queue = "QUEUED"]
      BY <2>2, <2>5
    <3>2. PICK old \in Receipts : old = receipt[r]
      BY <1>1, <3>1
    <3>3. LET row == [old EXCEPT !.queue = "QUEUED"] IN
          /\ row \in Receipts /\ row.body = old.body
          /\ row.status = old.status /\ row.packet = old.packet
      BY <2>3, ReceiptFields
    <3> QED BY <3>1, <3>2, <3>3
  <2>6. \A r \in Deliveries :
           \/ receipt'[r] = receipt[r]
           \/ /\ receipt[r] # None /\ receipt'[r] \in Receipts
              /\ receipt'[r].body = receipt[r].body
              /\ receipt[r].status = "ACCEPTED" /\ receipt'[r].status = "ACCEPTED"
              /\ receipt[r].packet = s /\ receipt'[r].packet = s
    BY <2>5
  <2>7. receipt' \in [Deliveries -> Receipts \cup {None}]
    <3>1. \A r \in Deliveries : receipt'[r] \in Receipts \cup {None}
      BY <1>1, <2>6
    <3> QED BY <2>2, <3>1
  <2>8. Grows
    BY <1>1, <1>3, <2>1, <2>3, <2>4, <2>6, RowsAreRows DEF Grows
  <2>9. PICK h \in Handlers :
           /\ Continues(d, h) /\ h.pc = "done" /\ h.receipt = handler[d].receipt
           /\ h.held = handler[d].held /\ h.heldJob = handler[d].heldJob
           /\ h.reply = code
    BY <1>4, <1>5, AnswerEffect
  <2>10. /\ handler' \in [Deliveries -> Handlers] /\ h.body = b
         /\ \A e \in Deliveries : /\ handler'[e].body = handler[e].body
                                  /\ handler'[e].id = handler[e].id
                                  /\ e # d => handler'[e] = handler[e]
    BY <1>1, <1>2, <2>9 DEF Continues, LedgerTables
  <2>11. Backed(b)' /\ HandedOver(b)'
    BY <1>3, <2>1, <2>3, <2>4, <2>8, BackedStays DEF HandedOver
  <2>12. HandlerOK(d)'
    BY <1>1, <2>8, <2>9, <2>10, <2>11, Onward DEF Working
  <2>13. ASSUME NEW r \in Deliveries, receipt'[r] # receipt[r] PROVE ReceiptOK(r)'
    <3>1. /\ receipt[r] # None /\ receipt'[r].body = receipt[r].body
          /\ receipt[r].status = "ACCEPTED" /\ receipt'[r].status = "ACCEPTED"
          /\ receipt[r].packet = s /\ receipt'[r].packet = s
      BY <2>6, <2>13
    <3>2. PICK c : c = receipt[r].body
      OBVIOUS
    <3>3. /\ s = SeqOf[c] /\ Backed(c) /\ packet[s].source = r /\ handler[r].body = c
      BY <3>1, <3>2 DEF LedgerInv, ReceiptOK
    <3>4. Backed(c)' /\ HandedOver(c)'
      BY <2>3, <2>4, <2>8, <3>3, BackedStays DEF HandedOver
    <3> QED BY <1>1, <2>10, <3>1, <3>2, <3>3, <3>4 DEF ReceiptOK
  <2>14. LedgerTables'
    BY <1>1, <2>4, <2>7, <2>10 DEF LedgerTables
  <2>15. \A e \in Deliveries : receipt[e] = None => receipt'[e] = None
    BY <2>6
  <2> QED BY <1>1, <2>8, <2>10, <2>12, <2>13, <2>14, <2>15, LedgerMoves
<1> QED BY <1>6, <1>7

\* The payload worker moves a job on.
LEMMA WorkerKeeps ==
    ASSUME LedgerInv, NEW s \in Received, WorkerStep(s)
    PROVE  LedgerInv'
<1>1. /\ LedgerTables /\ job \in [Received -> JobStates \cup {None}] /\ PacketOK(s)
      /\ UNCHANGED <<identity, receipt, packet, seqState, lock, handler>>
  BY DEF LedgerInv, LedgerTables, WorkerStep
<1>2. PICK state : /\ state \in {"PROCESSING", "COMPLETE", "FAILED", "RETRY_WAIT"}
                   /\ job' = [job EXCEPT ![s] = state]
                   /\ job[s] \in {"QUEUED", "RETRY_WAIT", "PROCESSING"}
  BY DEF WorkerStep
<1>3. state \in JobStates \ {"PENDING_QUEUE"} /\ job[s] \in JobStates
  BY <1>2 DEF JobStates
<1>4. /\ job' \in [Received -> JobStates \cup {None}] /\ job'[s] = state
      /\ \A t \in Received : t # s => job'[t] = job[t]
  BY <1>1, <1>2, <1>3
<1>5. packet[s] # None
  BY <1>1, <1>3, RowsAreRows DEF PacketOK
<1>6. Grows
  BY <1>1, <1>3, <1>4, <1>5 DEF Grows
<1>7. LedgerTables'
  BY <1>1, <1>4 DEF LedgerTables
<1>8. \A t \in Received : PacketOK(t)'
  BY <1>1, <1>6, PacketFrame
<1>9. \A d \in Deliveries : ReceiptOK(d)' /\ HandlerOK(d)'
  BY <1>1, <1>6, ReceiptFrame, HandlerFrame
<1>10. \A d \in Deliveries : RequestOK(d)'
  BY <1>1 DEF LedgerInv, RequestOK
<1>11. \A q \in RequestIds : IdentityOK(q)'
  BY <1>1 DEF LedgerInv, IdentityOK
<1> QED BY <1>7, <1>8, <1>9, <1>10, <1>11 DEF LedgerInv
-----------------------------------------------------------------------------
(* The invariant.                                                          *)

\* An empty ledger satisfies it.
LEMMA LedgerInvInitially == LedgerInit => LedgerInv
<1> SUFFICES ASSUME LedgerInit PROVE LedgerInv
  OBVIOUS
<1> DEFINE h == [pc |-> "idle", id |-> None, body |-> None, octets |-> TRUE,
                 receipt |-> None, try |-> 1, held |-> None,
                 heldJob |-> None, path |-> "new", reply |-> None]
<1>1. h \in Handlers
  <2>1. "idle" \in Pcs /\ None \in Replies
    BY DEF Pcs, Replies
  <2> QED BY <2>1, HandlerFields
<1>2. \A d \in Deliveries : handler[d] = h /\ receipt[d] = None
  BY DEF LedgerInit
<1>3. h.pc = "idle" /\ h.reply = None /\ h.held = None /\ h.heldJob = None
  OBVIOUS
<1>4. handler \in [Deliveries -> Handlers]
  BY <1>1 DEF LedgerInit
<1> HIDE DEF h
<1>5. LedgerTables
  BY <1>4 DEF LedgerInit, LedgerTables
<1>6. None \notin {200, 202} /\ "idle" \notin Working
  BY ModulusAssumption DEF Working
<1>7. \A d \in Deliveries : HandlerOK(d)
  BY <1>2, <1>3, <1>6 DEF HandlerOK
<1>8. \A d \in Deliveries : ReceiptOK(d) /\ RequestOK(d)
  BY <1>2 DEF ReceiptOK, RequestOK
<1>9. (\A s \in Received : PacketOK(s)) /\ (\A q \in RequestIds : IdentityOK(q))
  BY DEF LedgerInit, PacketOK, IdentityOK
<1> QED BY <1>5, <1>7, <1>8, <1>9 DEF LedgerInv

\* Every step of a handler or of the worker keeps it.
LEMMA LedgerInvKept == LedgerInv /\ [LedgerNext]_ledgerVars => LedgerInv'
<1> SUFFICES ASSUME LedgerInv, [LedgerNext]_ledgerVars PROVE LedgerInv'
  OBVIOUS
<1>1. ASSUME NEW d \in Deliveries, Arrive(d) \/ RecordLookup(d) \/ RecordInsert(d)
      PROVE  LedgerInv'
  BY <1>1, RecordKeeps
<1>2. ASSUME NEW d \in Deliveries, Replay(d) PROVE LedgerInv'
  BY <1>2, ReplayKeeps
<1>3. ASSUME NEW d \in Deliveries, Validate(d) PROVE LedgerInv'
  BY <1>3, ValidateKeeps
<1>4. ASSUME NEW d \in Deliveries, AcceptLookup(d) PROVE LedgerInv'
  BY <1>4, AcceptLookupKeeps
<1>5. ASSUME NEW d \in Deliveries, AcceptSequence(d) \/ AcceptFirst(d) PROVE LedgerInv'
  BY <1>5, AcceptSequenceKeeps
<1>6. ASSUME NEW d \in Deliveries, Enqueue(d) \/ Abort(d) PROVE LedgerInv'
  BY <1>6, EnqueueAbortKeeps
<1>7. ASSUME NEW d \in Deliveries, MarkJobQueued(d) PROVE LedgerInv'
  BY <1>7, MarkKeeps
<1>8. ASSUME NEW s \in Received, WorkerStep(s) PROVE LedgerInv'
  BY <1>8, WorkerKeeps
<1>9. CASE UNCHANGED ledgerVars
  <2>1. UNCHANGED <<identity, receipt, packet, seqState, job, lock, handler>>
    BY <1>9 DEF ledgerVars
  <2> QED BY <2>1 DEF LedgerInv, LedgerTables, PacketOK, IdentityOK, ReceiptOK,
                      RequestOK, HandlerOK, Backed, HandedOver, SourceBody
<1> QED BY <1>1, <1>2, <1>3, <1>4, <1>5, <1>6, <1>7, <1>8, <1>9 DEF LedgerNext

\* The invariant holds throughout.
LEMMA LedgerInvariant == LedgerSpec => []LedgerInv
BY LedgerInvInitially, LedgerInvKept, PTL DEF LedgerSpec

\* Tables and handlers keep their types.
THEOREM LedgerTypes == LedgerSpec => []LedgerTypeOK
<1>1. LedgerInv => LedgerTypeOK
  BY DEF LedgerInv, LedgerTables, LedgerTypeOK
<1> QED BY <1>1, LedgerInvariant, PTL

\* However many deliveries, retransmissions and worker steps interleave, a
\* handler that answers 200 or 202 has a packet row with the delivered bytes and
\* a job that was handed to the queue.
THEOREM SuccessTellsTheTruth == LedgerSpec => []SuccessIsDurable
<1>1. LedgerInv => SuccessIsDurable
  <2> SUFFICES ASSUME LedgerInv, NEW d \in Deliveries, handler[d].reply \in {200, 202}
               PROVE  /\ SeqIn(d) # None
                      /\ packet[SeqIn(d)] # None
                      /\ SourceBody(SeqIn(d)) = handler[d].body
                      /\ job[SeqIn(d)] \in JobStates \ {"PENDING_QUEUE"}
    BY DEF SuccessIsDurable
  <2>1. Backed(handler[d].body) /\ HandedOver(handler[d].body)
    BY DEF LedgerInv, HandlerOK
  <2> QED BY <2>1, ReceivedNumbers DEF Backed, HandedOver, SeqIn
<1> QED BY <1>1, LedgerInvariant, PTL

\* The identity table leaves one receipt per request and bytes.
THEOREM OneReceiptPerIdentity == LedgerSpec => []OneReceiptPerRequest
<1>1. LedgerInv => OneReceiptPerRequest
  BY DEF LedgerInv, RequestOK, OneReceiptPerRequest
<1> QED BY <1>1, LedgerInvariant, PTL

\* ACCEPTED, DUPLICATE and SEQUENCE_CONFLICT agree with the preserved bytes.
THEOREM VerdictsAreJustified == LedgerSpec => []VerdictsMatchEvidence
<1>1. LedgerInv => VerdictsMatchEvidence
  <2> SUFFICES ASSUME LedgerInv, NEW d \in Deliveries, receipt[d] # None
               PROVE  /\ receipt[d].status = "ACCEPTED"
                            => packet[receipt[d].packet].source = d
                      /\ receipt[d].status = "DUPLICATE"
                            => SourceBody(receipt[d].packet) = receipt[d].body
                      /\ receipt[d].status = "CONFLICT"
                         /\ receipt[d].reason = "SEQUENCE_CONFLICT"
                            => SourceBody(receipt[d].packet) # receipt[d].body
    BY DEF VerdictsMatchEvidence
  <2>1. ReceiptOK(d)
    BY DEF LedgerInv
  <2> QED BY <2>1 DEF ReceiptOK, Backed
<1> QED BY <1>1, LedgerInvariant, PTL
-----------------------------------------------------------------------------
(* Packet rows and the sequence state.                                     *)

\* The acceptance transaction of handler d commits a packet for s, with the
\* sequence state it read still in place.
Inserts(d, s, state) ==
    /\ s \in Received /\ packet[s] = None /\ state = seqState
    /\ handler[d].receipt \in Deliveries
    /\ state # None
          => StorageDisposition(state.high_water, s) # "SEQUENCE_STATE_CONFLICT"
    /\ InsertPacket(d, s, state)

\* Every other step leaves packets and sequence state alone, and lets no job
\* wait for its first queueing.
LEMMA OnlyInserts ==
    ASSUME LedgerInv, LedgerNext
    PROVE  \/ /\ UNCHANGED <<packet, seqState>>
              /\ \A s \in Received : job[s] # "PENDING_QUEUE" => job'[s] # "PENDING_QUEUE"
           \/ \E d \in Deliveries : \E s, state : Inserts(d, s, state)
<1>1. job \in [Received -> JobStates \cup {None}]
  BY DEF LedgerInv, LedgerTables
<1>2. CASE UNCHANGED <<packet, seqState, job>>
  BY <1>2
<1>3. CASE \E s \in Received : WorkerStep(s)
  BY <1>1, <1>3 DEF WorkerStep
<1>4. ASSUME NEW d \in Deliveries, MarkJobQueued(d)
      PROVE  /\ UNCHANGED <<packet, seqState>>
             /\ \A s \in Received : job[s] # "PENDING_QUEUE" => job'[s] # "PENDING_QUEUE"
  <2>1. /\ UNCHANGED <<packet, seqState>>
        /\ UNCHANGED job \/ job' = [job EXCEPT ![SeqIn(d)] = "QUEUED"]
    BY <1>4 DEF MarkJobQueued
  <2> QED BY <1>1, <2>1
<1>5. ASSUME NEW d \in Deliveries, AcceptSequence(d) \/ AcceptFirst(d)
      PROVE  \/ UNCHANGED <<packet, seqState, job>>
             \/ \E s, state : Inserts(d, s, state)
  <2>1. SeqIn(d) \in Received /\ handler[d].receipt \in Deliveries
    BY <1>5 DEF AcceptSequence, AcceptFirst, At, LedgerInv, HandlerOK, SeqIn, Working
  <2>2. CASE AcceptSequence(d)
    <3>1. \/ UNCHANGED <<packet, seqState, job>>
          \/ Inserts(d, SeqIn(d), seqState)
      BY <2>1, <2>2 DEF AcceptSequence, AcceptIntegrityError, Inserts, tables
    <3> QED BY <3>1
  <2>3. CASE AcceptFirst(d)
    <3>1. \/ UNCHANGED <<packet, seqState, job>>
          \/ seqState = None /\ packet[SeqIn(d)] = None /\ InsertPacket(d, SeqIn(d), None)
      BY <2>3 DEF AcceptFirst, AcceptIntegrityError, tables
    <3> QED BY <2>1, <3>1 DEF Inserts
  <2> QED BY <1>5, <2>2, <2>3
<1>6. ASSUME NEW d \in Deliveries, Arrive(d) \/ RecordLookup(d) \/ RecordInsert(d)
                                   \/ Replay(d) \/ Enqueue(d) \/ Abort(d)
      PROVE  UNCHANGED <<packet, seqState, job>>
  BY <1>6 DEF Arrive, RecordLookup, RecordInsert, Replay, Enqueue, Abort, tables
<1>7. ASSUME NEW d \in Deliveries, Validate(d) \/ AcceptLookup(d)
      PROVE  UNCHANGED <<packet, seqState, job>>
  BY <1>7 DEF Validate, RejectDelivery, AcceptLookup, tables
<1> QED BY <1>2, <1>3, <1>4, <1>5, <1>6, <1>7 DEF LedgerNext

\* A committed packet row never changes, and its job does not return to
\* PENDING_QUEUE: a retransmission cannot make it new work.
THEOREM PacketsStay == LedgerSpec => PacketRowsArePermanent
<1>1. LedgerInv /\ [LedgerNext]_ledgerVars
        => [\A s \in Received :
              packet[s] # None =>
                 /\ packet'[s] = packet[s]
                 /\ job[s] # "PENDING_QUEUE" => job'[s] # "PENDING_QUEUE"]_ledgerVars
  <2> SUFFICES ASSUME LedgerInv, LedgerNext, NEW t \in Received, packet[t] # None
               PROVE  /\ packet'[t] = packet[t]
                      /\ job[t] # "PENDING_QUEUE" => job'[t] # "PENDING_QUEUE"
    OBVIOUS
  <2>1. CASE \E d \in Deliveries : \E s, state : Inserts(d, s, state)
    <3>0. PICK d \in Deliveries : \E s, state : Inserts(d, s, state)
      BY <2>1
    <3>1. PICK s, state : Inserts(d, s, state)
      BY <3>0
    <3>2. /\ packet[s] = None /\ packet \in [Received -> Packets \cup {None}]
          /\ job \in [Received -> JobStates \cup {None}]
      BY <3>1 DEF Inserts, LedgerInv, LedgerTables
    <3>3. /\ job' = [job EXCEPT ![s] = "PENDING_QUEUE"]
          /\ \E p : packet' = [packet EXCEPT ![s] = p]
      BY <3>1 DEF Inserts, InsertPacket
    <3> QED BY <3>2, <3>3
  <2> QED BY <2>1, OnlyInserts
<1> QED BY <1>1, LedgerInvariant, PTL DEF LedgerSpec, PacketRowsArePermanent

\* A session spans less than half of the number space: beyond that no receiver
\* can tell a late frame from a new one.
WithinHalfRange == \A s, t \in Received : s - t < HalfRange

\* Inside such a session an older frame is LATE, a newer one IN_ORDER or GAP.
LEMMA DispositionInSession ==
    ASSUME WithinHalfRange, NEW last \in Received, NEW s \in Received, s # last
    PROVE  /\ s < last => /\ StorageDisposition(last, s) = "LATE"
                          /\ StorageMissingBefore(last, s) = 0
                          /\ StorageNextHighWater(last, s) = last
           /\ s > last => /\ StorageDisposition(last, s) \in {"IN_ORDER", "GAP"}
                          /\ StorageMissingBefore(last, s) = s - last - 1
                          /\ StorageNextHighWater(last, s) = s
<1> DEFINE d == ForwardDistance(last, s)
           t == StorageDisposition(last, s)
<1>1. /\ last \in 0..(Modulus - 1) /\ s \in 0..(Modulus - 1) /\ last # None
      /\ s - last < HalfRange /\ last - s < HalfRange
  BY ReceivedNumbers DEF WithinHalfRange, SequenceNumbers
<1>2. HalfRange \in Nat /\ Modulus = 2 * HalfRange /\ Modulus \in Nat
  BY ModulusAssumption DEF HalfRange
<1>3. d = IF last <= s THEN s - last ELSE s - last + Modulus
  BY <1>1, ModulusAssumption DEF ForwardDistance
<1>4. t = IF d = 0 THEN "SEQUENCE_STATE_CONFLICT"
          ELSE IF d = 1 THEN "IN_ORDER" ELSE IF d < HalfRange THEN "GAP" ELSE "LATE"
  BY <1>1 DEF StorageDisposition
<1>5. CASE s < last
  <2>1. d # 0 /\ d # 1 /\ ~ (d < HalfRange)
    <3> HIDE DEF d
    <3> QED BY <1>1, <1>2, <1>3, <1>5
  <2> HIDE DEF d
  <2>2. t = "LATE"
    BY <1>4, <2>1
  <2> HIDE DEF t
  <2>3. t # "FIRST" /\ t # "GAP" /\ t \notin {"FIRST", "IN_ORDER", "GAP"}
    BY <2>2
  <2>4. StorageMissingBefore(last, s) = 0
    BY <2>3, Zenon DEF StorageMissingBefore, t
  <2>5. StorageNextHighWater(last, s) = last
    BY <2>3 DEF StorageNextHighWater, StorageAdvances, t
  <2> QED BY <1>1, <1>5, <2>2, <2>4, <2>5 DEF t
<1>6. CASE s > last
  <2>1. d = s - last /\ d # 0 /\ d < HalfRange
    <3> HIDE DEF d
    <3> QED BY <1>1, <1>2, <1>3, <1>6
  <2> HIDE DEF d
  <2>2. t = IF d = 1 THEN "IN_ORDER" ELSE "GAP"
    BY <1>4, <2>1
  <2> HIDE DEF t
  <2>3. t \in {"IN_ORDER", "GAP"} /\ t \in {"FIRST", "IN_ORDER", "GAP"} /\ t # "FIRST"
    BY <2>2
  <2>4. StorageMissingBefore(last, s) = d - 1
    <3>1. CASE d = 1
      <4>1. t # "GAP"
        BY <2>2, <3>1
      <4>2. StorageMissingBefore(last, s) = 0
        BY <2>3, <4>1, Zenon DEF StorageMissingBefore, t
      <4> QED BY <3>1, <4>2
    <3>2. CASE d # 1
      <4>1. t = "GAP"
        BY <2>2, <3>2
      <4> QED BY <2>3, <4>1, Zenon DEF StorageMissingBefore, t, d
    <3> QED BY <3>1, <3>2
  <2>5. StorageNextHighWater(last, s) = s
    BY <2>3 DEF StorageNextHighWater, StorageAdvances, t
  <2> QED BY <1>1, <1>6, <2>1, <2>3, <2>4, <2>5 DEF t
<1> QED BY <1>1, <1>5, <1>6

\* The packets that came late.
LateRows == {s \in PacketRows : packet[s].disposition = "LATE"}

\* What a new packet does to the tables, by how it relates to the mark.
LEMMA InsertEffect ==
    ASSUME LedgerInv, SequenceStateIsSummary, WithinHalfRange, NEW d \in Deliveries,
           NEW s, NEW state, Inserts(d, s, state)
    PROVE  /\ s \in Nat /\ s \in Received /\ s \notin PacketRows
           /\ PacketRows' = PacketRows \cup {s}
           /\ seqState' # None
           /\ \/ /\ state = None /\ PacketRows = {} /\ LateRows' = {}
                 /\ seqState'.high_water = s /\ seqState'.accepted = 1
                 /\ seqState'.missing = s
              \/ /\ state # None /\ s < state.high_water /\ LateRows' = LateRows \cup {s}
                 /\ seqState'.high_water = state.high_water
                 /\ seqState'.accepted = state.accepted + 1
                 /\ seqState'.missing = state.missing
              \/ /\ state # None /\ s > state.high_water /\ LateRows' = LateRows
                 /\ seqState'.high_water = s /\ seqState'.accepted = state.accepted + 1
                 /\ seqState'.missing = state.missing + (s - state.high_water - 1)
<1>1. /\ s \in Received /\ packet[s] = None /\ state = seqState
      /\ packet \in [Received -> Packets \cup {None}]
      /\ state \in SequenceStates \cup {None}
  BY DEF Inserts, LedgerInv, LedgerTables
<1>2. s \in Nat /\ s \in SequenceNumbers /\ Received \subseteq Nat
  BY <1>1, ReceivedNumbers DEF SequenceNumbers
<1>3. PICK high : high = IF state = None THEN None ELSE state.high_water
  OBVIOUS
<1>4. /\ packet' = [packet EXCEPT ![s] =
            [source |-> handler[d].receipt, disposition |-> StorageDisposition(high, s),
             missing_before |-> StorageMissingBefore(high, s)]]
      /\ seqState' = [high_water |-> StorageNextHighWater(high, s),
                      accepted |-> IF state = None THEN 1 ELSE state.accepted + 1,
                      missing |-> IF state = None THEN StorageMissingBefore(high, s)
                                  ELSE state.missing + StorageMissingBefore(high, s)]
  BY <1>3 DEF Inserts, InsertPacket
<1>5. high \in SequenceNumbers \cup {None}
  BY <1>1, <1>3 DEF SequenceStates
<1>6. /\ StorageDisposition(high, s) \in {"FIRST", "IN_ORDER", "GAP", "LATE"}
      /\ StorageMissingBefore(high, s) \in Nat
      /\ StorageNextHighWater(high, s) \in SequenceNumbers
  <2>1. StorageDisposition(high, s) # "SEQUENCE_STATE_CONFLICT"
    <3>1. CASE state = None
      BY <1>3, <3>1 DEF StorageDisposition
    <3>2. CASE state # None
      BY <1>3, <3>2 DEF Inserts
    <3> QED BY <3>1, <3>2
  <2> QED BY <1>2, <1>5, <2>1, StorageTypes
<1>7. PICK p \in Packets : /\ packet' = [packet EXCEPT ![s] = p]
                          /\ p.disposition = StorageDisposition(high, s)
  <2> DEFINE p == [source |-> handler[d].receipt,
                   disposition |-> StorageDisposition(high, s),
                   missing_before |-> StorageMissingBefore(high, s)]
  <2>1. p \in Packets /\ p.disposition = StorageDisposition(high, s)
    BY <1>6 DEF Packets, Inserts
  <2> QED BY <1>4, <2>1
<1>8. /\ p # None /\ packet'[s] = p
      /\ \A t \in Received : t # s => packet'[t] = packet[t]
  BY <1>1, <1>7, RowsAreRows
<1>9. /\ s \notin PacketRows /\ PacketRows' = PacketRows \cup {s}
      /\ p.disposition = "LATE" => LateRows' = LateRows \cup {s}
      /\ p.disposition # "LATE" => LateRows' = LateRows
  BY <1>1, <1>8 DEF PacketRows, LateRows
<1>10. /\ seqState'.high_water = StorageNextHighWater(high, s)
       /\ seqState'.accepted = IF state = None THEN 1 ELSE state.accepted + 1
       /\ seqState'.missing = IF state = None THEN StorageMissingBefore(high, s)
                              ELSE state.missing + StorageMissingBefore(high, s)
  BY <1>4
<1>11. seqState' # None
  <2>1. /\ (IF state = None THEN 1 ELSE state.accepted + 1) \in Nat
        /\ (IF state = None THEN StorageMissingBefore(high, s)
            ELSE state.missing + StorageMissingBefore(high, s)) \in Nat
    BY <1>1, <1>6 DEF SequenceStates
  <2>2. seqState' \in SequenceStates
    BY <1>4, <1>6, <2>1 DEF SequenceStates
  <2> QED BY <2>2, RowsAreRows
<1>12. CASE state = None
  <2>1. StorageDisposition(high, s) = "FIRST"
    BY <1>3, <1>12 DEF StorageDisposition
  <2>2. StorageMissingBefore(high, s) = s
    BY <2>1, Zenon DEF StorageMissingBefore
  <2>3. StorageNextHighWater(high, s) = s
    BY <2>1 DEF StorageNextHighWater, StorageAdvances
  <2>4. PacketRows = {}
    BY <1>1, <1>12 DEF SequenceStateIsSummary
  <2>5. LateRows = {} /\ LateRows' = LateRows
    BY <1>7, <1>9, <2>1, <2>4 DEF LateRows
  <2> QED BY <1>1, <1>2, <1>9, <1>10, <1>11, <1>12, <2>2, <2>3, <2>4, <2>5
<1>13. CASE state # None
  <2>1. high = state.high_water /\ high \in PacketRows
    BY <1>1, <1>3, <1>13 DEF SequenceStateIsSummary
  <2>2. high \in Received /\ high \in Nat /\ high # s
    BY <1>2, <1>9, <2>1 DEF PacketRows
  <2>3. CASE s < high
    <3>1. /\ StorageDisposition(high, s) = "LATE" /\ StorageMissingBefore(high, s) = 0
          /\ StorageNextHighWater(high, s) = high
      BY <1>1, <2>2, <2>3, DispositionInSession
    <3>2. state.missing \in Nat
      BY <1>1, <1>13 DEF SequenceStates
    <3> QED BY <1>1, <1>2, <1>7, <1>9, <1>10, <1>11, <1>13, <2>1, <2>3, <3>1, <3>2
  <2>4. CASE s > high
    <3>1. /\ StorageDisposition(high, s) \in {"IN_ORDER", "GAP"}
          /\ StorageMissingBefore(high, s) = s - high - 1
          /\ StorageNextHighWater(high, s) = s
      BY <1>1, <2>2, <2>4, DispositionInSession
    <3> QED BY <1>1, <1>2, <1>7, <1>9, <1>10, <1>11, <1>13, <2>1, <2>4, <3>1
  <2> QED BY <1>2, <2>2, <2>3, <2>4
<1> QED BY <1>12, <1>13

\* The rows counted by the summary are finitely many.
LEMMA CountedRowsFinite ==
    ASSUME NEW high \in Nat
    PROVE  /\ IsFiniteSet(PacketRows) /\ IsFiniteSet(LateRows)
           /\ IsFiniteSet((0..high) \ PacketRows)
<1>1. IsFiniteSet(0..(Modulus - 1)) /\ IsFiniteSet(0..high)
  BY FS_Interval, ModulusAssumption
<1>2. IsFiniteSet(Received)
  BY <1>1, FS_Subset, ReceivedNumbers DEF SequenceNumbers
<1> QED BY <1>1, <1>2, FS_Subset, FS_Difference DEF PacketRows, LateRows

\* A new packet moves both sides of the account alike.
LEMMA InsertKeepsSummary ==
    ASSUME LedgerInv, SequenceStateIsSummary, WithinHalfRange, NEW d \in Deliveries,
           NEW s, NEW state, Inserts(d, s, state)
    PROVE  SequenceStateIsSummary'
<1>1. PICK rows, late, high, accepted, missing :
         /\ rows = PacketRows /\ late = LateRows
         /\ high = seqState'.high_water /\ accepted = seqState'.accepted
         /\ missing = seqState'.missing
  OBVIOUS
<1>2. /\ s \in Nat /\ s \notin rows /\ PacketRows' = rows \cup {s} /\ seqState' # None
      /\ \/ /\ state = None /\ rows = {} /\ LateRows' = {}
            /\ high = s /\ accepted = 1 /\ missing = s
         \/ /\ state # None /\ s < state.high_water /\ LateRows' = late \cup {s}
            /\ high = state.high_water /\ accepted = state.accepted + 1
            /\ missing = state.missing
         \/ /\ state # None /\ s > state.high_water /\ LateRows' = late
            /\ high = s /\ accepted = state.accepted + 1
            /\ missing = state.missing + (s - state.high_water - 1)
  BY <1>1, InsertEffect
<1>3. /\ IsFiniteSet(rows) /\ IsFiniteSet(late)
      /\ Cardinality(rows) \in Nat /\ Cardinality(late) \in Nat
  <2>1. IsFiniteSet(PacketRows) /\ IsFiniteSet(LateRows)
    BY CountedRowsFinite, 0 \in Nat
  <2> QED BY <1>1, <2>1, FS_CardinalityType
<1>4. rows \subseteq Nat /\ s \notin late
  <2>1. rows \subseteq Received /\ late \subseteq rows
    BY <1>1 DEF PacketRows, LateRows
  <2>2. Received \subseteq Nat
    BY ReceivedNumbers DEF SequenceNumbers
  <2> QED BY <1>2, <2>1, <2>2
<1>5. Cardinality(rows \cup {s}) = Cardinality(rows) + 1
  BY <1>2, <1>3, FS_AddElement
<1>6. ASSUME state # None
      PROVE  /\ state.high_water \in rows /\ \A t \in rows : t <= state.high_water
             /\ state.high_water \in Nat /\ state.accepted = Cardinality(rows)
             /\ state.missing = Cardinality((0..state.high_water) \ rows) + Cardinality(late)
  <2>1. state = seqState /\ rows # {}
    BY <1>1, <1>6 DEF Inserts, SequenceStateIsSummary
  <2> QED BY <1>1, <1>4, <2>1 DEF SequenceStateIsSummary, LateRows
<1>7. /\ high \in rows \cup {s} /\ \A t \in rows \cup {s} : t <= high
      /\ accepted = Cardinality(rows \cup {s})
      /\ missing = Cardinality((0..high) \ (rows \cup {s})) + Cardinality(LateRows')
  <2>1. CASE state = None
    <3>1. rows = {} /\ LateRows' = {} /\ high = s /\ accepted = 1 /\ missing = s
      BY <1>2, <2>1
    <3>2. (0..s) \ ({} \cup {s}) = 0..(s - 1)
      BY <1>2
    <3>3. Cardinality(0..(s - 1)) = s /\ Cardinality({}) = 0
      BY <1>2, FS_Interval, FS_EmptySet
    <3>4. Cardinality(rows \cup {s}) = 1
      BY <1>5, <3>1, <3>3
    <3>5. Cardinality((0..high) \ (rows \cup {s})) = s /\ Cardinality(LateRows') = 0
      BY <3>1, <3>2, <3>3
    <3>6. missing = Cardinality((0..high) \ (rows \cup {s})) + Cardinality(LateRows')
      BY ONLY <1>2, <3>1, <3>5
    <3>7. high \in rows \cup {s} /\ \A t \in rows \cup {s} : t <= high
      BY <1>2, <3>1
    <3> QED BY <3>1, <3>4, <3>6, <3>7
  <2>2. CASE state # None /\ s < state.high_water
    <3>1. PICK h \in Nat : h = state.high_water
      BY <1>6, <2>2
    <3>2. /\ LateRows' = late \cup {s} /\ high = h /\ accepted = Cardinality(rows) + 1
          /\ missing = Cardinality((0..h) \ rows) + Cardinality(late)
      BY <1>2, <1>6, <2>2, <3>1
    <3> DEFINE open == (0..h) \ rows
    <3>3. IsFiniteSet(open) /\ s \in open
      BY <1>1, <1>2, <2>2, <3>1, CountedRowsFinite
    <3>4. (0..h) \ (rows \cup {s}) = open \ {s}
      OBVIOUS
    <3>5. Cardinality(open \ {s}) = Cardinality(open) - 1 /\ Cardinality(open) \in Nat
      BY <3>3, FS_RemoveElement, FS_CardinalityType
    <3>6. Cardinality(late \cup {s}) = Cardinality(late) + 1
      BY <1>3, <1>4, FS_AddElement
    <3>7. h \in rows /\ \A t \in rows \cup {s} : t <= h
      BY <1>2, <1>6, <2>2, <3>1
    <3>8. missing = Cardinality(open \ {s}) + Cardinality(late \cup {s})
      <4> HIDE DEF open
      <4>1. missing = Cardinality(open) + Cardinality(late)
        BY <3>2 DEF open
      <4> QED BY <1>3, <3>5, <3>6, <4>1
    <3> QED BY <1>5, <3>2, <3>4, <3>7, <3>8
  <2>3. CASE state # None /\ s > state.high_water
    <3>1. PICK h \in Nat : h = state.high_water
      BY <1>6, <2>3
    <3>2. /\ LateRows' = late /\ high = s /\ accepted = Cardinality(rows) + 1
          /\ missing = (Cardinality((0..h) \ rows) + Cardinality(late)) + (s - h - 1)
          /\ s > h /\ \A t \in rows : t <= h
      BY <1>2, <1>6, <2>3, <3>1
    <3> DEFINE open == (0..h) \ rows
               skipped == (h + 1)..(s - 1)
    <3>3. (0..s) \ (rows \cup {s}) = open \cup skipped
      BY <1>2, <1>4, <3>2
    <3>4. IsFiniteSet(open) /\ IsFiniteSet(skipped) /\ open \cap skipped = {}
      <4>1. IsFiniteSet(open)
        BY <1>1, CountedRowsFinite
      <4>2. IsFiniteSet(skipped)
        BY <1>2, FS_Interval
      <4> QED BY <1>2, <4>1, <4>2
    <3>5. Cardinality(skipped) = s - h - 1
      BY <1>2, <3>2, FS_Interval
    <3>6. /\ Cardinality(open) \in Nat /\ Cardinality(skipped) \in Nat
          /\ Cardinality(open \cap skipped) = 0
      BY <3>4, FS_CardinalityType, FS_EmptySet
    <3>7. Cardinality(open \cup skipped)
             = Cardinality(open) + Cardinality(skipped) - Cardinality(open \cap skipped)
      BY <3>4, FS_Union
    <3>8. missing = Cardinality(open \cup skipped) + Cardinality(late)
      <4>1. missing = (Cardinality(open) + Cardinality(late)) + (s - h - 1)
        BY <3>2
      <4> HIDE DEF open, skipped
      <4> QED BY <1>2, <1>3, <3>5, <3>6, <3>7, <4>1
    <3>9. \A t \in rows \cup {s} : t <= s
      BY <1>2, <1>4, <3>2
    <3> HIDE DEF open, skipped
    <3> QED BY <1>5, <3>2, <3>3, <3>8, <3>9
  <2> QED BY <1>2, <2>1, <2>2, <2>3
<1>8. LateRows' = {t \in PacketRows' : packet'[t].disposition = "LATE"}
  BY DEF LateRows
<1>9. PacketRows' # {}
  BY <1>2
<1> QED BY <1>1, <1>2, <1>7, <1>8, <1>9 DEF SequenceStateIsSummary

\* Under concurrent acceptance the sequence state row stays the exact summary of
\* the packet rows: its mark, its count and its missing packets.
THEOREM SummaryIsExact ==
    ASSUME WithinHalfRange
    PROVE  LedgerSpec => []SequenceStateIsSummary
<1>1. LedgerInit => SequenceStateIsSummary
  BY DEF LedgerInit, SequenceStateIsSummary, PacketRows
<1>2. LedgerInv /\ SequenceStateIsSummary /\ [LedgerNext]_ledgerVars => SequenceStateIsSummary'
  <2> SUFFICES ASSUME LedgerInv, SequenceStateIsSummary, [LedgerNext]_ledgerVars
               PROVE  SequenceStateIsSummary'
    OBVIOUS
  <2>1. CASE UNCHANGED <<packet, seqState>>
    BY <2>1 DEF SequenceStateIsSummary, PacketRows
  <2>2. CASE \E d \in Deliveries : \E s, state : Inserts(d, s, state)
    BY <2>2, InsertKeepsSummary
  <2>3. CASE LedgerNext
    BY <2>1, <2>2, <2>3, OnlyInserts
  <2>4. CASE UNCHANGED ledgerVars
    BY <2>1, <2>4 DEF ledgerVars
  <2> QED BY <2>3, <2>4
<1> QED BY <1>1, <1>2, LedgerInvariant, PTL DEF LedgerSpec
=============================================================================
