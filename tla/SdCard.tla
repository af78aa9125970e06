------------------------------- MODULE SdCard -------------------------------
(***************************************************************************)
(* The card drivers below the FAT code: hw/sdcard_ws.rs, which speaks the  *)
(* native protocol through the SDHOST controller, and hw/sdcard_m5.rs,     *)
(* which toggles the pins itself.  Both boards share the card's pins with  *)
(* the display, so every use of the card is a session (with_sd_card): take *)
(* the pins, find the card, run the caller's reads and writes, let go of   *)
(* the card, give the pins back.  The user may pull the card and put in    *)
(* another at any moment; a card that was just put in knows no address and *)
(* answers nothing until it is initialised.                                *)
(*                                                                         *)
(* Detours are what the code does not provide for, each left out of the    *)
(* checked instance:                                                       *)
(*   "late failure"      the card is given its address and then fails      *)
(*   "no end"            a transfer ends with neither an end nor an error  *)
(*   "slow card"         a block is still being programmed when the        *)
(*                       bit-banged multi-write stops waiting for it       *)
(*   "pulled while busy" the card leaves while it programs a block         *)
(*   "power unread"      the power chip does not answer the read           *)
(*   "deselect lost"     the card misses the command that deselects it     *)
(***************************************************************************)
EXTENDS Integers, FiniteSets

CONSTANTS Cards, ByteCards,  \* the cards, and those addressed in bytes
          SizeOf,            \* a card's capacity
          Blocks, Spans,     \* blocks, and the runs of them a caller asks for
          MaxSessions,       \* bound: sessions begun
          MaxSwaps,          \* bound: cards put in
          Detours, None

Unit == 512
Kinds == {"bytes", "blocks"}
KindOf(c) == IF c \in ByteCards THEN "bytes" ELSE "blocks"
Values == 0..MaxSessions      \* 0 is what a card comes with

ASSUME CardsAssumption ==
  /\ None \notin Cards /\ ByteCards \subseteq Cards
  /\ Blocks \subseteq 1..Unit - 1 /\ Spans \subseteq (SUBSET Blocks) \ {{}}
  /\ SizeOf \in [Cards -> Nat \ {0}]
  /\ MaxSessions \in Nat /\ MaxSwaps \in Nat
  /\ Detours \subseteq {"late failure", "no end", "slow card", "pulled while busy",
                        "power unread", "deselect lost"}

VARIABLES board,    \* "ws" or "m5"
          slot,     \* the card in the slot: which, in what state, programming what
          memory,   \* what the cards hold
          host,     \* what the driver keeps between sessions
          pins,     \* whose the shared pins are, and the m5's chip select
          power,    \* the m5's supplies that are on
          task,     \* the session under way, or the last one
          spent     \* sessions and swaps so far

cardVars == <<board, slot, memory, host, pins, power, task, spent>>

-----------------------------------------------------------------------------
(* The card, as the drivers meet it. *)

NoCard == [card |-> None, mode |-> "out", busy |-> {}]
Put(c) == [card |-> c, mode |-> "idle", busy |-> {}]
Ready  == IF board = "ws" THEN "tran" ELSE "spi"
There  == slot.card # None
Mode(m) == [slot EXCEPT !.mode = m]

\* The block an address stands for on the card: a card addressed in bytes
\* refuses one that is not a whole block, 0 is a block nobody asked for.
Sent(b) == IF task.type = "blocks" THEN b ELSE b * Unit
Where(b) == IF KindOf(slot.card) = "blocks" THEN Sent(b)
            ELSE IF Sent(b) % Unit = 0 THEN Sent(b) \div Unit ELSE 0

Idle == [kind |-> "none", step |-> "idle", type |-> "none", found |-> "none",
         op |-> "none", todo |-> {}, done |-> {}, told |-> {}, size |-> 0]

CardInit ==
  /\ board \in {"ws", "m5"}
  /\ slot \in {NoCard} \union {Put(c) : c \in Cards}
  /\ memory = [c \in Cards |-> [b \in Blocks |-> 0]]
  /\ host = [type |-> "none", address |-> 0, sectors |-> 0]
  /\ pins = [owner |-> "display", select |-> FALSE]
  /\ power = {"card", "rest"}
  /\ task = [Idle EXCEPT !.step = "boot"]
  /\ spent = [sessions |-> 0, swaps |-> 0]

\* What a card was programming when its power went is anything.
Torn(m) == IF There THEN [m EXCEPT ![slot.card] =
                            [b \in Blocks |-> IF b \in slot.busy THEN -1 ELSE @[b]]]
           ELSE m

Pull == /\ There /\ (slot.busy # {} => "pulled while busy" \in Detours)
        /\ slot' = NoCard /\ memory' = Torn(memory)
        /\ UNCHANGED <<board, host, pins, power, task, spent>>

Insert(c) == /\ ~There /\ spent.swaps < MaxSwaps
             /\ slot' = Put(c) /\ spent' = [spent EXCEPT !.swaps = @ + 1]
             /\ UNCHANGED <<board, memory, host, pins, power, task>>

\* The block is programmed, in the card's own time.
Programmed == /\ There /\ slot.busy # {} /\ slot' = [slot EXCEPT !.busy = {}]
              /\ UNCHANGED <<board, memory, host, pins, power, task, spent>>

-----------------------------------------------------------------------------
(* The session. *)

Step(s) == task' = [task EXCEPT !.step = s]
At(s)   == task.step = s /\ UNCHANGED <<board, spent>>

\* The pins are routed to the card, and back to the display; on the m5 every
\* failure lifts the select.
Take     == pins' = [pins EXCEPT !.owner = "card"]
GiveBack == pins' = [owner |-> "display", select |-> FALSE]
Fails == GiveBack /\ task' = Idle

Begins == [Idle EXCEPT !.kind = "session", !.type = host.type,
             !.told = IF board = "m5" THEN task.told ELSE {},
             !.step = IF board = "m5" THEN "cycle"
                      ELSE IF host.address # 0 THEN "ask" ELSE "identify"]

\* init_sdhost and init_sd_card_m5, after the display took the pins.
Boot == /\ At("boot")
        /\ Take
        /\ task' = [Idle EXCEPT !.kind = "boot",
                      !.step = IF board = "ws" THEN "identify" ELSE "cycle"]
        /\ UNCHANGED <<slot, memory, host, power>>

\* with_sd_card; the controller's clock may not start, which costs the address.
\* On the m5 the last session's blocks are not safe before its supply is cut.
Enter == /\ task.step = "idle" /\ spent.sessions < MaxSessions
         /\ spent' = [spent EXCEPT !.sessions = @ + 1]
         /\ IF board = "ws" /\ host.type = "none"
            THEN task' = Idle /\ UNCHANGED pins           \* "No SD card"
            ELSE /\ Take
                 /\ task' \in {Begins} \union
                      (IF board = "ws" THEN {[Begins EXCEPT !.step = "identify"]} ELSE {})
         /\ UNCHANGED <<board, slot, memory, host, power>>

\* CMD13: a card in stand-by or in transfer that owns the address answers.
Answers == There /\ slot.mode \in {"stby", "tran"}
Asked == /\ At("ask")
         /\ \/ Answers /\ Step(IF slot.mode = "stby" THEN "reselect" ELSE "closure")
            \/ Step("identify")                           \* no answer, or a bad one
         /\ UNCHANGED <<slot, memory, host, pins, power>>
Reselected == /\ At("reselect")
              /\ \/ /\ There /\ slot.mode = "stby"
                    /\ slot' = Mode("tran") /\ Step("closure")
                 \/ UNCHANGED slot /\ Step("identify")
              /\ UNCHANGED <<memory, host, pins, power>>

Late == "late failure" \in Detours
\* sdhost_init_card up to CMD3: the card is given its address, the driver
\* takes it over and forgets the capacity.
Identified ==
  /\ At("identify") /\ board = "ws"
  /\ \/ /\ There /\ slot' = Mode("stby")
        /\ task' = [task EXCEPT !.step = "capacity", !.found = KindOf(slot.card)]
        /\ host' = [host EXCEPT !.address = 1, !.sectors = 0]
        /\ UNCHANGED pins
     \/ /\ slot' \in IF ~There THEN {slot}
                    ELSE {Mode("idle")} \union (IF Late THEN {Mode("stby")} ELSE {})
        /\ Fails /\ UNCHANGED host
  /\ UNCHANGED <<memory, power>>

\* CMD9, in stand-by; the answer is read in both orders and may make no sense.
Measured ==
  /\ At("capacity") /\ Step("select")
  /\ host' \in {host} \union (IF There /\ slot.mode = "stby"
                              THEN {[host EXCEPT !.sectors = SizeOf[slot.card]]} ELSE {})
  /\ UNCHANGED <<slot, memory, pins, power>>

\* CMD7: the card drives D0 from here on.
Selected ==
  /\ At("select")
  /\ \/ There /\ slot.mode = "stby" /\ slot' = Mode("tran") /\ Step("settle") /\ UNCHANGED pins
     \/ ~(There /\ slot.mode = "stby" /\ ~Late) /\ UNCHANGED slot /\ Fails
  /\ UNCHANGED <<memory, host, power>>

\* The busy wait, CMD16 and the fast clock; only now is the type kept. At boot
\* the card is let go of at once.
MutSettled ==
  /\ At("settle")
  /\ \/ /\ There /\ slot.mode = "tran"
        /\ IF task.kind = "boot" THEN host' = [host EXCEPT !.type = task.found] /\ Step("leave")
           ELSE UNCHANGED host /\ Step("closure")
        /\ UNCHANGED pins
     \/ ~(There /\ slot.mode = "tran" /\ ~Late) /\ UNCHANGED host /\ Fails
  /\ UNCHANGED <<slot, memory, power>>
Settled ==
  /\ At("settle")
  /\ \/ /\ There /\ slot.mode = "tran"
        /\ host' = [host EXCEPT !.type = task.found]
        /\ task' = [task EXCEPT !.step = IF task.kind = "boot" THEN "leave" ELSE "closure",
                                !.type = task.found]
        /\ UNCHANGED pins
     \/ ~(There /\ slot.mode = "tran" /\ ~Late) /\ UNCHANGED host /\ Fails
  /\ UNCHANGED <<slot, memory, power>>

\* The m5 switches the card's supply off and on by the power chip's register,
\* whose other bits it writes back as it read them; each of the two writes may
\* be lost, and a read that fails leaves zeroes to write back.
PowerCycled ==
  /\ At("cycle")
  /\ \E read \in {power} \union (IF "power unread" \in Detours THEN {{}} ELSE {}),
        off, on \in BOOLEAN :
       LET low == IF off THEN read \ {"card"} ELSE power IN
       /\ power' = IF on THEN read \union {"card"} ELSE low
       /\ IF There /\ "card" \notin low THEN slot' = Put(slot.card) /\ memory' = Torn(memory)
          ELSE UNCHANGED <<slot, memory>>
  /\ Step("identify")
  /\ UNCHANGED <<host, pins>>

\* bitbang_init, which asks for the type and lifts the select again.
Initialised ==
  /\ At("identify") /\ board = "m5"
  /\ \/ /\ There /\ "card" \in power /\ slot' = [Mode("spi") EXCEPT !.busy = {}]
        /\ task' = [task EXCEPT !.step = IF task.kind = "boot" THEN "leave" ELSE "closure",
                                !.type = KindOf(slot.card), !.told = {}]
        /\ UNCHANGED pins
     \/ UNCHANGED slot /\ Fails
  /\ UNCHANGED <<memory, host, power>>

-----------------------------------------------------------------------------
(* The closure: the caller reads and writes runs of blocks and, to format, *)
(* asks for the capacity.  An operation that fails tells it nothing; the   *)
(* caller stops, or goes on as the card test does.                         *)

Attends == There /\ slot.mode = Ready
Select(on) == pins' = [pins EXCEPT !.select = on /\ board = "m5"]
Refused == [task EXCEPT !.step = "closure", !.op = "none", !.todo = {}, !.done = {}]
Told(b) == {t \in task.told : t.block = b}

\* CMD17, CMD18, CMD24, CMD25: a run of one block takes the single command.
\* What the caller knew of the blocks it writes is void.
Issued(op, span) ==
  /\ At("closure")
  /\ Attends
  /\ task' = [task EXCEPT !.step = "data", !.op = op, !.todo = span,
                !.told = IF op = "write" THEN @ \ UNION {Told(b) : b \in span} ELSE @]
  /\ Select(TRUE)
  /\ UNCHANGED <<slot, memory, host, power>>

\* The capacity the ws read when it identified the card, or a fresh CMD9.
WsCapacity == /\ At("closure") /\ board = "ws" /\ task' = [task EXCEPT !.size = host.sectors]
              /\ UNCHANGED <<slot, memory, host, pins, power>>
M5Capacity == /\ At("closure") /\ board = "m5" /\ Attends
              /\ task' = [task EXCEPT !.size = SizeOf[slot.card]]
              /\ UNCHANGED <<slot, memory, host, pins, power>>

Lowest == CHOOSE b \in task.todo : \A c \in task.todo : b <= c
Value  == spent.sessions
Took(b, v) ==
  task' = [task EXCEPT !.todo = @ \ {b}, !.step = IF task.todo = {b} THEN "end" ELSE "data",
             !.done = @ \union {[card |-> slot.card, block |-> b, value |-> v]}]

\* The card takes a block once the one before it is programmed, and starts to
\* program it; a block it was not meant to get is elsewhere.
Programs(w) == /\ Attends /\ w # 0 /\ slot.busy = {} /\ Took(Lowest, Value)
               /\ IF w \in Blocks
                  THEN /\ memory' = [memory EXCEPT ![slot.card][w] = Value]
                       /\ slot' = [slot EXCEPT !.busy = {w}]
                  ELSE UNCHANGED <<memory, slot>>
Gives(w) == /\ Attends /\ w # 0 /\ UNCHANGED <<slot, memory>>
            /\ Took(Lowest, IF w \in Blocks THEN memory[slot.card][w] ELSE -1)

Moves(op, b) == At("data") /\ task.op = op /\ board = b /\ UNCHANGED <<host, pins, power>>

\* The ws polls for the end of the transfer, and goes on when it has polled enough.
WsWrote == /\ Moves("write", "ws")
           /\ \/ Programs(Where(Lowest))
              \/ /\ "no end" \in Detours
                 /\ Took(Lowest, Value) /\ UNCHANGED <<memory, slot>>
WsGot   == Moves("read", "ws") /\ Gives(Where(Lowest))
\* The m5 looks at the card's answer to each block.
M5Wrote == Moves("write", "m5") /\ Programs(Where(Lowest))
M5Got   == Moves("read", "m5") /\ Gives(Where(Lowest))

\* The busy wait. Its running out is an error, but not in the m5's multi-write.
Ends == /\ At("end")
        /\ task' = [Refused EXCEPT !.told = (@ \ UNION {Told(t.block) : t \in task.done})
                                              \union task.done]
        /\ Select(FALSE)
        /\ UNCHANGED <<slot, memory, host, power>>
WsClosed == board = "ws" /\ slot.busy = {} /\ Ends
M5Closed == /\ board = "m5" /\ Ends
            /\ slot.busy = {} \/ (Cardinality(task.done) > 1 /\ "slow card" \in Detours)

\* An error at any point: no answer, a bad check sum, a refused block, a wait
\* that ran out.
Failed == /\ task.step \in {"data", "end"} /\ UNCHANGED <<board, spent>>
          /\ task' = Refused /\ Select(FALSE)
          /\ UNCHANGED <<slot, memory, host, power>>

\* The way out: CMD7 with no address makes the ws's card let go of D0.
Leaves == /\ At("closure") \/ At("leave")
          /\ GiveBack
          /\ task' = [Idle EXCEPT !.told = task.told, !.size = task.size, !.type = task.type]
          /\ UNCHANGED <<memory, host, power>>
WsLeave == /\ board = "ws" /\ Leaves
           /\ IF There /\ slot.mode = "tran"
              THEN slot' \in {Mode("stby")} \union
                                 (IF "deselect lost" \in Detours THEN {slot} ELSE {})
              ELSE UNCHANGED slot
M5Leave == board = "m5" /\ Leaves /\ UNCHANGED slot

CardNext ==
  \/ Pull \/ Programmed \/ \E c \in Cards : Insert(c)
  \/ Boot \/ Enter \/ Asked \/ Reselected \/ Identified \/ Measured \/ Selected \/ Settled
  \/ PowerCycled \/ Initialised
  \/ \E op \in {"read", "write"}, span \in Spans : Issued(op, span)
  \/ WsCapacity \/ WsWrote \/ WsGot \/ WsClosed \/ WsLeave
  \/ M5Capacity \/ M5Wrote \/ M5Got \/ M5Closed \/ M5Leave \/ Failed

CardSpec == CardInit /\ [][CardNext]_cardVars

-----------------------------------------------------------------------------
(* Properties. *)

\* What the FAT code is told is done is done: after every operation that ended
\* without an error, the blocks it wrote or read hold what the caller believes,
\* all of them on one card, of the capacity the caller was given, however often
\* the card was pulled and another put in.
DoneIsOnCard ==
  \A t \in task.told :
    /\ t.card \in Cards /\ memory[t.card][t.block] = t.value
    /\ task.size \in {0, SizeOf[t.card]}
    /\ \A u \in task.told : u.card = t.card

\* A card that takes the driver's commands is addressed as its kind requires:
\* BOOT_CARD_TYPE and CARD_SECTORS outlive the card they were read from.
RightCard ==
  task.step \in {"closure", "data", "end"} /\ Attends =>
    /\ task.type = KindOf(slot.card)
    /\ board = "ws" => host.sectors \in {0, SizeOf[slot.card]}

\* The display gets the pins back only from a card that has let go of them
\* ("the card holding D0 during restore_display_state corrupts the ST7789T3
\* MADCTL register").
DisplayFree ==
  pins.owner = "display" =>
    IF board = "ws" THEN ~(There /\ slot.mode = "tran") ELSE ~pins.select

\* A session switches the card's supply and no other.
SuppliesKept == "rest" \in power

\* What a session owes its caller, the card and the display.
SessionTrue == DoneIsOnCard /\ RightCard /\ DisplayFree /\ SuppliesKept
=============================================================================
