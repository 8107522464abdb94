------------------------------ MODULE Printing ------------------------------
(***************************************************************************)
(* Tickets on paper: the receipt after a charge (frontend/src/features/pos/  *)
(* Receipt.tsx), the surface every print goes through (features/tickets/     *)
(* TicketPrintSurface.tsx), the queue of jobs to QZ Tray and their timeouts  *)
(* (features/tickets/qzPrinter.ts), and the one frozen ticket of a sale      *)
(* (backend/app/tickets/service.py).                                        *)
(*                                                                         *)
(* Sales are charged one after another at one till.  QZ Tray is external: a  *)
(* job handed to it may be done, fail, or be done long after its timeout.   *)
(***************************************************************************)
EXTENDS Naturals, Sequences, FiniteSets, SequencesExt, FiniteSetsExt

CONSTANTS
    AutoPrint,     \* pos.print_ticket_on_checkout
    LastSale,      \* bound: sales charged
    CashSales,     \* those paid, in part, in cash
    LastSurface,   \* bound: print surfaces opened
    LastTemplate,  \* bound: versions of the ticket template
    LastTry,       \* bound: retries pressed
    Buttons,       \* bound: the places where "Imprimir" is pressed
    Absent

PrintingAssumption ==
    /\ AutoPrint \in BOOLEAN
    /\ {LastSale, LastSurface, LastTry} \subseteq Nat
    /\ LastTemplate \in Nat \ {0}
    /\ CashSales \subseteq 1..LastSale
    /\ Buttons \subseteq {"receipt", "reprint", "z"}
    /\ Absent \notin Nat

VARIABLES
    \* the server
    template,   \* version of the active template
    rendered,   \* [SaleIds -> the version its ticket was rendered with, or Absent]
    \* the till
    sale,       \* Nat: the last sale charged
    receipt,    \* the sale whose receipt is on the screen, or Absent
    ready,      \* the shop settings have been read
    printed,    \* the receipt has asked for its ticket by itself
    attempted,  \* the receipt has asked for the drawer
    drawerError,\* the receipt offers to retry the drawer
    asking,     \* the ticket being asked for, [sale, hand, open], or Absent
    surfaces,   \* the print surfaces opened so far
    shown,      \* [place -> the surface it shows, or Absent]
    tries,      \* Nat: retries pressed
    \* QZ Tray
    queue,      \* the jobs, in order
    atQZ,       \* the jobs QZ Tray is working on
    paper,      \* the tickets that came out
    pulses      \* [SaleIds -> times the drawer was asked to open by a receipt]

server == <<template, rendered>>
till == <<sale, receipt, ready, printed, attempted, drawerError>>
qz == <<atQZ, paper>>
printVars == <<server, till, asking, surfaces, shown, tries, queue, qz, pulses>>

SaleIds == 1..LastSale
Templates == 1..LastTemplate
Places == {"receipt", "reprint", "z"}
Surfaces == [place: Places, sale: SaleIds, text: Templates, status: {"printing", "drawer", "error"},
             sent: BOOLEAN, acks: Nat]
Jobs == [does: {"ticket", "drawer"}, for: 0..LastSurface, sale: SaleIds, no: Nat]

(* The server, the screens and the jobs have their types.                  *)
PrintingTypeOK ==
    /\ template \in Templates
    /\ rendered \in [SaleIds -> Templates \cup {Absent}]
    /\ sale \in 0..LastSale
    /\ receipt \in SaleIds \cup {Absent}
    /\ {ready, printed, attempted, drawerError} \subseteq BOOLEAN
    /\ asking = Absent \/ asking \in [sale: SaleIds, place: Places, open: BOOLEAN]
    /\ surfaces \in Seq(Surfaces)
    /\ shown \in [Places -> 1..LastSurface \cup {Absent}]
    /\ tries \in 0..LastTry
    /\ queue \in Seq(Jobs)
    /\ atQZ \subseteq Jobs
    /\ paper \subseteq [sale: SaleIds, text: Templates]
    /\ pulses \in [SaleIds -> Nat]

PrintingInit ==
    /\ template = 1
    /\ rendered = [s \in SaleIds |-> Absent]
    /\ sale = 0
    /\ receipt = Absent
    /\ ready = FALSE
    /\ printed = FALSE
    /\ attempted = FALSE
    /\ drawerError = FALSE
    /\ asking = Absent
    /\ surfaces = <<>>
    /\ shown = [p \in Places |-> Absent]
    /\ tries = 0
    /\ queue = <<>>
    /\ atQZ = {}
    /\ paper = {}
    /\ pulses = [s \in SaleIds |-> 0]

-----------------------------------------------------------------------------
(* The server *)

\* Administration edits or activates another template.
EditTemplate ==
    /\ template < LastTemplate
    /\ template' = template + 1
    /\ UNCHANGED <<rendered, till, asking, surfaces, shown, tries, queue, qz, pulses>>

\* generate_ticket: rendered once, and that text for ever.
Rendered(s) == IF rendered[s] # Absent THEN rendered[s] ELSE template

-----------------------------------------------------------------------------
(* The receipt *)

\* Surface 0 is the receipt itself; the number tells a job from its repetition.
Job(does, for, s) ==
    LET taken == {job.no : job \in ToSet(queue) \cup atQZ}
    IN  [does |-> does, for |-> for, sale |-> s, no |-> Min((1..Cardinality(taken) + 1) \ taken)]

\* A sale was charged: its receipt replaces the cart.
Charge ==
    /\ sale < LastSale
    /\ receipt = Absent
    /\ sale' = sale + 1
    /\ receipt' = sale + 1
    /\ printed' = FALSE
    /\ attempted' = FALSE
    /\ drawerError' = FALSE
    /\ shown' = [shown EXCEPT !["receipt"] = Absent]
    /\ UNCHANGED <<server, ready, asking, surfaces, tries, queue, qz, pulses>>

ReadSettings ==
    /\ ~ready
    /\ ready' = TRUE
    /\ UNCHANGED <<server, sale, receipt, printed, attempted, drawerError, asking, surfaces, shown, tries, queue, qz, pulses>>

AskForDrawer ==
    /\ queue' = Append(queue, Job("drawer", 0, receipt))
    /\ pulses' = [pulses EXCEPT ![receipt] = @ + 1]
    /\ attempted' = TRUE
    /\ drawerError' = FALSE

\* The drawer of a cash sale, once the settings are known.
OpenDrawer ==
    /\ receipt \in CashSales
    /\ ready
    /\ ~attempted
    /\ AskForDrawer
    /\ UNCHANGED <<server, sale, receipt, ready, printed, asking, surfaces, shown, tries, qz>>

RetryDrawer ==
    /\ receipt # Absent
    /\ drawerError
    /\ shown["receipt"] = Absent
    /\ tries < LastTry
    /\ tries' = tries + 1
    /\ AskForDrawer
    /\ UNCHANGED <<server, sale, receipt, ready, printed, asking, surfaces, shown, qz>>

\* The ticket of a sale charged at a till that prints by itself
AutoTicket ==
    /\ receipt # Absent
    /\ ready
    /\ AutoPrint
    /\ ~printed
    /\ asking = Absent
    /\ printed' = TRUE
    /\ asking' = [sale |-> receipt, place |-> "receipt", open |-> TRUE]
    /\ UNCHANGED <<server, sale, receipt, ready, attempted, drawerError, surfaces, shown, tries, queue, qz, pulses>>

\* "Imprimir ticket", and the buttons that reprint a ticket or a Z
PressPrint(place) ==
    /\ asking = Absent
    /\ shown[place] = Absent
    /\ Len(surfaces) < LastSurface
    /\ sale > 0
    /\ place = "receipt" => receipt # Absent
    /\ asking' = [sale |-> sale, place |-> place, open |-> TRUE]
    /\ UNCHANGED <<server, till, surfaces, shown, tries, queue, qz, pulses>>

\* "Nueva venta": the receipt goes, and with it its surface and its request.
NewSale ==
    /\ receipt # Absent
    /\ shown["receipt"] = Absent
    /\ receipt' = Absent
    /\ asking' = IF asking # Absent /\ asking.place = "receipt"
                 THEN [asking EXCEPT !.open = FALSE] ELSE asking
    /\ UNCHANGED <<server, sale, ready, printed, attempted, drawerError, surfaces, shown, tries, queue, qz, pulses>>

\* The ticket comes: a surface opens and prints it.
Ticket ==
    /\ asking # Absent
    /\ rendered' = IF asking.place = "z" THEN rendered
                   ELSE [rendered EXCEPT ![asking.sale] = Rendered(asking.sale)]
    /\ asking' = Absent
    /\ IF asking.open /\ Len(surfaces) < LastSurface
       THEN /\ surfaces' = Append(surfaces,
                  [place |-> asking.place, sale |-> asking.sale, text |-> Rendered(asking.sale),
                   status |-> "printing", sent |-> FALSE, acks |-> 0])
            /\ shown' = [shown EXCEPT ![asking.place] = Len(surfaces) + 1]
            /\ queue' = Append(queue, Job("ticket", Len(surfaces) + 1, asking.sale))
       ELSE UNCHANGED <<surfaces, shown, queue>>
    /\ UNCHANGED <<template, till, tries, qz, pulses>>

\* The ticket could not be generated.
NoTicket ==
    /\ asking # Absent
    /\ asking' = Absent
    /\ UNCHANGED <<server, till, surfaces, shown, tries, queue, qz, pulses>>

-----------------------------------------------------------------------------
(* The surface *)

\* "Cerrar": the surface goes, its job does not.
Close(i) ==
    /\ \E place \in Places : shown[place] = i /\ shown' = [shown EXCEPT ![place] = Absent]
    /\ UNCHANGED <<server, till, asking, surfaces, tries, queue, qz, pulses>>

\* "Reintentar": what was printed is not printed again.
Retry(i) ==
    /\ surfaces[i].status = "error"
    /\ \E place \in Places : shown[place] = i
    /\ tries < LastTry
    /\ tries' = tries + 1
    /\ surfaces' = [surfaces EXCEPT ![i].status = IF surfaces[i].sent THEN "drawer" ELSE "printing"]
    /\ queue' = Append(queue, Job(IF surfaces[i].sent THEN "drawer" ELSE "ticket",
                                  i, surfaces[i].sale))
    /\ UNCHANGED <<server, till, asking, shown, qz, pulses>>

\* onPrinted, with what the surface was given when it started: it goes, and at a
\* till that prints by itself the receipt goes too, whichever is on the screen.
Printed(i) ==
    /\ shown' = [p \in Places |-> IF shown[p] = i THEN Absent ELSE
                     IF surfaces[i].place = "receipt" /\ p = "receipt" /\ surfaces[i].sale = receipt
                     THEN Absent ELSE shown[p]]
    /\ receipt' = IF surfaces[i].place = "receipt" /\ AutoPrint THEN Absent ELSE receipt

-----------------------------------------------------------------------------
(* The queue and QZ Tray *)

\* The first job of the queue is handed over.
Hand ==
    /\ queue # <<>>
    /\ Head(queue) \notin atQZ
    /\ atQZ' = atQZ \cup {Head(queue)}
    /\ UNCHANGED <<server, till, asking, surfaces, shown, tries, queue, paper, pulses>>

\* A Z is made of its own frozen report: only tickets of sales are told apart.
Out(job) ==
    IF job.does = "ticket" /\ surfaces[job.for].place # "z"
    THEN paper \cup {[sale |-> job.sale, text |-> surfaces[job.for].text]}
    ELSE paper

\* The promise of the first job settles: the next one may start.
Settle(ok) ==
    LET job == Head(queue)
        i == job.for IN
    /\ queue' = IF job.does = "ticket" /\ ok /\ surfaces[i].place = "z"
                THEN Append(Tail(queue), Job("drawer", i, job.sale))
                ELSE Tail(queue)
    /\ IF i = 0
       THEN /\ drawerError' = IF ~ok /\ receipt = job.sale THEN TRUE ELSE drawerError
            /\ UNCHANGED <<surfaces, shown, receipt>>
       ELSE /\ surfaces' = [surfaces EXCEPT
                  ![i].status = IF ~ok THEN "error"
                                ELSE IF job.does = "ticket" /\ surfaces[i].place = "z" THEN "drawer"
                                ELSE @,
                  ![i].sent = @ \/ (ok /\ job.does = "ticket"),
                  ![i].acks = IF ok /\ job.does = "ticket" THEN @ + 1 ELSE @]
            /\ IF ok /\ (job.does = "drawer" \/ surfaces[i].place # "z") THEN Printed(i)
               ELSE UNCHANGED <<shown, receipt>>
            /\ UNCHANGED drawerError

\* QZ Tray answers in time, that it is done or that it failed.
Answered(ok) ==
    /\ queue # <<>> /\ Head(queue) \in atQZ
    /\ atQZ' = atQZ \ {Head(queue)}
    /\ paper' = IF ok THEN Out(Head(queue)) ELSE paper
    /\ Settle(ok)
    /\ UNCHANGED <<server, sale, ready, printed, attempted, asking, tries, pulses>>

\* Twelve seconds without an answer: the job fails here and stays at QZ Tray.
\* Mutant: nothing limits the wait.
TimeOut_Never == queue # <<>> /\ Head(queue) \in atQZ /\ FALSE /\ UNCHANGED printVars

TimeOut ==
    /\ queue # <<>> /\ Head(queue) \in atQZ
    /\ Settle(FALSE)
    /\ UNCHANGED <<server, sale, ready, printed, attempted, asking, tries, qz, pulses>>

Awaited == IF queue = <<>> THEN {} ELSE {Head(queue)}

\* What QZ Tray does with a job nobody waits for any more.
Afterwards(job) ==
    /\ job \in atQZ
    /\ job \notin Awaited
    /\ atQZ' = atQZ \ {job}
    /\ paper' \in {paper, Out(job)}
    /\ UNCHANGED <<server, till, asking, surfaces, shown, tries, queue, pulses>>

-----------------------------------------------------------------------------
PrintingNext ==
    \/ EditTemplate
    \/ Charge \/ ReadSettings \/ OpenDrawer \/ RetryDrawer \/ AutoTicket \/ NewSale
    \/ \E place \in Buttons : PressPrint(place)
    \/ Ticket \/ NoTicket
    \/ \E i \in DOMAIN surfaces : Close(i) \/ Retry(i)
    \/ Hand
    \/ \E ok \in BOOLEAN : Answered(ok)
    \/ TimeOut
    \/ \E job \in atQZ : Afterwards(job)

PrintingSpec == PrintingInit /\ [][PrintingNext]_printVars

\* The queue runs and its timers expire.
PrintingFairness == WF_printVars(Hand) /\ WF_printVars(TimeOut)
PrintingFairSpec == PrintingSpec /\ PrintingFairness

-----------------------------------------------------------------------------
(* Every paper of a sale, whenever and wherever it was printed, says the    *)
(* same: the text frozen by generate_ticket.                                *)
CopiesAgree ==
    \A p, q \in paper : p.sale = q.sale => p.text = q.text

(* A surface whose ticket QZ Tray acknowledged never prints it again, not   *)
(* even when the drawer fails and is retried (ticketSent).                  *)
PrintedOnce == \A i \in DOMAIN surfaces : surfaces[i].acks <= 1

(* A receipt asks for the drawer of a cash sale only, once by itself and    *)
(* then once per press of "Reintentar abrir el cajón" (drawerAttempted).    *)
DrawerOfCashSales ==
    /\ \A s \in SaleIds : pulses[s] > 0 => s \in CashSales
    /\ \A s \in SaleIds : pulses[s] <= tries + 1

Waits(i) ==
    IF i \in DOMAIN surfaces THEN surfaces[i].status = "printing" /\ ~surfaces[i].sent ELSE FALSE

(* No print blocks the next: whatever QZ Tray does, a queue is emptied up   *)
(* to the job that was waited for (qzWithin: "A user-facing operation must  *)
(* always settle").                                                         *)
JobsSettle == \A i \in 1..LastSurface : Waits(i) ~> ~Waits(i)
=============================================================================
