------------------------------- MODULE Scanner -------------------------------
(***************************************************************************)
(* The barcode scanner of the till (frontend/src/features/pos/               *)
(* useBarcodeScanner.ts): a gun is a keyboard that types very fast, and the  *)
(* hook tells its codes from a person's keys by the time between them.       *)
(*                                                                         *)
(* Time is counted in ticks of a tenth of a second: a gap of one tick is     *)
(* within MAX_GAP_MS (120), the idle timer runs four (IDLE_FLUSH_MS, 400).   *)
(* A key is the scan it belongs to and its place there; 0 is a person's.     *)
(***************************************************************************)
EXTENDS Naturals, Sequences, FiniteSets

CONSTANTS
    Scans,        \* bound: codes read, one after another
    CodeLength,   \* characters of a code
    Endings,      \* how a gun may end a code: "key" for Enter or Tab, "none"
    LastHandKey,  \* bound: keys a person presses
    LastToggle    \* bound: times the hook is disabled or enabled

MAX_GAP == 1
IDLE_FLUSH == 4
MIN_LENGTH == 4

ScannerAssumption ==
    /\ {Scans, LastHandKey, LastToggle} \subseteq Nat
    /\ Endings \subseteq {"key", "none"}
    /\ CodeLength \in Nat /\ CodeLength >= MIN_LENGTH

VARIABLES
    buffer,     \* the keys gathered
    since,      \* ticks since the last key the hook saw, up to IDLE_FLUSH + 1
    idle,       \* ticks until the idle timer fires, or 0 when it is not set
    enabled,    \* the screen takes scans
    typed,      \* <<scan, keys typed of it>>: how far the gun is
    gunIdle,    \* ticks since the gun's last key
    delivered,  \* the codes given to the screen, in order
    hand,       \* keys a person has pressed
    toggles

scannerVars == <<buffer, since, idle, enabled, typed, gunIdle, delivered, hand, toggles>>

Code(scan) == [i \in 1..CodeLength |-> <<scan, i>>]

HandKey == <<0, 0>>

(* Buffers, timers and the gun have their types.                           *)
ScannerTypeOK ==
    /\ buffer \in Seq({HandKey} \cup ((1..Scans) \X (1..CodeLength)))
    /\ since \in 0..(IDLE_FLUSH + 1)
    /\ idle \in 0..IDLE_FLUSH
    /\ enabled \in BOOLEAN
    /\ typed \in (1..(Scans + 1)) \X (0..CodeLength)
    /\ gunIdle \in 0..(IDLE_FLUSH + 1)
    /\ delivered \in Seq(Seq({HandKey} \cup ((1..Scans) \X (1..CodeLength))))
    /\ hand \in 0..LastHandKey
    /\ toggles \in 0..LastToggle

-----------------------------------------------------------------------------
(* The hook.                                                               *)

\* Below MIN_LENGTH it is a key somebody hit.
Taken(keys) == Len(keys) >= MIN_LENGTH

Flush(keys) ==
    /\ delivered' = IF Taken(keys) THEN Append(delivered, keys) ELSE delivered
    /\ buffer' = << >>
    /\ idle' = 0

\* Mutant: a gap of MAX_GAP is too long.
Kept_Short == IF since >= MAX_GAP THEN << >> ELSE buffer

\* A key after a longer gap starts afresh.
Kept == IF since > MAX_GAP THEN << >> ELSE buffer

\* A key that is not Enter or Tab.
Press(key) ==
    /\ buffer' = Append(Kept, key)
    /\ idle' = IDLE_FLUSH
    /\ since' = 0
    /\ UNCHANGED delivered

Terminator ==
    /\ Flush(Kept)
    /\ since' = 0

Unheard == UNCHANGED <<buffer, since, idle, delivered>>

\* The effect starts with an empty buffer whenever it is enabled, and takes
\* its timer along when it is disabled.
Toggle ==
    /\ toggles < LastToggle
    /\ toggles' = toggles + 1
    /\ enabled' = ~enabled
    /\ buffer' = << >>
    /\ idle' = 0
    /\ since' = IDLE_FLUSH + 1
    /\ UNCHANGED <<typed, gunIdle, delivered, hand>>

-----------------------------------------------------------------------------
(* The keyboard.  A gun keeps within MAX_GAP, a person does not, and the two  *)
(* do not press keys within MAX_GAP of each other.                           *)

MidCode == typed[2] > 0

Apart == gunIdle > MAX_GAP /\ since > MAX_GAP

GunKey ==
    /\ typed[1] <= Scans
    /\ typed[2] < CodeLength
    /\ MidCode \/ Apart
    /\ typed' = [typed EXCEPT ![2] = @ + 1]
    /\ gunIdle' = 0
    /\ IF enabled THEN Press(Code(typed[1])[typed[2] + 1]) ELSE Unheard
    /\ UNCHANGED <<enabled, hand, toggles>>

\* The suffix, Enter, Tab or none at all: the next code comes later.
GunEnd ==
    /\ typed[1] <= Scans
    /\ typed[2] = CodeLength
    /\ typed' = <<typed[1] + 1, 0>>
    /\ gunIdle' = 0
    /\ \/ "key" \in Endings /\ IF enabled THEN Terminator ELSE Unheard
       \/ "none" \in Endings /\ Unheard
    /\ UNCHANGED <<enabled, hand, toggles>>

HandPress ==
    /\ hand < LastHandKey
    /\ ~MidCode
    /\ Apart
    /\ hand' = hand + 1
    /\ \/ IF enabled THEN Press(HandKey) ELSE Unheard
       \/ IF enabled THEN Terminator ELSE Unheard
    /\ UNCHANGED <<enabled, typed, gunIdle, toggles>>

UpTo(n, bound) == IF n < bound THEN n + 1 ELSE bound

\* Time passes: the idle timer fires when it is due, and a gun in the middle
\* of a code does not wait longer than MAX_GAP.
Tick ==
    /\ MidCode => gunIdle < MAX_GAP
    /\ gunIdle' = UpTo(gunIdle, IDLE_FLUSH + 1)
    /\ since' = UpTo(since, IDLE_FLUSH + 1)
    /\ IF idle = 1 THEN Flush(buffer)
       ELSE /\ idle' = IF idle = 0 THEN 0 ELSE idle - 1
            /\ UNCHANGED <<buffer, delivered>>
    /\ UNCHANGED <<enabled, typed, hand, toggles>>

ScannerInit ==
    /\ buffer = << >>
    /\ since = IDLE_FLUSH + 1
    /\ idle = 0
    /\ enabled = TRUE
    /\ typed = <<1, 0>>
    /\ gunIdle = IDLE_FLUSH + 1
    /\ delivered = << >>
    /\ hand = 0
    /\ toggles = 0

ScannerNext == GunKey \/ GunEnd \/ HandPress \/ Tick \/ Toggle

ScannerSpec == ScannerInit /\ [][ScannerNext]_scannerVars /\ WF_scannerVars(Tick) /\ WF_scannerVars(GunEnd)

-----------------------------------------------------------------------------
(* "para no cortar un codigo por la mitad": what the screen gets is a whole  *)
(* code of the gun, never a part, two codes in one, or a person's keys.      *)
WholeCodes ==
    \A i \in DOMAIN delivered : \E scan \in 1..Scans : delivered[i] = Code(scan)

(* A code is given to the screen once.                                     *)
ReadOnce ==
    \A i, j \in DOMAIN delivered : delivered[i] = delivered[j] => i = j

(* "se da por hecho el escaneo de las tres formas": while the hook stays      *)
(* enabled, every code the gun types out is read.                            *)
TypedOut(scan) == typed = <<scan, CodeLength>> /\ toggles = 0
ReadOut(scan) == toggles > 0 \/ \E i \in DOMAIN delivered : delivered[i] = Code(scan)
EveryCodeRead == \A scan \in 1..Scans : TypedOut(scan) ~> ReadOut(scan)
=============================================================================
