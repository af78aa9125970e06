---- MODULE DecodeHandoff_proof ----
(***************************************************************************)
(* Theorems about the dual-core hand-off, for every table of codes, every  *)
(* number of generations and every bound.                                  *)
(***************************************************************************)
EXTENDS DecodeHandoff, TLAPS

-----------------------------------------------------------------------------
(* The inductive invariant.                                                *)

\* What GEN was d resets ago.
GenBack(d) == IF gen >= d THEN gen - d ELSE gen - d + Gens

\* A frame and the stamp it travels with: as long as the byte has not come
\* full circle the stamp tells the session; and a frame of this session is a
\* frame of this visit, once ScanQR's reset has been carried out.
Stamped(f, g) ==
    /\ f \in Frames
    /\ f.session <= session
    /\ session - f.session < Gens => g = GenBack(session - f.session)
    /\ (f.session = session /\ screen = "ScanQR" /\ ~resetFlag) => f.visit = visit

Asking == jobState = "READY" \/ wpc \in {"load", "decode"}

Shipment ==
    /\ Asking => Stamped(image[job.kind], job.gen)
    /\ results # NoResult => Stamped(results.frame, results.gen)

WorkerInv ==
    /\ wpc \in {"load", "decode"} => results = NoResult
    /\ wpc = "done" \/ jobState = "DONE" => results # NoResult
    /\ results # NoResult => results.kind = job.kind

CycleInv ==
    /\ pc # "between" => cam \in Frames /\ cam.session = session /\ cam.visit = visit
    /\ pc = "collect" => ~resetFlag
    /\ pc # "arm" => acted = None
    /\ pc \in {"stamp", "publish"} => image[Owed] = cam
    /\ pc = "publish" => job.kind = Owed /\ job.gen = gen

DebtInv ==
    /\ scan.pending => ~scan.mf
    /\ pc = "collect" => ~scan.pending
    /\ pc = "arm" /\ scan.pending => jobState = "IDLE"

\* The flag is raised only where another session fits the bound.
BoundInv == resetFlag => session < MaxSessions

Inv == /\ TypeOK /\ Ownership /\ WorkerInv /\ CycleInv /\ Shipment
       /\ ReplayFree /\ NoFullPassInStream /\ DebtInv /\ BoundInv

-----------------------------------------------------------------------------
(* Operators.                                                              *)

LEMMA NoneIsNoFrame == None \notin Frames
  BY DEF None, Frames

LEMMA NoResultIsNone == NoResult \notin ResultType
  BY DEF NoResult, ResultType

\* The decoder's answer is one of three.
LEMMA DecodedType == \A j : Decoded(j) \in {"read", "found", "nothing"}
  BY DEF Decoded

LEMMA WindowsType == \A d \in Windows : Other(d) \in Windows
  BY DEF Windows, Other

\* One field at a time, the bookkeeping stays in its type.
LEMMA FieldTypes ==
  ASSUME NEW s \in ScanType
  PROVE  /\ \A n \in 0 .. Cooldown : [s EXCEPT !.cooldown = n] \in ScanType
         /\ \A d \in Windows : [s EXCEPT !.denom = d] \in ScanType
         /\ \A n \in {0, 1} : [s EXCEPT !.miss = n] \in ScanType
         /\ \A n \in 0 .. EscRest : [s EXCEPT !.escCooldown = n] \in ScanType
         /\ \A b \in BOOLEAN : [s EXCEPT !.pending = b] \in ScanType
         /\ \A b \in BOOLEAN : [s EXCEPT !.triedAlt = b] \in ScanType
         /\ \A d \in Windows : [s EXCEPT !.alt = d] \in ScanType
         /\ \A n \in 0 .. StreakLimit : [s EXCEPT !.streak = n] \in ScanType
         /\ \A b \in BOOLEAN : [s EXCEPT !.mf = b] \in ScanType
<1>1. \A n \in 0 .. Cooldown : [s EXCEPT !.cooldown = n] \in ScanType  BY DEF ScanType
<1>2. \A d \in Windows : [s EXCEPT !.denom = d] \in ScanType  BY DEF ScanType
<1>3. \A n \in {0, 1} : [s EXCEPT !.miss = n] \in ScanType  BY DEF ScanType
<1>4. \A n \in 0 .. EscRest : [s EXCEPT !.escCooldown = n] \in ScanType  BY DEF ScanType
<1>5. \A b \in BOOLEAN : [s EXCEPT !.pending = b] \in ScanType  BY DEF ScanType
<1>6. \A b \in BOOLEAN : [s EXCEPT !.triedAlt = b] \in ScanType  BY DEF ScanType
<1>7. \A d \in Windows : [s EXCEPT !.alt = d] \in ScanType  BY DEF ScanType
<1>8. \A n \in 0 .. StreakLimit : [s EXCEPT !.streak = n] \in ScanType  BY DEF ScanType
<1>9. \A b \in BOOLEAN : [s EXCEPT !.mf = b] \in ScanType  BY DEF ScanType
<1> QED  BY <1>1, <1>2, <1>3, <1>4, <1>5, <1>6, <1>7, <1>8, <1>9

LEMMA BeginType ==
  ASSUME TypeOK
  PROVE  /\ Cleared \in ScanType /\ Begun \in ScanType
         /\ NextGen \in 0 .. Gens - 1
<1>1. scan \in ScanType /\ gen \in 0 .. Gens - 1  BY DEF TypeOK
<1>2. Cleared \in ScanType
  <2>1. Cooldown \in Nat /\ EscRest \in Nat /\ StreakLimit \in Nat  BY LimitsAssumption
  <2>2. 0 \in 0 .. Cooldown /\ 0 \in 0 .. EscRest /\ 8 \in Windows  BY <2>1 DEF Windows
  <2> DEFINE s1 == [scan EXCEPT !.cooldown = 0, !.denom = 8, !.miss = 0, !.escCooldown = 0]
  <2>3. s1 \in ScanType  BY <1>1, <2>2, FieldTypes
  <2>4. Cleared = [s1 EXCEPT !.pending = FALSE, !.triedAlt = FALSE, !.mf = FALSE]  BY DEF Cleared
  <2> HIDE DEF s1
  <2> QED  BY <2>3, <2>4, FieldTypes
<1>3. NextGen \in 0 .. Gens - 1  BY <1>1, GensAssumption DEF NextGen
<1> QED  BY <1>1, <1>2, <1>3 DEF Begun

\* The bookkeeping after a result keeps its type.
LEMMA AfterType ==
  ASSUME TypeOK, NEW r \in ResultType
  PROVE  /\ AfterRead(r) \in ScanType
         /\ AfterFastMiss(r) \in ScanType
         /\ AfterEscMiss(r) \in ScanType
<1>1. scan \in ScanType  BY DEF TypeOK
<1>2. Cooldown \in Nat /\ EscRest \in Nat /\ StreakLimit \in Nat  BY LimitsAssumption
<1>3. r.denom \in Windows /\ Other(r.denom) \in Windows  BY WindowsType DEF ResultType
<1>4. scan.denom \in Windows /\ Other(scan.denom) \in Windows  BY <1>1, WindowsType DEF ScanType
<1>5. AfterRead(r) \in ScanType
  <2> DEFINE d == IF r.kind = "ESC" THEN r.denom ELSE scan.denom
             s1 == [scan EXCEPT !.miss = 0, !.escCooldown = 0, !.pending = FALSE, !.triedAlt = FALSE]
  <2>1. 0 \in 0 .. EscRest  BY <1>2
  <2>2. s1 \in ScanType  BY <1>1, <2>1, FieldTypes
  <2>3. d \in Windows  BY <1>3, <1>4
  <2>4. AfterRead(r) = [s1 EXCEPT !.denom = d]  BY DEF AfterRead
  <2> HIDE DEF s1, d
  <2> QED  BY <2>2, <2>3, <2>4, FieldTypes
<1>6. AfterEscMiss(r) \in ScanType
  <2>1. EscRest \in 0 .. EscRest  BY <1>2
  <2>2. [scan EXCEPT !.pending = FALSE, !.escCooldown = EscRest] \in ScanType
    BY <1>1, <2>1, FieldTypes
  <2>3. [scan EXCEPT !.triedAlt = TRUE, !.alt = Other(r.denom), !.pending = TRUE] \in ScanType
    BY <1>1, <1>3, FieldTypes
  <2> QED  BY <2>2, <2>3 DEF AfterEscMiss
<1>7. AfterFastMiss(r) \in ScanType
  <2> DEFINE found == r.outcome = "found"
             oweFound == found /\ scan.escCooldown = 0 /\ ~scan.mf
             rest == IF ~oweFound /\ scan.escCooldown > 0 THEN scan.escCooldown - 1 ELSE scan.escCooldown
             streak == IF found THEN 0 ELSE IF scan.streak = StreakLimit THEN StreakLimit ELSE scan.streak + 1
             oweStreak == ~found /\ streak = StreakLimit /\ rest = 0 /\ ~scan.mf /\ ~scan.pending
  <2>1. rest \in 0 .. EscRest  BY <1>1, <1>2 DEF ScanType
  <2>2. streak \in 0 .. StreakLimit  BY <1>1, <1>2 DEF ScanType
  <2>3. (IF oweStreak THEN 0 ELSE streak) \in 0 .. StreakLimit
    <3> HIDE DEF oweStreak, streak
    <3> QED  BY <2>2, <1>2
  <2>4. oweFound \in BOOLEAN /\ oweStreak \in BOOLEAN  OBVIOUS
  <2>5. AfterFastMiss(r) =
          [scan EXCEPT !.denom = IF scan.miss = 1 THEN Other(@) ELSE @,
                       !.miss = IF scan.miss = 1 THEN 0 ELSE 1,
                       !.escCooldown = rest,
                       !.streak = IF oweStreak THEN 0 ELSE streak,
                       !.pending = @ \/ oweFound \/ oweStreak,
                       !.triedAlt = @ /\ ~oweFound /\ ~oweStreak]
    BY DEF AfterFastMiss
  <2> HIDE DEF rest, streak, oweFound, oweStreak, found
  <2> QED  BY <1>1, <1>4, <2>1, <2>3, <2>4, <2>5 DEF ScanType
<1> QED  BY <1>5, <1>6, <1>7

\* What the bookkeeping does to the debt of a full pass.
LEMMA AfterDebt ==
  ASSUME TypeOK, NEW r \in ResultType, scan.pending => ~scan.mf
  PROVE  /\ ~AfterRead(r).pending
         /\ AfterFastMiss(r).mf = scan.mf
         /\ AfterFastMiss(r).pending => ~scan.mf
         /\ AfterEscMiss(r).mf = scan.mf
<1>1. scan \in ScanType  BY DEF TypeOK
<1>2. ~AfterRead(r).pending  BY <1>1 DEF AfterRead, ScanType
<1>3. AfterFastMiss(r).mf = scan.mf  BY <1>1 DEF AfterFastMiss, ScanType
<1>4. AfterFastMiss(r).pending => ~scan.mf  BY <1>1 DEF AfterFastMiss, ScanType
<1>5. AfterEscMiss(r).mf = scan.mf  BY <1>1 DEF AfterEscMiss, ScanType
<1> QED  BY <1>2, <1>3, <1>4, <1>5

-----------------------------------------------------------------------------
(* Stamps travel well.                                                     *)

\* No reset: what was true of a stamp stays true, unless ScanQR is entered,
\* and that raises the flag.
LEMMA StampKept ==
  ASSUME TypeOK, UNCHANGED <<session, gen>>,
         (screen' = "ScanQR" /\ ~resetFlag') => (screen = "ScanQR" /\ ~resetFlag /\ visit' = visit),
         NEW f, NEW g, Stamped(f, g)
  PROVE  Stamped(f, g)'
  BY DEF Stamped, GenBack

\* A reset: one generation further back.
LEMMA StampAged ==
  ASSUME TypeOK, Swap, UNCHANGED visit, screen' \in {screen, "Away"},
         NEW f, NEW g, Stamped(f, g)
  PROVE  Stamped(f, g)'
<1>1. session \in Int /\ f.session \in Int /\ gen \in 0 .. Gens - 1 /\ Gens \in Int
  BY GensAssumption DEF TypeOK, Stamped, Frames
<1>2. CASE ~resetFlag
  <2>1. UNCHANGED <<session, gen, resetFlag>>  BY <1>2 DEF Swap, TypeOK
  <2> QED  BY <2>1, StampKept
<1>3. CASE resetFlag
  <2>1. session' = session + 1 /\ gen' = NextGen  BY <1>3 DEF Swap
  <2>2. f.session <= session' /\ f.session # session'  BY <1>1, <2>1 DEF Stamped
  <2> DEFINE d == session' - f.session
  <2>3. ASSUME d < Gens
        PROVE  g = IF gen' >= d THEN gen' - d ELSE gen' - d + Gens
    <3>1. g = GenBack(session - f.session)  BY <1>1, <2>1, <2>3 DEF Stamped
    <3>2. f.session <= session  BY DEF Stamped
    <3> QED  BY <1>1, <2>1, <2>3, <3>1, <3>2 DEF GenBack, NextGen
  <2> QED  BY <2>2, <2>3 DEF Stamped, GenBack
<1> QED  BY <1>2, <1>3

\* A stamp that matches tells the session, or the byte came full circle.
LEMMA StampTells ==
  ASSUME TypeOK, NEW f, Stamped(f, gen)
  PROVE  /\ f \in Frames
         /\ \/ f.session = session
               /\ (screen = "ScanQR" /\ ~resetFlag => f.visit = visit)
            \/ session - f.session >= Gens
<1>1. session \in Int /\ f.session \in Int /\ gen \in 0 .. Gens - 1 /\ Gens \in Int
  BY GensAssumption DEF TypeOK, Stamped, Frames
<1>2. CASE session - f.session < Gens
  <2>1. gen = GenBack(session - f.session) /\ f.session <= session  BY <1>2 DEF Stamped
  <2>2. f.session = session  BY <1>1, <1>2, <2>1 DEF GenBack
  <2> QED  BY <2>2 DEF Stamped
<1> QED  BY <1>1, <1>2 DEF Stamped

-----------------------------------------------------------------------------
(* Steps that leave the hand-off alone.                                    *)

\* What both cores hold is untouched: every part that speaks of it survives.
LEMMA CoresUntouched ==
  ASSUME Inv, UNCHANGED <<handoff, core1, acted>>, UNCHANGED pc, TypeOK',
         \A f, g : Stamped(f, g) => Stamped(f, g)'
  PROVE  Ownership' /\ WorkerInv' /\ Shipment'
<1> USE DEF handoff, core1
<1>1. Ownership'  BY DEF Inv, Ownership
<1>2. WorkerInv'  BY DEF Inv, WorkerInv
<1>3. Shipment'
  <2>1. Asking' = Asking  BY DEF Asking
  <2>2. Asking => Stamped(image[job.kind], job.gen)  BY DEF Inv, Shipment
  <2>3. results # NoResult => Stamped(results.frame, results.gen)  BY DEF Inv, Shipment
  <2> QED  BY <2>1, <2>2, <2>3 DEF Shipment, Stamped, GenBack
<1> QED  BY <1>1, <1>2, <1>3

\* The user's steps, between two cycles.
LEMMA UserInv ==
  ASSUME Inv, User
  PROVE  Inv'
<1>1. TypeOK /\ CycleInv /\ NoFullPassInStream /\ DebtInv  BY DEF Inv
<1>2. /\ pc = "between" /\ UNCHANGED <<handoff, core1, pc, cam, acted, gen, scan, session>>
      /\ screen' \in Screens /\ tune' \in BOOLEAN /\ resetFlag' \in BOOLEAN
      /\ scene' \in Codes /\ visit' \in 0 .. MaxVisits
      /\ (screen' = "ScanQR" /\ ~resetFlag') => (screen = "ScanQR" /\ ~resetFlag /\ visit' = visit)
  <2>1. CASE \E s \in CameraScreens : Enter(s)
    <3>1. PICK s \in CameraScreens : Enter(s)  BY <2>1
    <3>2. visit + 1 \in 0 .. MaxVisits  BY <1>1, <3>1, LimitsAssumption DEF Enter, TypeOK
    <3> QED  BY <1>1, <3>1, <3>2 DEF Enter, Redrawn, TypeOK, Screens, CameraScreens
  <2>2. CASE Back  BY <1>1, <2>2 DEF Back, TypeOK, Screens, CameraScreens
  <2>3. CASE HomeOrWipe  BY <1>1, <2>3 DEF HomeOrWipe, TypeOK, Screens, CameraScreens
  <2>4. CASE Repaint  BY <1>1, <2>4 DEF Repaint, Redrawn, TypeOK, Screens, CameraScreens
  <2>5. CASE MoveCode  BY <1>1, <2>5 DEF MoveCode, nav, TypeOK, Screens, CameraScreens
  <2> QED  BY <2>1, <2>2, <2>3, <2>4, <2>5 DEF User
<1>3. TypeOK'  BY <1>1, <1>2 DEF TypeOK, handoff, core1
<1>4. Ownership' /\ WorkerInv' /\ Shipment'
  <2>1. \A f, g : Stamped(f, g) => Stamped(f, g)'  BY <1>1, <1>2, StampKept
  <2> QED  BY <1>2, <1>3, <2>1, CoresUntouched
<1>5. CycleInv'  BY <1>1, <1>2 DEF CycleInv
<1>6. ReplayFree'  BY <1>1, <1>2 DEF CycleInv, ReplayFree
<1>7. NoFullPassInStream' /\ DebtInv'
  BY <1>1, <1>2 DEF NoFullPassInStream, DebtInv, handoff
<1>8. BoundInv'
  <2>1. session \in Int /\ MaxSessions \in Int  BY <1>1, LimitsAssumption DEF TypeOK
  <2>2. BoundInv  BY DEF Inv
  <2>3. Room \/ resetFlag' = resetFlag
    <3>1. CASE \E s \in CameraScreens : Enter(s)  BY <3>1 DEF Enter
    <3>2. CASE Back \/ HomeOrWipe \/ MoveCode  BY <3>2 DEF Back, HomeOrWipe, MoveCode, nav
    <3>3. CASE Repaint  BY <3>3 DEF Repaint
    <3> QED  BY <3>1, <3>2, <3>3 DEF User
  <2>4. Room => session < MaxSessions  BY <2>1 DEF Room
  <2> QED  BY <1>2, <2>2, <2>3, <2>4 DEF BoundInv
<1> QED  BY <1>3, <1>4, <1>5, <1>6, <1>7, <1>8 DEF Inv

\* What the reset does to the debt and to the animation.
LEMMA BegunDebt ==
  ASSUME TypeOK, ~scan.pending
  PROVE  ~Begun.pending /\ (Begun.mf => scan.mf)
<1>1. scan \in ScanType  BY DEF TypeOK
<1>2. ~Cleared.pending /\ ~Cleared.mf  BY <1>1 DEF Cleared, ScanType
<1> QED  BY <1>2 DEF Begun


LEMMA SwapType ==
  ASSUME TypeOK, BoundInv, Swap
  PROVE  /\ gen' \in 0 .. Gens - 1 /\ session' \in 0 .. MaxSessions
         /\ resetFlag' = FALSE /\ Begun \in ScanType
<1>1. session \in Int /\ MaxSessions \in Int /\ session \in 0 .. MaxSessions
  BY LimitsAssumption DEF TypeOK
<1>2. session' \in 0 .. MaxSessions  BY <1>1 DEF Swap, BoundInv
<1>3. gen' \in 0 .. Gens - 1  BY BeginType DEF Swap, TypeOK
<1> QED  BY <1>2, <1>3, BeginType DEF Swap

LEMMA CutShortInv ==
  ASSUME Inv, CutShort
  PROVE  Inv'
<1>1. TypeOK /\ CycleInv /\ NoFullPassInStream /\ DebtInv /\ BoundInv  BY DEF Inv
<1>2. /\ pc = "between" /\ UNCHANGED <<handoff, core1, pc, cam, acted, visit, scene>>
      /\ Swap /\ scan' = Begun /\ screen' \in {screen, "Away"} /\ tune' \in BOOLEAN
  BY <1>1 DEF CutShort, TypeOK
<1>3. TypeOK'
  <2>1. screen' \in Screens  BY <1>1, <1>2 DEF TypeOK, Screens
  <2> QED  BY <1>1, <1>2, <2>1, SwapType DEF TypeOK, handoff, core1
<1>4. Ownership' /\ WorkerInv' /\ Shipment'
  <2>1. \A f, g : Stamped(f, g) => Stamped(f, g)'  BY <1>1, <1>2, StampAged
  <2> QED  BY <1>2, <1>3, <2>1, CoresUntouched
<1>5. CycleInv' /\ ReplayFree'  BY <1>1, <1>2 DEF CycleInv, ReplayFree
<1>6. NoFullPassInStream' /\ DebtInv'
  <2>1. ~scan.pending  BY <1>1, <1>2 DEF NoFullPassInStream
  <2>2. ~scan'.pending /\ (scan'.mf => scan.mf)  BY <1>1, <1>2, <2>1, BegunDebt
  <2> QED  BY <1>1, <1>2, <2>2 DEF NoFullPassInStream, DebtInv, handoff
<1>7. BoundInv'  BY <1>2 DEF Swap, BoundInv
<1> QED  BY <1>3, <1>4, <1>5, <1>6, <1>7 DEF Inv

LEMMA CaptureInv ==
  ASSUME Inv, Capture
  PROVE  Inv'
<1>1. TypeOK /\ CycleInv /\ NoFullPassInStream /\ DebtInv /\ BoundInv  BY DEF Inv
<1>2. /\ pc = "between" /\ UNCHANGED <<handoff, core1, acted, screen, tune, visit, scene>>
      /\ Swap
  BY DEF Capture
<1>3. Begun \in ScanType /\ resetFlag' = FALSE /\ session' \in 0 .. MaxSessions /\ gen' \in 0 .. Gens - 1
  BY <1>1, <1>2, SwapType
<1>4. scan' \in ScanType /\ scan'.pending = Begun.pending /\ scan'.mf = Begun.mf
  <2>1. CASE Begun.cooldown > 0
    <3>1. scan' = [Begun EXCEPT !.cooldown = Begun.cooldown - 1]  BY <2>1 DEF Capture
    <3>2. Cooldown \in Nat /\ Begun.cooldown \in 0 .. Cooldown
      BY <1>3, LimitsAssumption DEF ScanType
    <3>3. Begun.cooldown - 1 \in 0 .. Cooldown  BY <2>1, <3>2
    <3>4. scan' \in ScanType  BY <1>3, <3>1, <3>3, FieldTypes
    <3> QED  BY <1>3, <3>1, <3>4 DEF ScanType
  <2>2. CASE ~(Begun.cooldown > 0)  BY <1>3, <2>2 DEF Capture
  <2> QED  BY <2>1, <2>2
<1>5. \/ UNCHANGED <<pc, cam>>
      \/ pc' = "collect" /\ cam' = [code |-> scene, visit |-> visit, session |-> session']
  BY DEF Capture
<1>6. TypeOK'
  <2>1. cam' \in Frames \cup {None}  BY <1>1, <1>3, <1>5 DEF TypeOK, Frames
  <2>2. pc' \in {"between", "collect", "arm", "fill", "stamp", "publish"}  BY <1>1, <1>5 DEF TypeOK
  <2> QED  BY <1>1, <1>2, <1>3, <1>4, <2>1, <2>2 DEF TypeOK, handoff, core1
<1>7. \A f, g : Stamped(f, g) => Stamped(f, g)'  BY <1>1, <1>2, StampAged
<1>8. Ownership'
  BY <1>2, <1>5 DEF Inv, Ownership, handoff, core1
<1>9. WorkerInv'  BY <1>2 DEF Inv, WorkerInv, handoff, core1
<1>10. Shipment'
  <2>1. Asking' = Asking  BY <1>2 DEF Asking, handoff, core1
  <2>2. Asking => Stamped(image[job.kind], job.gen)  BY DEF Inv, Shipment
  <2>3. results # NoResult => Stamped(results.frame, results.gen)  BY DEF Inv, Shipment
  <2> QED  BY <1>2, <1>7, <2>1, <2>2, <2>3 DEF Shipment, Stamped, GenBack, handoff
<1>11. CycleInv'
  <2>1. acted' = None  BY <1>1, <1>2 DEF CycleInv
  <2>2. CASE UNCHANGED <<pc, cam>>  BY <1>2, <2>1, <2>2 DEF CycleInv
  <2>3. CASE pc' = "collect" /\ cam' = [code |-> scene, visit |-> visit, session |-> session']
    <3>1. cam' \in Frames  BY <1>1, <1>3, <2>3 DEF TypeOK, Frames
    <3> QED  BY <1>2, <1>3, <2>1, <2>3, <3>1 DEF CycleInv
  <2> QED  BY <1>5, <2>2, <2>3
<1>12. ReplayFree'  BY <1>1, <1>2 DEF CycleInv, ReplayFree
<1>13. NoFullPassInStream' /\ DebtInv'
  <2>1. ~scan.pending  BY <1>1, <1>2 DEF NoFullPassInStream
  <2>2. ~scan'.pending /\ (scan'.mf => scan.mf)  BY <1>1, <1>4, <2>1, BegunDebt
  <2> QED  BY <1>1, <1>2, <1>5, <2>2 DEF NoFullPassInStream, DebtInv, handoff
<1>14. BoundInv'  BY <1>3 DEF BoundInv
<1> QED  BY <1>6, <1>8, <1>9, <1>10, <1>11, <1>12, <1>13, <1>14 DEF Inv

-----------------------------------------------------------------------------
(* Core 0 collects.                                                        *)

LEMMA ActStep ==
  ASSUME TypeOK, NEW r \in ResultType, Act(r)
  PROVE  /\ acted' = r.frame /\ scan' \in ScanType /\ ~scan'.pending
         /\ screen' \in Screens /\ resetFlag' \in BOOLEAN
         /\ Room \/ resetFlag' = resetFlag
<1>1. scan \in ScanType /\ screen \in Screens /\ resetFlag \in BOOLEAN  BY DEF TypeOK
<1>2. AfterRead(r) \in ScanType  BY AfterType
<1>3. ~AfterRead(r).pending  BY <1>1 DEF AfterRead, ScanType
<1>4. \A b \in BOOLEAN : /\ [AfterRead(r) EXCEPT !.mf = b] \in ScanType
                         /\ [AfterRead(r) EXCEPT !.mf = b].pending = AfterRead(r).pending
  BY <1>2 DEF ScanType
<1>5. /\ [AfterRead(r) EXCEPT !.cooldown = Cooldown] \in ScanType
      /\ [AfterRead(r) EXCEPT !.cooldown = Cooldown].pending = AfterRead(r).pending
  <2>1. Cooldown \in 0 .. Cooldown  BY LimitsAssumption
  <2>2. [AfterRead(r) EXCEPT !.cooldown = Cooldown] \in ScanType  BY <1>2, <2>1, FieldTypes
  <2> QED  BY <1>2, <2>2 DEF ScanType
<1>6. scan' \in ScanType /\ ~scan'.pending
  <2>1. scan.mf \in BOOLEAN  BY <1>1 DEF ScanType
  <2>2. \/ \E b \in BOOLEAN : scan' = [AfterRead(r) EXCEPT !.mf = b]
        \/ scan' = [AfterRead(r) EXCEPT !.cooldown = Cooldown]
    BY <2>1 DEF Act
  <2> QED  BY <1>3, <1>4, <1>5, <2>2
<1>7. (UNCHANGED <<screen, resetFlag>>) \/ Processed  BY DEF Act
<1>8. screen' \in Screens /\ resetFlag' \in BOOLEAN /\ (Room \/ resetFlag' = resetFlag)
  BY <1>1, <1>7 DEF Processed, Redrawn, Screens
<1> QED  BY <1>6, <1>8 DEF Act

LEMMA CollectInv ==
  ASSUME Inv, Collect
  PROVE  Inv'
<1>1. TypeOK /\ Ownership /\ WorkerInv /\ CycleInv /\ Shipment /\ NoFullPassInStream /\ DebtInv /\ BoundInv
  BY DEF Inv
<1>2. /\ pc = "collect" /\ pc' = "arm" /\ ~resetFlag /\ ~scan.pending /\ acted = None
      /\ cam \in Frames /\ cam.session = session /\ cam.visit = visit
      /\ UNCHANGED <<job, image, core1, cam, gen, tune, visit, scene, session>>
  BY <1>1 DEF Collect, CycleInv, DebtInv
<1>3. CASE jobState # "DONE"
  <2>1. UNCHANGED <<jobState, results, acted, scan, screen, resetFlag>>  BY <1>3 DEF Collect
  <2>2. TypeOK'  BY <1>1, <1>2, <2>1 DEF TypeOK, core1
  <2>3. Ownership' /\ WorkerInv'  BY <1>1, <1>2, <2>1 DEF Ownership, WorkerInv, core1
  <2>4. Shipment'  BY <1>1, <1>2, <2>1 DEF Shipment, Asking, Stamped, GenBack, core1
  <2>5. CycleInv' /\ ReplayFree'  BY <1>1, <1>2, <2>1 DEF CycleInv, ReplayFree
  <2>6. NoFullPassInStream' /\ DebtInv' /\ BoundInv'
    BY <1>1, <1>2, <2>1 DEF NoFullPassInStream, DebtInv, BoundInv
  <2> QED  BY <2>2, <2>3, <2>4, <2>5, <2>6 DEF Inv
<1>4. CASE jobState = "DONE"
  <2>1. results \in ResultType /\ wpc = "spin" /\ results # NoResult
    BY <1>1, <1>4 DEF TypeOK, WorkerInv, Ownership
  <2>2. results' = NoResult /\ jobState' = "IDLE"  BY <1>4 DEF Collect
  <2>3. Stamped(results.frame, results.gen)  BY <1>1, <2>1 DEF Shipment
  <2>4. \/ results.gen = gen /\ Act(results)
        \/ /\ UNCHANGED <<acted, screen, resetFlag>>
           /\ \/ scan' = scan
              \/ results.kind = "FAST" /\ scan' = AfterFastMiss(results)
              \/ results.kind # "FAST" /\ scan' = AfterEscMiss(results)
    BY <1>4 DEF Collect
  <2>5. /\ scan' \in ScanType /\ screen' \in Screens /\ resetFlag' \in BOOLEAN
        /\ Room \/ resetFlag' = resetFlag
        /\ acted' \in Frames \cup {None}
    <3>1. CASE Act(results)
      <4>1. results.frame \in Frames  BY <2>3 DEF Stamped
      <4> QED  BY <1>1, <2>1, <3>1, <4>1, ActStep
    <3>2. CASE UNCHANGED <<acted, screen, resetFlag>>
      <4>1. scan' \in ScanType  BY <1>1, <2>1, <2>4, AfterType, ActStep DEF TypeOK
      <4> QED  BY <1>1, <3>2, <4>1 DEF TypeOK
    <3> QED  BY <2>4, <3>1, <3>2
  <2>6. TypeOK'  BY <1>1, <1>2, <2>2, <2>5 DEF TypeOK, core1
  <2>7. Ownership' /\ WorkerInv'
    BY <1>2, <2>1, <2>2 DEF Ownership, WorkerInv, core1
  <2>8. Shipment'  BY <1>2, <2>1, <2>2 DEF Shipment, Asking, core1
  <2>9. CycleInv'  BY <1>2 DEF CycleInv
  <2>10. ReplayFree'
    <3>1. CASE results.gen = gen /\ Act(results)
      <4>1. acted' = results.frame  BY <1>1, <2>1, <3>1, ActStep
      <4>2. results.frame.session = session \/ session - results.frame.session >= Gens
        BY <1>1, <2>3, <3>1, StampTells
      <4> QED  BY <1>2, <4>1, <4>2 DEF ReplayFree
    <3>2. CASE acted' = acted  BY <1>2, <3>2 DEF ReplayFree
    <3> QED  BY <2>4, <3>1, <3>2
  <2>11. NoFullPassInStream'  BY <1>2, <2>2 DEF NoFullPassInStream
  <2>12. DebtInv'
    <3>1. scan'.pending => ~scan'.mf
      <4>1. CASE Act(results)  BY <1>1, <2>1, <4>1, ActStep
      <4>2. CASE scan' = scan  BY <1>2, <4>2
      <4>3. CASE scan' = AfterFastMiss(results)  BY <1>1, <1>2, <2>1, <4>3, AfterDebt
      <4>4. CASE results.kind # "FAST" /\ scan' = AfterEscMiss(results)
        <5>1. job.kind = "ESC"  BY <1>1, <2>1, <4>4 DEF WorkerInv, ResultType, Kinds
        <5>2. ~scan.mf  BY <1>1, <1>4, <5>1 DEF NoFullPassInStream
        <5> QED  BY <1>1, <1>2, <2>1, <4>4, <5>2, AfterDebt
      <4> QED  BY <2>4, <4>1, <4>2, <4>3, <4>4
    <3> QED  BY <1>2, <2>2, <3>1 DEF DebtInv
  <2>13. BoundInv'
    <3>1. Room => session < MaxSessions
      <4>1. session \in Int /\ MaxSessions \in Int  BY <1>1, LimitsAssumption DEF TypeOK
      <4> QED  BY <4>1 DEF Room
    <3> QED  BY <1>1, <1>2, <2>5, <3>1 DEF BoundInv
  <2> QED  BY <2>6, <2>7, <2>8, <2>9, <2>10, <2>11, <2>12, <2>13 DEF Inv
<1> QED  BY <1>3, <1>4

-----------------------------------------------------------------------------
(* Core 0 hands the next job over.                                         *)

LEMMA OwedType == Owed \in Kinds
  BY DEF Owed, Kinds

\* While core 0 is filling, core 1 spins and the result cell is empty.
LEMMA IdleCores ==
  ASSUME Inv, jobState = "IDLE"
  PROVE  wpc = "spin" /\ results = NoResult /\ ~Asking
<1>1. TypeOK /\ Ownership  BY DEF Inv
<1>2. wpc = "spin" /\ results = NoResult  BY <1>1 DEF Ownership
<1> QED  BY <1>2 DEF Asking

LEMMA BorrowInv ==
  ASSUME Inv, Borrow
  PROVE  Inv'
<1>1. TypeOK /\ Ownership /\ WorkerInv /\ CycleInv /\ Shipment /\ NoFullPassInStream /\ DebtInv /\ BoundInv
  BY DEF Inv
<1>2. /\ pc = "arm" /\ acted' = None
      /\ cam \in Frames /\ cam.session = session /\ cam.visit = visit
      /\ UNCHANGED <<jobState, job, results, core1, gen, scan, nav, scene, session>>
  BY <1>1 DEF Borrow, CycleInv
<1>3. CASE jobState = "IDLE"
  <2>1. pc' = "fill" /\ image' = [image EXCEPT ![Owed] = None] /\ UNCHANGED cam
    BY <1>3 DEF Borrow
  <2>2. wpc = "spin" /\ results = NoResult  BY <1>3, IdleCores
  <2>3. image' \in [Kinds -> Frames \cup {None}]  BY <1>1, <2>1 DEF TypeOK
  <2>4. TypeOK'  BY <1>1, <1>2, <2>1, <2>3 DEF TypeOK, core1, nav
  <2>5. Ownership' /\ WorkerInv' /\ Shipment'
    BY <1>2, <1>3, <2>1, <2>2 DEF Ownership, WorkerInv, Shipment, Asking, core1
  <2>6. CycleInv' /\ ReplayFree'  BY <1>2, <2>1 DEF CycleInv, ReplayFree, nav
  <2>7. NoFullPassInStream' /\ DebtInv' /\ BoundInv'
    BY <1>1, <1>2, <1>3, <2>1 DEF NoFullPassInStream, DebtInv, BoundInv, nav
  <2> QED  BY <2>4, <2>5, <2>6, <2>7 DEF Inv
<1>4. CASE jobState # "IDLE"
  <2>1. pc' = "between" /\ cam' = None /\ UNCHANGED image  BY <1>4 DEF Borrow
  <2>2. TypeOK'  BY <1>1, <1>2, <2>1 DEF TypeOK, core1, nav
  <2>3. Ownership' /\ WorkerInv'
    BY <1>1, <1>2, <2>1 DEF Ownership, WorkerInv, core1
  <2>4. Shipment'
    BY <1>1, <1>2, <2>1 DEF Shipment, Asking, Stamped, GenBack, core1, nav
  <2>5. CycleInv' /\ ReplayFree'  BY <1>2, <2>1 DEF CycleInv, ReplayFree
  <2>6. NoFullPassInStream' /\ DebtInv' /\ BoundInv'
    BY <1>1, <1>2, <1>4, <2>1 DEF NoFullPassInStream, DebtInv, BoundInv, nav
  <2> QED  BY <2>2, <2>3, <2>4, <2>5, <2>6 DEF Inv
<1> QED  BY <1>3, <1>4

LEMMA FillInv ==
  ASSUME Inv, Fill
  PROVE  Inv'
<1>1. TypeOK /\ Ownership /\ WorkerInv /\ CycleInv /\ Shipment /\ NoFullPassInStream /\ DebtInv /\ BoundInv
  BY DEF Inv
<1>2. /\ pc = "fill" /\ pc' = "stamp" /\ image' = [image EXCEPT ![Owed] = cam] /\ jobState = "IDLE"
      /\ acted = None /\ cam \in Frames /\ cam.session = session /\ cam.visit = visit
      /\ UNCHANGED <<jobState, job, results, core1, cam, acted, gen, scan, nav, scene, session>>
  BY <1>1 DEF Fill, CycleInv, Ownership
<1>3. wpc = "spin" /\ results = NoResult  BY <1>2, IdleCores
<1>4. image' \in [Kinds -> Frames \cup {None}] /\ image'[Owed] = cam
  BY <1>1, <1>2, OwedType DEF TypeOK
<1>5. TypeOK'  BY <1>1, <1>2, <1>4 DEF TypeOK, core1, nav
<1>6. Ownership' /\ WorkerInv' /\ Shipment'
  BY <1>2, <1>3 DEF Ownership, WorkerInv, Shipment, Asking, core1
<1>7. CycleInv' /\ ReplayFree'
  <2>1. Owed' = Owed  BY <1>2 DEF Owed
  <2> QED  BY <1>2, <1>4, <2>1 DEF CycleInv, ReplayFree, nav
<1>8. NoFullPassInStream' /\ DebtInv' /\ BoundInv'
  BY <1>1, <1>2 DEF NoFullPassInStream, DebtInv, BoundInv, nav
<1> QED  BY <1>5, <1>6, <1>7, <1>8 DEF Inv

LEMMA StampInv ==
  ASSUME Inv, Stamp
  PROVE  Inv'
<1>1. TypeOK /\ Ownership /\ WorkerInv /\ CycleInv /\ Shipment /\ NoFullPassInStream /\ DebtInv /\ BoundInv
  BY DEF Inv
<1>2. /\ pc = "stamp" /\ pc' = "publish" /\ jobState = "IDLE"
      /\ job' = [kind |-> Owed, denom |-> OwedWindow, gen |-> gen] /\ image[Owed] = cam
      /\ acted = None /\ cam \in Frames /\ cam.session = session /\ cam.visit = visit
      /\ UNCHANGED <<jobState, image, results, core1, cam, acted, gen, scan, nav, scene, session>>
  BY <1>1 DEF Stamp, CycleInv, Ownership
<1>3. wpc = "spin" /\ results = NoResult  BY <1>2, IdleCores
<1>4. job' \in Params
  <2>1. OwedWindow \in Windows  BY <1>1 DEF OwedWindow, TypeOK, ScanType
  <2> QED  BY <1>1, <1>2, <2>1, OwedType DEF Params, TypeOK
<1>5. TypeOK'  BY <1>1, <1>2, <1>4 DEF TypeOK, core1, nav
<1>6. Ownership' /\ WorkerInv' /\ Shipment'
  BY <1>2, <1>3 DEF Ownership, WorkerInv, Shipment, Asking, core1
<1>7. CycleInv' /\ ReplayFree'
  <2>1. Owed' = Owed  BY <1>2 DEF Owed
  <2> QED  BY <1>2, <2>1 DEF CycleInv, ReplayFree, nav
<1>8. NoFullPassInStream' /\ DebtInv' /\ BoundInv'
  BY <1>1, <1>2 DEF NoFullPassInStream, DebtInv, BoundInv, nav
<1> QED  BY <1>5, <1>6, <1>7, <1>8 DEF Inv

LEMMA PublishInv ==
  ASSUME Inv, Publish
  PROVE  Inv'
<1>1. TypeOK /\ Ownership /\ WorkerInv /\ CycleInv /\ Shipment /\ NoFullPassInStream /\ DebtInv /\ BoundInv
  BY DEF Inv
<1>2. /\ pc = "publish" /\ pc' = "between" /\ jobState = "IDLE" /\ jobState' = "READY" /\ cam' = None
      /\ job.kind = Owed /\ job.gen = gen /\ image[Owed] = cam
      /\ acted = None /\ cam \in Frames /\ cam.session = session /\ cam.visit = visit
      /\ UNCHANGED <<job, image, results, core1, acted, gen, nav, scene, session>>
  BY <1>1 DEF Publish, CycleInv, Ownership
<1>3. wpc = "spin" /\ results = NoResult  BY <1>2, IdleCores
<1>4. /\ scan' \in ScanType /\ ~scan'.pending /\ scan'.mf = scan.mf
      /\ job.kind = "ESC" => ~scan.mf
  <2>1. scan \in ScanType  BY <1>1 DEF TypeOK
  <2>2. CASE Owed = "ESC"
    <3>1. scan' = [scan EXCEPT !.pending = FALSE] /\ ~scan.mf  BY <2>2 DEF Publish, Owed
    <3> QED  BY <1>2, <2>1, <3>1 DEF ScanType
  <2>3. CASE Owed # "ESC"
    <3>1. scan' = scan /\ ~scan.pending  BY <1>1, <2>3 DEF Publish, Owed, DebtInv
    <3> QED  BY <1>2, <2>1, <2>3, <3>1
  <2> QED  BY <2>2, <2>3
<1>5. TypeOK'  BY <1>1, <1>2, <1>4 DEF TypeOK, core1, nav
<1>6. Ownership' /\ WorkerInv'
  BY <1>2, <1>3 DEF Ownership, WorkerInv, core1
<1>7. Shipment'
  <2>1. gen = GenBack(0) /\ session - cam.session = 0 /\ cam.session <= session
    <3>1. gen \in Int /\ gen >= 0 /\ session \in Int  BY <1>1 DEF TypeOK
    <3> QED  BY <1>2, <3>1 DEF GenBack
  <2>2. Stamped(cam, gen)  BY <1>2, <2>1 DEF Stamped
  <2> QED  BY <1>2, <1>3, <2>2 DEF Shipment, Stamped, GenBack, nav
<1>8. CycleInv' /\ ReplayFree'  BY <1>2 DEF CycleInv, ReplayFree
<1>9. NoFullPassInStream' /\ DebtInv' /\ BoundInv'
  BY <1>1, <1>2, <1>4 DEF NoFullPassInStream, DebtInv, BoundInv, nav
<1> QED  BY <1>5, <1>6, <1>7, <1>8, <1>9 DEF Inv

-----------------------------------------------------------------------------
(* Core 1.                                                                 *)

\* Core 1 touches nothing that core 0's parts of the invariant speak of.
LEMMA WorkerFrame ==
  ASSUME Inv, UNCHANGED <<job, pc, cam, acted, gen, scan, nav, scene, session>>,
         pc \in {"stamp", "publish"} => UNCHANGED image,
         jobState' = "IDLE" <=> jobState = "IDLE"
  PROVE  CycleInv' /\ ReplayFree' /\ NoFullPassInStream' /\ DebtInv' /\ BoundInv'
<1>1. CycleInv /\ ReplayFree /\ NoFullPassInStream /\ DebtInv /\ BoundInv  BY DEF Inv
<1>2. CycleInv'
  <2>1. Owed' = Owed  BY DEF Owed
  <2> QED  BY <1>1, <2>1 DEF CycleInv, nav
<1>3. ReplayFree'  BY <1>1 DEF ReplayFree
<1>4. NoFullPassInStream' /\ DebtInv' /\ BoundInv'
  BY <1>1 DEF NoFullPassInStream, DebtInv, BoundInv, nav
<1> QED  BY <1>2, <1>3, <1>4

LEMMA TakeInv ==
  ASSUME Inv, Take
  PROVE  Inv'
<1>1. TypeOK /\ Ownership /\ WorkerInv /\ Shipment  BY DEF Inv
<1>2. /\ wpc = "spin" /\ jobState = "READY" /\ jobState' = "BUSY" /\ wpc' = "load"
      /\ results = NoResult /\ image[job.kind] \in Frames
      /\ UNCHANGED <<job, image, results, work, pc, cam, acted, gen, scan, nav, scene, session>>
  BY <1>1 DEF Take, Ownership
<1>3. TypeOK'  BY <1>1, <1>2 DEF TypeOK, nav
<1>4. Ownership' /\ WorkerInv'  BY <1>1, <1>2 DEF Ownership, WorkerInv
<1>5. Shipment'  BY <1>1, <1>2 DEF Shipment, Asking, Stamped, GenBack, nav
<1>6. CycleInv' /\ ReplayFree' /\ NoFullPassInStream' /\ DebtInv' /\ BoundInv'
  BY <1>2, WorkerFrame
<1> QED  BY <1>3, <1>4, <1>5, <1>6 DEF Inv

LEMMA LoadInv ==
  ASSUME Inv, Load
  PROVE  Inv'
<1>1. TypeOK /\ Ownership /\ WorkerInv /\ Shipment  BY DEF Inv
<1>2. /\ wpc = "load" /\ wpc' = "decode" /\ work' = job /\ results = NoResult
      /\ UNCHANGED <<jobState, job, image, results, pc, cam, acted, gen, scan, nav, scene, session>>
  BY <1>1 DEF Load, WorkerInv, handoff
<1>3. TypeOK'  BY <1>1, <1>2 DEF TypeOK, nav
<1>4. image[job.kind] \in Frames  BY <1>1, <1>2 DEF Shipment, Asking, Stamped
<1>5. Ownership' /\ WorkerInv'  BY <1>1, <1>2, <1>4 DEF Ownership, WorkerInv
<1>6. Shipment'  BY <1>1, <1>2 DEF Shipment, Asking, Stamped, GenBack, nav
<1>7. CycleInv' /\ ReplayFree' /\ NoFullPassInStream' /\ DebtInv' /\ BoundInv'
  BY <1>2, WorkerFrame
<1> QED  BY <1>3, <1>5, <1>6, <1>7 DEF Inv

\* The result of a decode is the answer to the job at hand.
LEMMA DecodeStep ==
  ASSUME Inv, Decode
  PROVE  /\ wpc = "decode" /\ wpc' = "done" /\ jobState = "BUSY" /\ results = NoResult
         /\ work = job /\ image[job.kind] \in Frames
         /\ results' = [kind |-> job.kind, denom |-> job.denom, gen |-> job.gen,
                        frame |-> image[job.kind],
                        outcome |-> Decoded([kind |-> job.kind, denom |-> job.denom,
                                             gen |-> job.gen, frame |-> image[job.kind]])]
         /\ results' \in ResultType
<1>1. TypeOK /\ Ownership /\ WorkerInv  BY DEF Inv
<1>2. /\ wpc = "decode" /\ wpc' = "done" /\ jobState = "BUSY" /\ results = NoResult
      /\ work = job /\ image[job.kind] \in Frames
  BY <1>1 DEF Decode, Ownership, WorkerInv
<1>3. image[work.kind] # None  BY <1>2, NoneIsNoFrame
<1>4. results' = [kind |-> job.kind, denom |-> job.denom, gen |-> job.gen,
                  frame |-> image[job.kind],
                  outcome |-> Decoded([kind |-> job.kind, denom |-> job.denom,
                                       gen |-> job.gen, frame |-> image[job.kind]])]
  BY <1>2, <1>3 DEF Decode
<1>5. results' \in ResultType
  BY <1>1, <1>2, <1>4, DecodedType DEF ResultType, TypeOK, Params
<1> QED  BY <1>2, <1>4, <1>5

LEMMA DecodeInv ==
  ASSUME Inv, Decode
  PROVE  Inv'
<1>1. TypeOK /\ Ownership /\ WorkerInv /\ Shipment  BY DEF Inv
<1>2. UNCHANGED <<jobState, job, work, pc, cam, acted, gen, scan, nav, scene, session>>
      /\ image' = [image EXCEPT ![work.kind] = None]
  BY DEF Decode
<1>3. image' \in [Kinds -> Frames \cup {None}]  BY <1>1, <1>2 DEF TypeOK
<1>4. TypeOK'  BY <1>1, <1>2, <1>3, DecodeStep DEF TypeOK, nav
<1>5. results' # NoResult  BY DecodeStep, NoResultIsNone
<1>6. Ownership' /\ WorkerInv'
  BY <1>1, <1>2, <1>5, DecodeStep DEF Ownership, WorkerInv
<1>7. Shipment'
  <2>1. Stamped(image[job.kind], job.gen)  BY <1>1, DecodeStep DEF Shipment, Asking
  <2>2. results'.frame = image[job.kind] /\ results'.gen = job.gen  BY DecodeStep
  <2>3. ~Asking'  BY <1>2, DecodeStep DEF Asking
  <2> QED  BY <1>2, <2>1, <2>2, <2>3 DEF Shipment, Stamped, GenBack, nav
<1>8. CycleInv' /\ ReplayFree' /\ NoFullPassInStream' /\ DebtInv' /\ BoundInv'
  <2>1. pc \notin {"stamp", "publish"}  BY <1>1, DecodeStep DEF Ownership
  <2> QED  BY <1>2, <2>1, WorkerFrame
<1> QED  BY <1>4, <1>6, <1>7, <1>8 DEF Inv

LEMMA FinishInv ==
  ASSUME Inv, Finish
  PROVE  Inv'
<1>1. TypeOK /\ Ownership /\ WorkerInv /\ Shipment  BY DEF Inv
<1>2. /\ wpc = "done" /\ wpc' = "spin" /\ jobState = "BUSY" /\ jobState' = "DONE"
      /\ results # NoResult
      /\ UNCHANGED <<job, image, results, work, pc, cam, acted, gen, scan, nav, scene, session>>
  BY <1>1 DEF Finish, Ownership, WorkerInv
<1>3. TypeOK'  BY <1>1, <1>2 DEF TypeOK, nav
<1>4. Ownership' /\ WorkerInv'
  <2>1. results.frame \in Frames  BY <1>1, <1>2 DEF Shipment, Stamped
  <2> QED  BY <1>1, <1>2, <2>1 DEF Ownership, WorkerInv
<1>5. Shipment'  BY <1>1, <1>2 DEF Shipment, Asking, Stamped, GenBack, nav
<1>6. CycleInv' /\ ReplayFree' /\ NoFullPassInStream' /\ DebtInv' /\ BoundInv'
  BY <1>2, WorkerFrame
<1> QED  BY <1>3, <1>4, <1>5, <1>6 DEF Inv

-----------------------------------------------------------------------------
(* The theorems.                                                           *)

LEMMA InitInv == Init => Inv
<1> SUFFICES ASSUME Init PROVE Inv  OBVIOUS
<1>1. TypeOK
  <2>1. Gens \in Nat /\ Gens > 0 /\ LimitsAssumption  BY GensAssumption, LimitsAssumption
  <2>2. job \in Params /\ work \in Params  BY <2>1 DEF Init, Params, Kinds, Windows
  <2>3. scan \in ScanType  BY <2>1 DEF Init, ScanType, Windows, LimitsAssumption
  <2>4. image \in [Kinds -> Frames \cup {None}]  BY DEF Init
  <2>5. /\ jobState = "IDLE" /\ results = NoResult /\ wpc = "spin" /\ pc = "between"
        /\ cam = None /\ acted = None /\ screen = "Away"
        /\ tune = FALSE /\ resetFlag = FALSE /\ scene \in Codes
    BY DEF Init
  <2>6. gen \in 0 .. Gens - 1 /\ visit \in 0 .. MaxVisits /\ session \in 0 .. MaxSessions
    BY <2>1 DEF Init, LimitsAssumption
  <2> QED  BY <2>2, <2>3, <2>4, <2>5, <2>6 DEF TypeOK, Screens
<1>2. Ownership /\ WorkerInv /\ CycleInv /\ Shipment
  BY DEF Init, Ownership, WorkerInv, CycleInv, Shipment, Asking
<1>3. ReplayFree /\ NoFullPassInStream /\ DebtInv /\ BoundInv
  BY DEF Init, ReplayFree, NoFullPassInStream, DebtInv, BoundInv
<1> QED  BY <1>1, <1>2, <1>3 DEF Inv

LEMMA StepInv == Inv /\ [Next]_vars => Inv'
<1> SUFFICES ASSUME Inv, [Next]_vars PROVE Inv'  OBVIOUS
<1>1. CASE User  BY <1>1, UserInv
<1>2. CASE CutShort  BY <1>2, CutShortInv
<1>3. CASE CameraLoop
  BY <1>3, CaptureInv, CollectInv, BorrowInv, FillInv, StampInv, PublishInv DEF CameraLoop
<1>4. CASE Worker  BY <1>4, TakeInv, LoadInv, DecodeInv, FinishInv DEF Worker
<1>5. CASE UNCHANGED vars
  BY <1>5 DEF vars, handoff, core1, nav, Inv, TypeOK, Ownership, WorkerInv, CycleInv, Shipment,
     Asking, Stamped, GenBack, Owed, ReplayFree, NoFullPassInStream, DebtInv, BoundInv
<1> QED  BY <1>1, <1>2, <1>3, <1>4, <1>5 DEF Next

(* The inductive invariant holds.                                          *)
THEOREM Invariance == Spec => []Inv
<1> QED  BY InitInv, StepInv, PTL DEF Spec

(* Every variable keeps its type, the wrapping generation included.        *)
THEOREM Typed == Spec => []TypeOK
<1>1. Inv => TypeOK  BY DEF Inv
<1> QED  BY <1>1, Invariance, PTL

(* The four states of JOB_STATE keep the two cores off each other's data.  *)
THEOREM CoresKeepApart == Spec => []Ownership
<1>1. Inv => Ownership  BY DEF Inv
<1> QED  BY <1>1, Invariance, PTL

(* A stale result is dropped, unless GEN came full circle.                 *)
THEOREM StaleResultsDropped == Spec => []ReplayFree
<1>1. Inv => ReplayFree  BY DEF Inv
<1> QED  BY <1>1, Invariance, PTL

(* No full pass is owed or under way during an animation.                  *)
THEOREM StreamsUndisturbed == Spec => []NoFullPassInStream
<1>1. Inv => NoFullPassInStream  BY DEF Inv
<1> QED  BY <1>1, Invariance, PTL

(* ScanQR acts only on what this visit to it has seen.                     *)
THEOREM ScanActsOnThisVisit == Spec => ScanVisit
<1> DEFINE Seen == (acted = None /\ acted' # None /\ screen = "ScanQR")
                     => (acted'.visit = visit \/ session - acted'.session >= Gens)
<1>1. ASSUME Inv, [Next]_vars PROVE [Seen]_vars
  <2> SUFFICES ASSUME Next, acted = None, acted' # None, screen = "ScanQR"
               PROVE  acted'.visit = visit \/ session - acted'.session >= Gens
    BY <1>1
  <2>1. Collect
    BY DEF Next, User, CameraLoop, Worker, Enter, Back, HomeOrWipe, Repaint, MoveCode, CutShort,
           Capture, Borrow, Fill, Stamp, Publish, Take, Load, Decode, Finish
  <2>2. TypeOK /\ WorkerInv /\ CycleInv /\ Shipment  BY <1>1 DEF Inv
  <2>3. jobState = "DONE" /\ results.gen = gen /\ Act(results) /\ ~resetFlag
    BY <2>1, <2>2 DEF Collect, CycleInv
  <2>4. results # NoResult /\ Stamped(results.frame, gen)
    BY <2>2, <2>3 DEF WorkerInv, Shipment
  <2>5. acted' = results.frame  BY <2>3 DEF Act
  <2> QED  BY <2>2, <2>3, <2>4, <2>5, StampTells
<1> QED  BY <1>1, Invariance, PTL DEF Spec, ScanVisit

(* The two cores implement the one-place service: parameters and image are *)
(* complete when READY is stored, so that publishing is its Ask, decoding  *)
(* its Answer and collecting a finished job its Collect; whatever else the *)
(* cores do is not seen through it.                                        *)
LEMMA ServiceInit == Init => Service!Init
<1> QED  BY DEF Init, Slot, Service!Init, Service!Empty

LEMMA PublishAsks ==
  ASSUME Inv, Publish
  PROVE  Service!Ask
<1>1. jobState = "IDLE" /\ jobState' = "READY" /\ results = NoResult /\ results' = NoResult
  BY DEF Inv, Ownership, Publish
<1>2. job' = job /\ image' = image /\ job \in Params /\ image[job.kind] \in Frames
  BY <1>1 DEF Inv, TypeOK, CycleInv, Publish
<1> DEFINE j == [kind |-> job.kind, denom |-> job.denom, gen |-> job.gen, frame |-> image[job.kind]]
<1>3. j \in Jobs  BY <1>2 DEF Jobs, Params
<1>4. Slot = [phase |-> "empty"]  BY <1>1 DEF Slot
<1>5. Slot' = [phase |-> "asked", job |-> j]  BY <1>1, <1>2 DEF Slot
<1> QED  BY <1>3, <1>4, <1>5 DEF Service!Ask, Service!Empty, Service!Asked

LEMMA DecodeAnswers ==
  ASSUME Inv, Decode
  PROVE  Service!Answer
<1>1. /\ wpc = "decode" /\ jobState = "BUSY" /\ jobState' = jobState
      /\ work = job /\ job \in Params /\ image[job.kind] \in Frames
  BY DEF Inv, TypeOK, Ownership, Decode
<1>2. results = NoResult  BY <1>1 DEF Inv, WorkerInv
<1> DEFINE j == [kind |-> job.kind, denom |-> job.denom, gen |-> job.gen, frame |-> image[job.kind]]
<1>3. j \in Jobs  BY <1>1 DEF Jobs, Params
<1>4. Slot = [phase |-> "asked", job |-> j]  BY <1>1, <1>2 DEF Slot
<1>5. results' = [kind |-> j.kind, denom |-> j.denom, gen |-> j.gen, frame |-> j.frame,
                  outcome |-> Decoded(j)]
  BY <1>1, NoneIsNoFrame DEF Decode
<1>6. results' # NoResult  BY <1>5 DEF NoResult
<1>7. Slot' = [phase |-> "answered", job |-> j, outcome |-> Decoded(j)]
  <2>1. Slot' = [phase |-> "answered",
                 job |-> [kind |-> results'.kind, denom |-> results'.denom, gen |-> results'.gen,
                          frame |-> results'.frame],
                 outcome |-> results'.outcome]
    BY <1>1, <1>6 DEF Slot
  <2>2. /\ results'.kind = job.kind /\ results'.denom = job.denom /\ results'.gen = job.gen
        /\ results'.frame = image[job.kind] /\ results'.outcome = Decoded(j)
    BY <1>5
  <2> QED  BY <2>1, <2>2
<1> HIDE DEF j
<1> QED  BY <1>3, <1>4, <1>7 DEF Service!Answer, Service!Asked, Service!Answered

\* What the result cell holds is the decoder's answer to the job it names.
ResultJob == [kind |-> results.kind, denom |-> results.denom, gen |-> results.gen,
              frame |-> results.frame]
AnswerInv == results # NoResult => results.outcome = Decoded(ResultJob)

LEMMA CollectTakes ==
  ASSUME Inv, AnswerInv, Collect, jobState = "DONE"
  PROVE  Service!Collect
<1>1. results # NoResult /\ results \in ResultType /\ results.frame \in Frames
  BY DEF Inv, TypeOK, WorkerInv, Ownership
<1>2. ResultJob \in Jobs  BY <1>1 DEF ResultType, Jobs, ResultJob
<1>3. Slot = [phase |-> "answered", job |-> ResultJob, outcome |-> Decoded(ResultJob)]
  BY <1>1 DEF Slot, AnswerInv, ResultJob
<1>4. Slot' = [phase |-> "empty"]  BY DEF Collect, Slot
<1> QED  BY <1>2, <1>3, <1>4 DEF Service!Collect, Service!Answered, Service!Empty

\* Every other step leaves the service where it was.
LEMMA OthersUnseen ==
  ASSUME Inv, [Next]_vars, ~Publish, ~Decode, ~(Collect /\ jobState = "DONE")
  PROVE  Slot' = Slot /\ results' = results
<1>1. CASE UNCHANGED vars  BY <1>1 DEF vars, handoff, Slot
<1>2. CASE User \/ CutShort \/ Capture
  BY <1>2 DEF User, Enter, Back, HomeOrWipe, Repaint, MoveCode, CutShort, Capture, handoff, Slot
<1>3. CASE Collect  BY <1>3 DEF Collect, Slot
<1>4. CASE Borrow \/ Fill \/ Stamp
  <2>1. results' = results /\ jobState' = jobState  BY <1>4 DEF Borrow, Fill, Stamp
  <2>2. CASE Borrow /\ jobState # "IDLE"
    BY <2>1, <2>2 DEF Borrow, Slot
  <2>3. CASE jobState = "IDLE"  BY <2>1, <2>3 DEF Slot
  <2>4. Borrow \/ jobState = "IDLE"  BY <1>4 DEF Inv, Ownership, Fill, Stamp
  <2> QED  BY <2>1, <2>2, <2>3, <2>4
<1>5. CASE Take  BY <1>5 DEF Take, Slot
<1>6. CASE Load  BY <1>6 DEF Load, handoff, Slot
<1>7. CASE Finish
  <2>1. jobState = "BUSY" /\ jobState' = "DONE"  BY <1>7 DEF Finish, Inv, Ownership
  <2> QED  BY <1>7, <2>1 DEF Finish, Slot
<1> QED  BY <1>1, <1>2, <1>3, <1>4, <1>5, <1>6, <1>7 DEF Next, CameraLoop, Worker

LEMMA AnswerStep == Inv /\ AnswerInv /\ [Next]_vars => AnswerInv'
<1> SUFFICES ASSUME Inv, AnswerInv, [Next]_vars PROVE AnswerInv'  OBVIOUS
<1>1. CASE Publish  BY <1>1 DEF Publish, AnswerInv, ResultJob
<1>2. CASE Decode
  <2>1. image[work.kind] # None  BY <1>2, NoneIsNoFrame DEF Decode, Inv, Ownership
  <2> DEFINE j == [kind |-> work.kind, denom |-> work.denom, gen |-> work.gen,
                   frame |-> image[work.kind]]
  <2>2. results' = [kind |-> j.kind, denom |-> j.denom, gen |-> j.gen, frame |-> j.frame,
                    outcome |-> Decoded(j)]
    BY <1>2, <2>1 DEF Decode
  <2>3. ResultJob' = j  BY <2>2 DEF ResultJob
  <2>4. results'.outcome = Decoded(j)  BY <2>2
  <2> QED  BY <2>3, <2>4 DEF AnswerInv
<1>3. CASE Collect /\ jobState = "DONE"  BY <1>3 DEF Collect, AnswerInv
<1>4. CASE ~Publish /\ ~Decode /\ ~(Collect /\ jobState = "DONE")
  BY <1>4, OthersUnseen DEF AnswerInv, ResultJob
<1> QED  BY <1>1, <1>2, <1>3, <1>4

\* Whatever the interleaving, the camera loop sees the one-place service.
THEOREM HandoffIsAService == Spec => ServiceSpec
<1>1. Init => AnswerInv  BY DEF Init, AnswerInv
<1>2. Spec => []AnswerInv  BY <1>1, Invariance, AnswerStep, PTL DEF Spec
<1>3. ASSUME Inv, AnswerInv, [Next]_vars PROVE [Service!Next]_Slot
  BY <1>3, PublishAsks, DecodeAnswers, CollectTakes, OthersUnseen DEF Service!Next
<1> QED  BY <1>2, <1>3, ServiceInit, Invariance, PTL DEF Spec, ServiceSpec, Service!Spec
====
