------------------------ MODULE OrbotVpnManagerProofs ------------------------
(***************************************************************************)
(* For any number of sessions: VpnInv is an invariant of OrbotVpnManager.  *)
(***************************************************************************)
EXTENDS OrbotVpnManager, TLAPS

(* The Boolean variables keep their type. *)
LEMMA FlagsStep ==
    ASSUME TypeOK, [Next]_vars PROVE (isRestart \in BOOLEAN /\ dns \in BOOLEAN /\ stopped \in BOOLEAN /\ overlapped \in BOOLEAN /\ gaveUp \in BOOLEAN)'
<1> USE DEF TypeOK, SetupTun2Socks
<1>1. ASSUME HandleStart PROVE (isRestart \in BOOLEAN /\ dns \in BOOLEAN /\ stopped \in BOOLEAN /\ overlapped \in BOOLEAN /\ gaveUp \in BOOLEAN)'  BY <1>1, Zenon DEF HandleStart
<1>2. ASSUME HandleRefresh PROVE (isRestart \in BOOLEAN /\ dns \in BOOLEAN /\ stopped \in BOOLEAN /\ overlapped \in BOOLEAN /\ gaveUp \in BOOLEAN)'  BY <1>2, Zenon DEF HandleRefresh
<1>3. ASSUME HandleStop PROVE (isRestart \in BOOLEAN /\ dns \in BOOLEAN /\ stopped \in BOOLEAN /\ overlapped \in BOOLEAN /\ gaveUp \in BOOLEAN)'  BY <1>3, Zenon DEF HandleStop
<1>4. ASSUME StopTests PROVE (isRestart \in BOOLEAN /\ dns \in BOOLEAN /\ stopped \in BOOLEAN /\ overlapped \in BOOLEAN /\ gaveUp \in BOOLEAN)'  BY <1>4, Zenon DEF StopTests
<1>5. ASSUME StopCloses PROVE (isRestart \in BOOLEAN /\ dns \in BOOLEAN /\ stopped \in BOOLEAN /\ overlapped \in BOOLEAN /\ gaveUp \in BOOLEAN)'  BY <1>5, Zenon DEF StopCloses
<1>6. ASSUME StopNulls PROVE (isRestart \in BOOLEAN /\ dns \in BOOLEAN /\ stopped \in BOOLEAN /\ overlapped \in BOOLEAN /\ gaveUp \in BOOLEAN)'  BY <1>6, Zenon DEF StopNulls
<1>7. ASSUME StopTerminates PROVE (isRestart \in BOOLEAN /\ dns \in BOOLEAN /\ stopped \in BOOLEAN /\ overlapped \in BOOLEAN /\ gaveUp \in BOOLEAN)'  BY <1>7, Zenon DEF StopTerminates
<1>8. ASSUME StopKills PROVE (isRestart \in BOOLEAN /\ dns \in BOOLEAN /\ stopped \in BOOLEAN /\ overlapped \in BOOLEAN /\ gaveUp \in BOOLEAN)'  BY <1>8, Zenon DEF StopKills
<1>9. ASSUME NEW t \in Sessions, SessionWaits(t) PROVE (isRestart \in BOOLEAN /\ dns \in BOOLEAN /\ stopped \in BOOLEAN /\ overlapped \in BOOLEAN /\ gaveUp \in BOOLEAN)'  BY <1>9, Zenon DEF SessionWaits
<1>10. ASSUME NEW t \in Sessions, StartDNS(t) PROVE (isRestart \in BOOLEAN /\ dns \in BOOLEAN /\ stopped \in BOOLEAN /\ overlapped \in BOOLEAN /\ gaveUp \in BOOLEAN)'  BY <1>10, Zenon DEF StartDNS
<1>11. ASSUME NEW t \in Sessions, Establish(t) PROVE (isRestart \in BOOLEAN /\ dns \in BOOLEAN /\ stopped \in BOOLEAN /\ overlapped \in BOOLEAN /\ gaveUp \in BOOLEAN)'  BY <1>11, Zenon DEF Establish
<1>12. ASSUME NEW t \in Sessions, TestOld(t) PROVE (isRestart \in BOOLEAN /\ dns \in BOOLEAN /\ stopped \in BOOLEAN /\ overlapped \in BOOLEAN /\ gaveUp \in BOOLEAN)'  BY <1>12, Zenon DEF TestOld
<1>13. ASSUME NEW t \in Sessions, CloseOld(t) PROVE (isRestart \in BOOLEAN /\ dns \in BOOLEAN /\ stopped \in BOOLEAN /\ overlapped \in BOOLEAN /\ gaveUp \in BOOLEAN)'  BY <1>13, Zenon DEF CloseOld
<1>14. ASSUME NEW t \in Sessions, NullOld(t) PROVE (isRestart \in BOOLEAN /\ dns \in BOOLEAN /\ stopped \in BOOLEAN /\ overlapped \in BOOLEAN /\ gaveUp \in BOOLEAN)'  BY <1>14, Zenon DEF NullOld
<1>15. ASSUME NEW t \in Sessions, Assign(t) PROVE (isRestart \in BOOLEAN /\ dns \in BOOLEAN /\ stopped \in BOOLEAN /\ overlapped \in BOOLEAN /\ gaveUp \in BOOLEAN)'  BY <1>15, Zenon DEF Assign
<1>16. ASSUME NEW t \in Sessions, Start(t) PROVE (isRestart \in BOOLEAN /\ dns \in BOOLEAN /\ stopped \in BOOLEAN /\ overlapped \in BOOLEAN /\ gaveUp \in BOOLEAN)'  BY <1>16, Zenon DEF Start
<1>17. ASSUME NEW t \in Sessions, NativeEnds(t) PROVE (isRestart \in BOOLEAN /\ dns \in BOOLEAN /\ stopped \in BOOLEAN /\ overlapped \in BOOLEAN /\ gaveUp \in BOOLEAN)'  BY <1>17, Zenon DEF NativeEnds
<1>u. CASE UNCHANGED vars  BY <1>u, Zenon DEF vars
<1> QED BY <1>u, <1>1, <1>2, <1>3, <1>4, <1>5, <1>6, <1>7, <1>8, <1>9, <1>10,
          <1>11, <1>12, <1>13, <1>14, <1>15, <1>16, <1>17
    DEF Next, Intent, StopStep, SetupStep

(* Every step preserves the types. *)
LEMMA TypeStep ==
    ASSUME TypeOK, [Next]_vars PROVE TypeOK'
<1> USE FlagsStep DEF TypeOK, SettingUp, Native, Goto, SetFd, Close, Terminated,
        SetupTun2Socks
<1>1. ASSUME HandleStart PROVE TypeOK'  BY <1>1 DEF HandleStart
<1>2. ASSUME HandleRefresh PROVE TypeOK'  BY <1>2 DEF HandleRefresh
<1>3. ASSUME HandleStop PROVE TypeOK'  BY <1>3 DEF HandleStop
<1>4. ASSUME StopTests PROVE TypeOK'  BY <1>4 DEF StopTests
<1>5. ASSUME StopCloses PROVE TypeOK'  BY <1>5 DEF StopCloses
<1>6. ASSUME StopNulls PROVE TypeOK'  BY <1>6 DEF StopNulls
<1>7. ASSUME StopTerminates PROVE TypeOK'  BY <1>7 DEF StopTerminates
<1>8. ASSUME StopKills PROVE TypeOK'  BY <1>8 DEF StopKills
<1>9. ASSUME NEW t \in Sessions, SessionWaits(t) PROVE TypeOK'  BY <1>9 DEF SessionWaits
<1>10. ASSUME NEW t \in Sessions, StartDNS(t) PROVE TypeOK'  BY <1>10 DEF StartDNS
<1>11. ASSUME NEW t \in Sessions, Establish(t) PROVE TypeOK'  BY <1>11 DEF Establish
<1>12. ASSUME NEW t \in Sessions, TestOld(t) PROVE TypeOK'  BY <1>12 DEF TestOld
<1>13. ASSUME NEW t \in Sessions, CloseOld(t) PROVE TypeOK'  BY <1>13 DEF CloseOld
<1>14. ASSUME NEW t \in Sessions, NullOld(t) PROVE TypeOK'  BY <1>14 DEF NullOld
<1>15. ASSUME NEW t \in Sessions, Assign(t) PROVE TypeOK'  BY <1>15 DEF Assign
<1>16. ASSUME NEW t \in Sessions, Start(t) PROVE TypeOK'  BY <1>16 DEF Start
<1>17. ASSUME NEW t \in Sessions, NativeEnds(t) PROVE TypeOK'  BY <1>17 DEF NativeEnds
<1>u. CASE UNCHANGED vars  BY <1>u DEF vars
<1> QED BY <1>u, <1>1, <1>2, <1>3, <1>4, <1>5, <1>6, <1>7, <1>8, <1>9, <1>10,
          <1>11, <1>12, <1>13, <1>14, <1>15, <1>16, <1>17
    DEF Next, Intent, StopStep, SetupStep

(* detachFd hands a descriptor to one tun2socks, whichever session calls it. *)
LEMMA OwnsStep ==
    ASSUME TypeOK, NativeOwnsInterface, Fresh, [Next]_vars PROVE NativeOwnsInterface' /\ Fresh'
<1> USE NoSessionIsNone DEF TypeOK, NativeOwnsInterface, Fresh, SettingUp, Native, Goto, SetFd, Close, Terminated,
        SetupTun2Socks
<1>1. ASSUME HandleStart PROVE NativeOwnsInterface' /\ Fresh'  BY <1>1 DEF HandleStart
<1>2. ASSUME HandleRefresh PROVE NativeOwnsInterface' /\ Fresh'  BY <1>2 DEF HandleRefresh
<1>3. ASSUME HandleStop PROVE NativeOwnsInterface' /\ Fresh'  BY <1>3 DEF HandleStop
<1>4. ASSUME StopTests PROVE NativeOwnsInterface' /\ Fresh'  BY <1>4 DEF StopTests
<1>5. ASSUME StopCloses PROVE NativeOwnsInterface' /\ Fresh'  BY <1>5 DEF StopCloses
<1>6. ASSUME StopNulls PROVE NativeOwnsInterface' /\ Fresh'  BY <1>6 DEF StopNulls
<1>7. ASSUME StopTerminates PROVE NativeOwnsInterface' /\ Fresh'  BY <1>7 DEF StopTerminates
<1>8. ASSUME StopKills PROVE NativeOwnsInterface' /\ Fresh'  BY <1>8 DEF StopKills
<1>9. ASSUME NEW t \in Sessions, SessionWaits(t) PROVE NativeOwnsInterface' /\ Fresh'  BY <1>9 DEF SessionWaits
<1>10. ASSUME NEW t \in Sessions, StartDNS(t) PROVE NativeOwnsInterface' /\ Fresh'  BY <1>10 DEF StartDNS
<1>11. ASSUME NEW t \in Sessions, Establish(t) PROVE NativeOwnsInterface' /\ Fresh'  BY <1>11 DEF Establish
<1>12. ASSUME NEW t \in Sessions, TestOld(t) PROVE NativeOwnsInterface' /\ Fresh'  BY <1>12 DEF TestOld
<1>13. ASSUME NEW t \in Sessions, CloseOld(t) PROVE NativeOwnsInterface' /\ Fresh'  BY <1>13 DEF CloseOld
<1>14. ASSUME NEW t \in Sessions, NullOld(t) PROVE NativeOwnsInterface' /\ Fresh'  BY <1>14 DEF NullOld
<1>15. ASSUME NEW t \in Sessions, Assign(t) PROVE NativeOwnsInterface' /\ Fresh'  BY <1>15 DEF Assign
<1>16. ASSUME NEW t \in Sessions, Start(t) PROVE NativeOwnsInterface' /\ Fresh'  BY <1>16 DEF Start
<1>17. ASSUME NEW t \in Sessions, NativeEnds(t) PROVE NativeOwnsInterface' /\ Fresh'  BY <1>17 DEF NativeEnds
<1>u. CASE UNCHANGED vars  BY <1>u DEF vars
<1> QED BY <1>u, <1>1, <1>2, <1>3, <1>4, <1>5, <1>6, <1>7, <1>8, <1>9, <1>10,
          <1>11, <1>12, <1>13, <1>14, <1>15, <1>16, <1>17
    DEF Next, Intent, StopStep, SetupStep

(* Setup and stop exclude each other unless they overlap, so each sees the other's work. *)
LEMMA SpacedStep ==
    ASSUME TypeOK, NativeOwnsInterface, SpacedOneInstance, StopEffective, Spaced, [Next]_vars PROVE (SpacedOneInstance /\ StopEffective /\ Spaced)'
<1> USE NoSessionIsNone DEF TypeOK, NativeOwnsInterface, SpacedOneInstance,
        StopEffective, Spaced, InSetup, SettingUp, Native, Goto, SetFd, Close, Terminated,
        SetupTun2Socks
<1>1. ASSUME HandleStart PROVE (SpacedOneInstance /\ StopEffective /\ Spaced)'
  <2>1. CASE overlapped'  BY <2>1
  <2>2. CASE ~overlapped'
    <3>1. ~overlapped /\ ~InSetup  BY <1>1, <2>2, Zenon DEF HandleStart
    <3> QED BY <1>1, <2>2, <3>1 DEF HandleStart
  <2> QED BY <2>1, <2>2
<1>2. ASSUME HandleRefresh PROVE (SpacedOneInstance /\ StopEffective /\ Spaced)'
  <2>1. CASE overlapped'  BY <2>1
  <2>2. CASE ~overlapped'
    <3>1. ~overlapped /\ ~InSetup  BY <1>2, <2>2, Zenon DEF HandleRefresh
    <3> QED BY <1>2, <2>2, <3>1 DEF HandleRefresh
  <2> QED BY <2>1, <2>2
<1>3. ASSUME HandleStop PROVE (SpacedOneInstance /\ StopEffective /\ Spaced)'
  <2>1. CASE overlapped'  BY <2>1
  <2>2. CASE ~overlapped'
    <3>1. ~overlapped /\ ~InSetup  BY <1>3, <2>2, Zenon DEF HandleStop
    <3> QED BY <1>3, <2>2, <3>1 DEF HandleStop
  <2> QED BY <2>1, <2>2
<1>4. ASSUME StopTests PROVE (SpacedOneInstance /\ StopEffective /\ Spaced)'  BY <1>4 DEF StopTests
<1>5. ASSUME StopCloses PROVE (SpacedOneInstance /\ StopEffective /\ Spaced)'  BY <1>5 DEF StopCloses
<1>6. ASSUME StopNulls PROVE (SpacedOneInstance /\ StopEffective /\ Spaced)'  BY <1>6 DEF StopNulls
<1>7. ASSUME StopTerminates PROVE (SpacedOneInstance /\ StopEffective /\ Spaced)'  BY <1>7 DEF StopTerminates
<1>8. ASSUME StopKills PROVE (SpacedOneInstance /\ StopEffective /\ Spaced)'  BY <1>8 DEF StopKills
<1>9. ASSUME NEW t \in Sessions, SessionWaits(t) PROVE (SpacedOneInstance /\ StopEffective /\ Spaced)'  BY <1>9 DEF SessionWaits
<1>10. ASSUME NEW t \in Sessions, StartDNS(t) PROVE (SpacedOneInstance /\ StopEffective /\ Spaced)'  BY <1>10 DEF StartDNS
<1>11. ASSUME NEW t \in Sessions, Establish(t) PROVE (SpacedOneInstance /\ StopEffective /\ Spaced)'  BY <1>11 DEF Establish
<1>12. ASSUME NEW t \in Sessions, TestOld(t) PROVE (SpacedOneInstance /\ StopEffective /\ Spaced)'  BY <1>12 DEF TestOld
<1>13. ASSUME NEW t \in Sessions, CloseOld(t) PROVE (SpacedOneInstance /\ StopEffective /\ Spaced)'  BY <1>13 DEF CloseOld
<1>14. ASSUME NEW t \in Sessions, NullOld(t) PROVE (SpacedOneInstance /\ StopEffective /\ Spaced)'  BY <1>14 DEF NullOld
<1>15. ASSUME NEW t \in Sessions, Assign(t) PROVE (SpacedOneInstance /\ StopEffective /\ Spaced)'  BY <1>15 DEF Assign
<1>16. ASSUME NEW t \in Sessions, Start(t) PROVE (SpacedOneInstance /\ StopEffective /\ Spaced)'  BY <1>16 DEF Start
<1>17. ASSUME NEW t \in Sessions, NativeEnds(t) PROVE (SpacedOneInstance /\ StopEffective /\ Spaced)'  BY <1>17 DEF NativeEnds
<1>u. CASE UNCHANGED vars  BY <1>u DEF vars
<1> QED BY <1>u, <1>1, <1>2, <1>3, <1>4, <1>5, <1>6, <1>7, <1>8, <1>9, <1>10,
          <1>11, <1>12, <1>13, <1>14, <1>15, <1>16, <1>17
    DEF Next, Intent, StopStep, SetupStep

(* VpnInv holds at first and is inductive. *)
THEOREM VpnInvariance == Spec => []VpnInv
<1>1. Init => VpnInv
  <2> SUFFICES ASSUME Init PROVE VpnInv
    OBVIOUS
  <2> USE NoSessionIsNone DEF Init, SettingUp, Native, InSetup
  <2>1. /\ isRestart \in BOOLEAN /\ dns \in BOOLEAN
        /\ stopped \in BOOLEAN /\ overlapped \in BOOLEAN /\ gaveUp \in BOOLEAN
    BY Zenon
  <2>2. TypeOK  BY <2>1 DEF TypeOK
  <2>3. NativeOwnsInterface /\ Fresh  BY DEF NativeOwnsInterface, Fresh
  <2>4. SpacedOneInstance /\ StopEffective /\ Spaced
    BY DEF SpacedOneInstance, StopEffective, Spaced
  <2> QED BY <2>2, <2>3, <2>4 DEF VpnInv
<1>2. VpnInv /\ [Next]_vars => VpnInv'
  BY TypeStep, OwnsStep, SpacedStep DEF VpnInv
<1> QED BY <1>1, <1>2, PTL DEF Spec

(* However intents and sessions interleave, no two tun2socks share a descriptor. *)
THEOREM NativeOwnsInterfaceHolds == Spec => []NativeOwnsInterface
<1>1. VpnInv => NativeOwnsInterface  BY DEF VpnInv
<1> QED BY <1>1, VpnInvariance, PTL

(* Intents that keep clear of setups never leave two tun2socks running. *)
THEOREM SpacedOneInstanceHolds == Spec => []SpacedOneInstance
<1>1. VpnInv => SpacedOneInstance  BY DEF VpnInv
<1> QED BY <1>1, VpnInvariance, PTL

(* Intents that keep clear of setups leave nothing behind after stopVPN. *)
THEOREM StopEffectiveHolds == Spec => []StopEffective
<1>1. VpnInv => StopEffective  BY DEF VpnInv
<1> QED BY <1>1, VpnInvariance, PTL
==============================================================================
