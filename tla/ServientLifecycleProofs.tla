---------------------- MODULE ServientLifecycleProofs ----------------------
(***************************************************************************)
(* Proofs about ServientLifecycle, for any set of servers.                 *)
(***************************************************************************)
EXTENDS ServientLifecycle, FiniteSetTheorems, TLAPS

(* _servers is keyed by protocol.                                          *)
OneServerPerProtocol ==
  \A s, q \in servers : ProtocolOf[s] = ProtocolOf[q] => s = q

(* What every state satisfies, however the servient is used.               *)
AnyInv ==
  /\ LifecycleTypeOK
  /\ pending \subseteq servers
  /\ phase = "idle" => pending = {}
  /\ OneServerPerProtocol

(* A start visits every server it began with, unless servers are added or  *)
(* removed under it.                                                       *)
RunningInv ==
  /\ AnyInv
  /\ phase = "starting" /\ last # "disturbed" => servers \ pending \subseteq listening
  /\ RunningMeansStarted

(* A server is not started while it is listening.                          *)
Orderly == ~RestartWhileUp

(* Then a socket is always reached by the handle of its server, and what a *)
(* shutdown has visited is silent.                                         *)
OrderlyInv ==
  /\ AnyInv
  /\ \A s \in listening : handle[s] = "bound"
  /\ phase = "starting" => pending \cap listening = {}
  /\ phase = "stopping" /\ last # "disturbed" => (servers \ pending) \cap listening = {}
  /\ ShutdownSilences

-----------------------------------------------------------------------------
(* The empty servient.                                                     *)
LEMMA LifecycleInitInv == LifecycleInit => AnyInv /\ RunningInv /\ OrderlyInv
BY ServersAssumption, FS_EmptySet
   DEF LifecycleInit, AnyInv, RunningInv, OrderlyInv, LifecycleTypeOK,
       OneServerPerProtocol, RunningMeansStarted, ShutdownSilences

(* Every step, under any use of the servient.                              *)
LEMMA AnyStep == AnyInv /\ [LifecycleNext]_lifecycleVars => AnyInv'
<1> SUFFICES ASSUME AnyInv, [LifecycleNext]_lifecycleVars PROVE AnyInv'
  OBVIOUS
<1> USE ServersAssumption, FS_EmptySet
    DEF AnyInv, LifecycleTypeOK, OneServerPerProtocol, lifecycleVars,
        iterationVars, socketVars
<1>1. ASSUME NEW s \in Servers, AddServer(s) PROVE AnyInv'
  BY <1>1 DEF AddServer, StoppedServientOnly, SameProtocol, Edited
<1>2. ASSUME NEW s \in Servers, RemoveServer(s) PROVE AnyInv'
  BY <1>2 DEF RemoveServer, StoppedServientOnly, Edited
<1>3. ASSUME NEW s \in Servers, StartServer(s) PROVE AnyInv'
  BY <1>3 DEF StartServer, Visit, SizeUnchanged, Listen
<1>4. ASSUME NEW s \in Servers, StartServerFails(s) PROVE AnyInv'
  BY <1>4 DEF StartServerFails, Listen, Visit, SizeUnchanged, End
<1>5. ASSUME NEW s \in Servers, StopServer(s) PROVE AnyInv'
  BY <1>5 DEF StopServer, Visit, SizeUnchanged, StopListening
<1>6. ASSUME NEW s \in Servers, StopServerFails(s) PROVE AnyInv'
  BY <1>6 DEF StopServerFails, Visit, SizeUnchanged, End
<1>7. CASE IterationBreaks
  BY <1>7 DEF IterationBreaks, SizeUnchanged, End
<1>8. CASE EndStart
  BY <1>8 DEF EndStart, SizeUnchanged, End, Completed
<1>9. CASE CatalogueFails
  BY <1>9 DEF CatalogueFails, SizeUnchanged, End
<1>10. CASE BeginShutdown
  BY <1>10 DEF BeginShutdown, Begin
<1>11. CASE EndShutdown
  BY <1>11 DEF EndShutdown, SizeUnchanged, End, Completed
<1>12. CASE BeginStart
  BY <1>12 DEF BeginStart, Begin
<1>13. CASE UNCHANGED lifecycleVars
  BY <1>13
<1> QED
  BY <1>1, <1>2, <1>3, <1>4, <1>5, <1>6, <1>7, <1>8, <1>9, <1>10, <1>11,
     <1>12, <1>13
     DEF LifecycleNext, LifecycleStep

(* Every step, whatever fails.                                             *)
LEMMA RunningStep == RunningInv /\ [LifecycleNext]_lifecycleVars => RunningInv'
<1> SUFFICES ASSUME RunningInv, [LifecycleNext]_lifecycleVars PROVE RunningInv'
  OBVIOUS
<1> USE ServersAssumption, FS_EmptySet
    DEF RunningInv, AnyInv, LifecycleTypeOK,
        OneServerPerProtocol, RunningMeansStarted, lifecycleVars, iterationVars, socketVars
<1>1. ASSUME NEW s \in Servers, AddServer(s) PROVE RunningInv'
  BY <1>1 DEF AddServer, StoppedServientOnly, SameProtocol, Edited
<1>2. ASSUME NEW s \in Servers, RemoveServer(s) PROVE RunningInv'
  BY <1>2 DEF RemoveServer, StoppedServientOnly, Edited
<1>3. ASSUME NEW s \in Servers, StartServer(s) PROVE RunningInv'
  BY <1>3 DEF StartServer, Visit, SizeUnchanged, Listen
<1>4. ASSUME NEW s \in Servers, StartServerFails(s) PROVE RunningInv'
  BY <1>4 DEF StartServerFails, Listen, Visit, SizeUnchanged, End
<1>5. ASSUME NEW s \in Servers, StopServer(s) PROVE RunningInv'
  BY <1>5 DEF StopServer, Visit, SizeUnchanged, StopListening
<1>6. ASSUME NEW s \in Servers, StopServerFails(s) PROVE RunningInv'
  BY <1>6 DEF StopServerFails, Visit, SizeUnchanged, End
<1>7. CASE IterationBreaks
  BY <1>7 DEF IterationBreaks, SizeUnchanged, End
<1>8. CASE EndStart
  BY <1>8 DEF EndStart, SizeUnchanged, End, Completed
<1>9. CASE CatalogueFails
  BY <1>9 DEF CatalogueFails, SizeUnchanged, End
<1>10. CASE BeginShutdown
  BY <1>10 DEF BeginShutdown, Begin
<1>11. CASE EndShutdown
  BY <1>11 DEF EndShutdown, SizeUnchanged, End, Completed
<1>12. CASE BeginStart
  BY <1>12 DEF BeginStart, Begin
<1>13. CASE UNCHANGED lifecycleVars
  BY <1>13
<1> QED
  BY <1>1, <1>2, <1>3, <1>4, <1>5, <1>6, <1>7, <1>8, <1>9, <1>10, <1>11,
     <1>12, <1>13
     DEF LifecycleNext, LifecycleStep

(* Every step, when no server is started while it is listening.            *)
LEMMA OrderlyStep == Orderly /\ OrderlyInv /\ [LifecycleNext]_lifecycleVars => OrderlyInv'
<1> SUFFICES ASSUME Orderly, OrderlyInv, [LifecycleNext]_lifecycleVars PROVE OrderlyInv'
  OBVIOUS
<1> USE ServersAssumption, FS_EmptySet
    DEF Orderly, OrderlyInv, AnyInv, LifecycleTypeOK,
        OneServerPerProtocol, ShutdownSilences, lifecycleVars,
        iterationVars, socketVars
<1>1. ASSUME NEW s \in Servers, AddServer(s) PROVE OrderlyInv'
  BY <1>1 DEF AddServer, StoppedServientOnly, SameProtocol, Edited
<1>2. ASSUME NEW s \in Servers, RemoveServer(s) PROVE OrderlyInv'
  BY <1>2 DEF RemoveServer, StoppedServientOnly, Edited
<1>3. ASSUME NEW s \in Servers, StartServer(s) PROVE OrderlyInv'
  BY <1>3 DEF StartServer, Visit, SizeUnchanged, Listen
<1>4. ASSUME NEW s \in Servers, StartServerFails(s) PROVE OrderlyInv'
  BY <1>4 DEF StartServerFails, Listen, Visit, SizeUnchanged, End
<1>5. ASSUME NEW s \in Servers, StopServer(s) PROVE OrderlyInv'
  BY <1>5 DEF StopServer, Visit, SizeUnchanged, StopListening
<1>6. ASSUME NEW s \in Servers, StopServerFails(s) PROVE OrderlyInv'
  BY <1>6 DEF StopServerFails, Visit, SizeUnchanged, End
<1>7. CASE IterationBreaks
  BY <1>7 DEF IterationBreaks, SizeUnchanged, End
<1>8. CASE EndStart
  BY <1>8 DEF EndStart, SizeUnchanged, End, Completed
<1>9. CASE CatalogueFails
  BY <1>9 DEF CatalogueFails, SizeUnchanged, End
<1>10. CASE BeginShutdown
  BY <1>10 DEF BeginShutdown, Begin
<1>11. CASE EndShutdown
  BY <1>11 DEF EndShutdown, SizeUnchanged, End, Completed
<1>12. CASE BeginStart
  BY <1>12 DEF BeginStart, Begin
<1>13. CASE UNCHANGED lifecycleVars
  BY <1>13
<1> QED
  BY <1>1, <1>2, <1>3, <1>4, <1>5, <1>6, <1>7, <1>8, <1>9, <1>10, <1>11,
     <1>12, <1>13
     DEF LifecycleNext, LifecycleStep

-----------------------------------------------------------------------------
(* is_running tells the truth about the attached servers, whatever starts  *)
(* and stops have failed and whenever servers are edited, for a servient   *)
(* whose servers were left alone under its start and none of whose stops   *)
(* has raised since.                                                       *)
THEOREM RunningMeansStartedTheorem == LifecycleSpec => []RunningMeansStarted
<1>1. LifecycleInit => RunningInv
  BY LifecycleInitInv
<1>2. RunningInv /\ [LifecycleNext]_lifecycleVars => RunningInv'
  BY RunningStep
<1>3. RunningInv => RunningMeansStarted
  BY DEF RunningInv
<1> QED
  BY <1>1, <1>2, <1>3, PTL DEF LifecycleSpec

(* A shutdown that returns, and during which servers were left alone, has  *)
(* silenced every attached server, provided a server is never started      *)
(* while it is listening.                                                  *)
THEOREM ShutdownSilencesTheorem ==
  ASSUME Orderly
  PROVE  LifecycleSpec => []ShutdownSilences
<1>1. LifecycleInit => OrderlyInv
  BY LifecycleInitInv
<1>2. OrderlyInv /\ [LifecycleNext]_lifecycleVars => OrderlyInv'
  BY OrderlyStep
<1>3. OrderlyInv => ShutdownSilences
  BY DEF OrderlyInv
<1> QED
  BY <1>1, <1>2, <1>3, PTL DEF LifecycleSpec
=============================================================================
