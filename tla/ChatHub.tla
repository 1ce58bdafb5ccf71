------------------------------ MODULE ChatHub ------------------------------
(***************************************************************************)
(* What happens when a message is committed: it is sent to the sockets of  *)
(* the thread (ChatHub, in memory of the one process), those who are not   *)
(* connected get a notice, and then a push to their browsers.              *)
(***************************************************************************)
EXTENDS FiniteSets

CONSTANTS Members,    \* participants of the thread
          Outsiders,  \* those of them who are not staff
          Notes,      \* messages (bound)
          Workers,    \* requests being served at once
          Devices,    \* browsers with a push endpoint
          Absent      \* no user, no message

ASSUME ChatHubAssumption ==
  Outsiders \subseteq Members /\ Absent \notin Members /\ Absent \notin Notes

VARIABLES note,    \* messages: author, committed
          socket,  \* the hub's connection of a member and whether it is alive
          device,  \* push_subscriptions: who owns the endpoint
          work,    \* requests after the insert of their message
          heardOf  \* history: who was sent the message, noticed, pushed; whose socket was
                   \* dead at the broadcast, who joined after it
hubVars == <<note, socket, device, work, heardOf>>

Waiting == [op |-> "none", note |-> Absent, to |-> {}]
Untold == [heard |-> {}, noticed |-> {}, pushed |-> {}, late |-> {}, dead |-> {}, done |-> FALSE]

InitHub ==
  /\ note = [m \in Notes |-> [author |-> Absent, kept |-> FALSE]]
  /\ socket = [u \in Members |-> "off"]
  /\ device = [d \in Devices |-> Absent]
  /\ work = [w \in Workers |-> Waiting]
  /\ heardOf = [m \in Notes |-> Untold]

PostNote(w, u, m) ==
  /\ work[w] = Waiting /\ note[m].author = Absent
  /\ note' = [note EXCEPT ![m].author = u]
  /\ work' = [work EXCEPT ![w] = [Waiting EXCEPT !.op = "posting", !.note = m]]
  /\ UNCHANGED <<socket, device, heardOf>>
NoteKept(w) ==
  /\ work[w].op = "posting"
  /\ note' = [note EXCEPT ![work[w].note].kept = TRUE]
  /\ work' = [work EXCEPT ![w].op = "kept"]
  /\ UNCHANGED <<socket, device, heardOf>>
\* A file, the storage or the mark breaks the transaction.
NoteLost(w) ==
  /\ work[w].op = "posting"
  /\ work' = [work EXCEPT ![w] = Waiting]
  /\ UNCHANGED <<note, socket, device, heardOf>>

InRoom == {u \in Members : socket[u] # "off"}
Alive == {u \in Members : socket[u] = "on"}
Broadcast(w) ==
  /\ work[w].op = "kept"
  /\ heardOf' = [heardOf EXCEPT ![work[w].note].heard = Alive, ![work[w].note].dead = InRoom \ Alive]
  /\ work' = [work EXCEPT ![w].op = "sent", ![w].to = InRoom]
  /\ UNCHANGED <<note, socket, device>>

NoticesForStaff(author, online) == Members \ ({author} \cup online \cup Outsiders)  \* mutant
\* The room is read again.
NoticesFor(author, online) == Members \ ({author} \cup online)
NotifyOffline(w) ==
  /\ work[w].op = "sent"
  /\ LET m == work[w].note IN
     LET to == NoticesFor(note[m].author, InRoom) IN
     /\ heardOf' = [heardOf EXCEPT ![m].noticed = to, ![m].late = InRoom \ work[w].to]
     /\ work' = [work EXCEPT ![w].op = "pushing", ![w].to = to]
  /\ UNCHANGED <<note, socket, device>>

\* A notice the database refuses is caught, and what was loaded is expired with the
\* rollback: the next look at a member breaks the request, before any push.
NoticesBreak(w) ==
  /\ work[w].op = "sent"
  /\ work' = [work EXCEPT ![w] = Waiting]
  /\ UNCHANGED <<note, socket, device, heardOf>>

\* The push service takes the message, or says that some endpoints are gone.
PushTo(w, u, gone) ==
  /\ work[w].op = "pushing" /\ u \in work[w].to
  /\ gone \subseteq {d \in Devices : device[d] = u}
  /\ heardOf' = [heardOf EXCEPT ![work[w].note].pushed =
                @ \cup {v \in {u} : \E d \in Devices \ gone : device[d] = u}]
  /\ device' = [d \in Devices |-> IF d \in gone THEN Absent ELSE device[d]]
  /\ work' = [work EXCEPT ![w].to = @ \ {u}]
  /\ UNCHANGED <<note, socket>>
PublishEnds(w) ==
  /\ work[w].op = "pushing" /\ work[w].to = {}
  /\ heardOf' = [heardOf EXCEPT ![work[w].note].done = TRUE]
  /\ work' = [work EXCEPT ![w] = Waiting]
  /\ UNCHANGED <<note, socket, device>>

(* Sockets, endpoints, a restart of the process *)
Join(u) ==
  socket[u] = "off" /\ socket' = [socket EXCEPT ![u] = "on"] /\ UNCHANGED <<note, device, work, heardOf>>
SocketDies(u) ==
  socket[u] = "on" /\ socket' = [socket EXCEPT ![u] = "dead"] /\ UNCHANGED <<note, device, work, heardOf>>
LeaveRoom(u) ==
  socket[u] # "off" /\ socket' = [socket EXCEPT ![u] = "off"] /\ UNCHANGED <<note, device, work, heardOf>>
PushSubscribe(d, u) ==
  device[d] # u /\ device' = [device EXCEPT ![d] = u] /\ UNCHANGED <<note, socket, work, heardOf>>
PushUnsubscribe(d) ==
  device[d] # Absent /\ device' = [device EXCEPT ![d] = Absent] /\ UNCHANGED <<note, socket, work, heardOf>>
Restart ==
  /\ \E w \in Workers : work[w] # Waiting
  /\ work' = [w \in Workers |-> Waiting] /\ socket' = [u \in Members |-> "off"]
  /\ UNCHANGED <<note, device, heardOf>>

NextHub ==
  \/ \E w \in Workers, u \in Members, m \in Notes : PostNote(w, u, m)
  \/ \E w \in Workers : \/ NoteKept(w) \/ NoteLost(w) \/ Broadcast(w)
                        \/ NotifyOffline(w) \/ NoticesBreak(w) \/ PublishEnds(w)
  \/ \E w \in Workers, u \in Members, gone \in SUBSET Devices : PushTo(w, u, gone)
  \/ \E u \in Members : Join(u) \/ SocketDies(u) \/ LeaveRoom(u)
  \/ \E d \in Devices, u \in Members : PushSubscribe(d, u)
  \/ \E d \in Devices : PushUnsubscribe(d)
  \/ Restart

SpecHub == InitHub /\ [][NextHub]_hubVars

-----------------------------------------------------------------------------
(* Nobody hears of a message that is not in the history: sockets, notices  *)
(* and pushes speak of committed messages only, whatever was rolled back   *)
(* or cut short by a restart (_publish).                                   *)
HeardIsStored ==
  \A m \in Notes : heardOf[m].heard \cup heardOf[m].noticed \cup heardOf[m].pushed # {} => note[m].kept

(* Nobody is left out: when a message has been published, every other      *)
(* participant was sent it over a live socket or got a notice, except one  *)
(* whose socket was dead and one who joined between the broadcast and the  *)
(* notices (_notify_offline reads the room a second time).                 *)
NobodyIsLeftOut ==
  \A m \in Notes : heardOf[m].done =>
     Members \ {note[m].author} \subseteq
       heardOf[m].heard \cup heardOf[m].noticed \cup heardOf[m].late \cup heardOf[m].dead
=============================================================================
