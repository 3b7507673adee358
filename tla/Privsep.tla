------------------------------ MODULE Privsep ------------------------------
(***************************************************************************)
(* The two halves of pimd and the socketpair between them (privsep.c): the *)
(* unprivileged child asks, one request at a time, and the parent answers  *)
(* with a result and at times a descriptor.  A message is Parts units      *)
(* long; a call of sendmsg() or recvmsg() moves one or more of them, since *)
(* a signal may cut it short and the socket may be full or hold no more.   *)
(*                                                                         *)
(* Of the kernel there are the sockets, by number, which last as long as a *)
(* process or a message holds a descriptor of them, and the multicast      *)
(* routing role that MRT_INIT gives to one of them (kern.c).               *)
(***************************************************************************)
EXTENDS Integers, Sequences, FiniteSets, FiniteSetsExt

CONSTANTS
    Parts,        \* units in a message
    Cap,          \* units one direction of the socketpair holds
    Ids,          \* request numbers 0..Ids-1, reused in turn
    ScanSizes,    \* replies with records that an interface scan may take
    Limit         \* ... of those the child accepts, PRIV_IFREC_LIMIT

ASSUME PrivsepConstants ==
    /\ Parts \in Nat \ {0} /\ Cap \in Nat \ {0} /\ Ids \in Nat \ {0}
    /\ ScanSizes \subseteq Nat /\ Limit \in Nat

None == 0                   \* no descriptor, -1
Kinds == {"igmp", "pim"}    \* two of enum priv_sock
Sockets == 1..10

VARIABLES
    child,     \* [st, op, id, off, buf, used]: the call it is in; st is "idle",
               \* "send", "recv", "zero" or "failed", the last two its exit status
    plan,      \* the calls still to make on its way through start or restart
    fds,       \* the descriptors it holds, by kind and "ipc"
    parent,    \* [st, out, off, buf, temp]: st is "recv", "send", "zero",
               \* "failed" or "killed", temp a descriptor it is sending
    pfd,       \* parent_fd
    up, down,  \* what is on its way to the parent and to the child
    mrouter,   \* the socket with the multicast routing role
    path,      \* the control socket's node is there
    next,      \* the next request number
    lost       \* history: the child has given up on a scan

vars == <<child, plan, fds, parent, pfd, up, down, mrouter, path, next, lost>>

----------------------------------------------------------------------------
(* Requests, messages and descriptors.                                      *)

Ask(op) == [op |-> op, kind |-> "igmp"]
Socket(k) == [op |-> "socket", kind |-> k]

\* init_igmp(), init_pim(), init_vifs(), ipc_init(), priv_pidfile()
Boot == <<Socket("igmp"), Socket("pim"), Ask("mrt_init"), Ask("ipc_socket"), Ask("pidfile")>>

\* restart(): k_stop_pim(), ipc_exit(), priv_socket_release()
Shut == <<Ask("mrt_done"), Ask("ipc_close"), Ask("release")>>

\* The calls a running daemon makes: a change of the kernel's tables, a scan
\* of the interfaces, and a file the parent opens.
Calls == {"mfc", "ifscan", "conf_open", "tempfile"}

\* Messages: a request, and a reply; more says that it has records of a scan.
Request(r, id) == [op |-> r.op, kind |-> r.kind, id |-> id, fd |-> None, rc |-> 0, more |-> FALSE]
Reply(m, fd, rc, more) == [m EXCEPT !.fd = fd, !.rc = rc, !.more = more]

\* A descriptor rides on the first unit.
Fragment(m, off, n) == [i \in 1..n |-> <<m, off + i>>]

Riding(s) == {s[i][1].fd : i \in {j \in DOMAIN s : s[j][2] = 1}}

\* The sockets some process or message has a descriptor of.
Open == ({fds[k] : k \in DOMAIN fds} \cup {pfd[k] : k \in Kinds} \cup {parent.temp}
           \cup Riding(down) \cup Riding(child.buf)) \ {None}

\* The kernel takes the role from a socket that is closed for good.
RoleOf(socket) == mrouter' = IF socket \in Open' THEN socket ELSE None
RoleKept == RoleOf(mrouter)

Fresh == Min(Sockets \ Open)

----------------------------------------------------------------------------
(* The child.                                                               *)

ChildLives == child.st \in {"idle", "send", "recv"}
ParentLives == parent.st \in {"recv", "send"}

Idle == [st |-> "idle", op |-> "none", id |-> 0, off |-> 0, buf |-> <<>>, used |-> 0]
Exited(st) == [Idle EXCEPT !.st = st]

\* The descriptors of a process that is gone are closed, what was sent to it
\* is not read any more.
ChildExits(st) ==
    /\ child' = Exited(st)
    /\ fds' = [k \in DOMAIN fds |-> None]
    /\ down' = <<>>
    /\ plan' = <<>>

\* A call of priv_*() begins.  What restart() closes itself is closed by then.
Begin(r) ==
    /\ child.st = "idle"
    /\ child' = [Idle EXCEPT !.st = "send", !.op = r.op, !.id = next]
    /\ next' = (next + 1) % Ids
    /\ fds' = [k \in DOMAIN fds |->
                  IF (r.op = "release" /\ k \in Kinds) \/ (r.op = "ipc_close" /\ k = "ipc")
                  THEN None ELSE fds[k]]

Call ==
    /\ plan # <<>>
    /\ Begin(Head(plan))
    /\ UNCHANGED <<plan, parent, pfd, up, down, path, lost>> /\ RoleKept

\* Something to do while it runs, with more to come after it.
Run ==
    /\ plan = <<>> /\ fds["igmp"] # None /\ child.st = "idle"
    /\ \/ \E c \in Calls : plan' = <<Ask(c)>>
       \/ plan' = Shut \o Boot
       \/ plan' = Shut
    /\ UNCHANGED <<child, fds, parent, pfd, up, down, mrouter, path, next, lost>>

\* priv_log(), between two calls.
Log ==
    /\ Begin(Ask("log"))
    /\ UNCHANGED <<plan, parent, pfd, up, down, mrouter, path, lost>>

\* After cleanup() the child exits.
Exit ==
    /\ child.st = "idle" /\ plan = <<>> /\ fds["igmp"] = None
    /\ ChildExits("zero")
    /\ UNCHANGED <<parent, pfd, up, path, next, lost>> /\ RoleKept

\* Mutant: a transfer cut short is taken for a whole one.
MsgSendRequestOnce ==
    /\ child.st = "send" /\ ParentLives
    /\ \E n \in 1..Min({Parts - child.off, Cap - Len(up)}) :
           /\ up' = up \o Fragment(Request(IF child.op = "socket" THEN Head(plan)
                                           ELSE Ask(child.op), child.id), child.off, n)
           /\ child' = IF child.op = "log" THEN Idle
                       ELSE [child EXCEPT !.st = "recv", !.off = 0]
    /\ UNCHANGED <<plan, fds, parent, pfd, down, mrouter, path, next, lost>>

\* msg_send() of the request
MsgSendRequest ==
    /\ child.st = "send" /\ ParentLives
    /\ \E n \in 1..Min({Parts - child.off, Cap - Len(up)}) :
           /\ up' = up \o Fragment(Request(IF child.op = "socket" THEN Head(plan)
                                           ELSE Ask(child.op), child.id), child.off, n)
           /\ child' = IF child.off + n < Parts THEN [child EXCEPT !.off = @ + n]
                       ELSE IF child.op = "log" THEN Idle
                       ELSE [child EXCEPT !.st = "recv", !.off = 0]
    /\ UNCHANGED <<plan, fds, parent, pfd, down, mrouter, path, next, lost>>

\* A struct read from the middle of another has an operation nobody knows.
Read(buf) == IF buf[1][2] = 1 THEN buf[1][1] ELSE [buf[1][1] EXCEPT !.op = "garbage"]

Rest(s, n) == SubSeq(s, n + 1, Len(s))

\* The call is over; a request of a plan is done with.
Done == child' = Idle /\ plan' = IF child.op = "log" THEN plan ELSE Tail(plan)

\* What a whole reply comes to in priv_call() and its caller, which exits where
\* it cannot do without; descriptors of files are closed again soon.
Answered(m) ==
    IF m.op # child.op \/ (m.rc < 0 /\ m.op \in {"socket", "mrt_init"})
    THEN ChildExits("failed")
    ELSE /\ Done
         /\ fds' = CASE m.op = "socket" -> [fds EXCEPT ![m.kind] = m.fd]
                     [] m.op = "ipc_socket" -> [fds EXCEPT !["ipc"] = m.fd]
                     [] OTHER -> fds

\* ... and in priv_getifaddrs(), which does not look at what it answers.
Scanned(m) ==
    /\ UNCHANGED fds
    /\ IF m.rc < 0 \/ ~m.more \/ child.used = Limit
       THEN Done
       ELSE child' = [child EXCEPT !.buf = <<>>, !.used = @ + 1] /\ UNCHANGED plan

\* msg_recv() of a reply
MsgRecvReply ==
    /\ child.st = "recv"
    /\ \E n \in 1..Min({Parts - Len(child.buf), Len(down)}) :
           LET buf == child.buf \o SubSeq(down, 1, n)
               m   == Read(buf)
           IN  IF Len(buf) < Parts
               THEN /\ child' = [child EXCEPT !.buf = buf]
                    /\ down' = Rest(down, n)
                    /\ UNCHANGED <<plan, fds, lost>>
               ELSE IF child.op = "ifscan"
               THEN /\ Scanned(m) /\ down' = Rest(down, n)
                    /\ lost' = (lost \/ (m.rc = 0 /\ m.more /\ child.used = Limit))
               ELSE /\ Answered(m) /\ UNCHANGED lost
                    /\ down' = IF child'.st = "failed" THEN <<>> ELSE Rest(down, n)
    /\ UNCHANGED <<parent, pfd, up, path, next>> /\ RoleKept

\* Mutant: the end of the file is taken for an interrupted call.
LosesParentSending == ~ParentLives /\ child.st = "send"

\* The parent is gone: priv_log() and priv_getifaddrs() fail, priv_call() exits.
LosesParent == ~ParentLives /\ (child.st = "send" \/ (child.st = "recv" /\ down = <<>>))

LoseParent ==
    /\ LosesParent
    /\ IF child.op \in {"log", "ifscan"} THEN Done /\ UNCHANGED <<fds, down>>
       ELSE ChildExits("failed") /\ down' = <<>>
    /\ UNCHANGED <<parent, pfd, up, path, next, lost>> /\ RoleKept

----------------------------------------------------------------------------
(* The parent.                                                              *)

Waiting == [st |-> "recv", out |-> <<>>, off |-> 0, buf |-> <<>>, temp |-> None]

Opens == {"socket", "conf_open", "tempfile", "ipc_socket"}

\* parent_ifscan(): replies with records, and one without to end it.
Scan(m, ok, k) ==
    IF ok THEN [i \in 1..(k + 1) |-> Reply(m, None, 0, i <= k)] ELSE <<Reply(m, None, -1, FALSE)>>

\* The result of an operation; one that opens something may fail.
Result(m, ok) ==
    CASE m.op \in Opens -> IF ok THEN 0 ELSE -1
      [] m.op = "mrt_init" -> IF mrouter = None THEN 0 ELSE -1
      [] m.op = "mfc" -> IF mrouter = pfd["igmp"] THEN 0 ELSE -1
      [] OTHER -> 0

\* Mutant: a socket of a kind that is there is handed out and not kept.
HandedOutOnce(m, fd) ==
    IF m.op = "socket" /\ fd # None /\ pfd[m.kind] = None THEN [pfd EXCEPT ![m.kind] = fd] ELSE pfd

\* parent_socket() keeps a copy of what it hands out, parent_release()
HandedOut(m, fd) ==
    CASE m.op = "socket" /\ fd # None -> [pfd EXCEPT ![m.kind] = fd]
      [] m.op = "release" -> [k \in Kinds |-> None]
      [] OTHER -> pfd

\* The switch of parent_loop()
Serve(m, ok, k) ==
    LET fd == IF m.op \in Opens /\ ok THEN Fresh ELSE None
        rc == Result(m, ok)
    IN  /\ pfd' = HandedOut(m, fd)
        /\ path' = CASE m.op = "ipc_socket" -> ok
                     [] m.op = "ipc_close" -> FALSE
                     [] OTHER -> path
        /\ parent' = IF m.op = "log" THEN Waiting
                     ELSE [Waiting EXCEPT
                             !.st = "send",
                             !.out = IF m.op = "ifscan" THEN Scan(m, ok, k)
                                     ELSE <<Reply(m, fd, rc, FALSE)>>,
                             !.temp = IF m.op = "socket" THEN None ELSE fd]
        /\ UNCHANGED <<child, plan, fds, down, next, lost>>
        /\ CASE m.op = "mrt_init" /\ rc = 0 -> RoleOf(pfd["igmp"])
             [] m.op = "mrt_done" /\ mrouter = pfd["igmp"] -> RoleOf(None)
             [] OTHER -> RoleKept

\* parent_cleanup() and exit(): a child that is still there is killed.
Cleanup ==
    /\ parent' = [Waiting EXCEPT !.st = IF child.st = "zero" THEN "zero" ELSE "failed"]
    /\ path' = FALSE
    /\ pfd' = [k \in Kinds |-> None] /\ up' = <<>>
    /\ IF ChildLives THEN ChildExits("failed") /\ down' = <<>> ELSE UNCHANGED <<child, plan, fds, down>>
    /\ UNCHANGED <<next, lost>> /\ RoleKept

\* msg_recv() of a request, and what comes of it.
MsgRecvRequest ==
    /\ parent.st = "recv"
    /\ \E n \in 1..Min({Parts - Len(parent.buf), Len(up)}) :
           LET buf == parent.buf \o SubSeq(up, 1, n)
           IN  IF Len(buf) < Parts
               THEN /\ parent' = [parent EXCEPT !.buf = buf]
                    /\ up' = Rest(up, n)
                    /\ UNCHANGED <<child, plan, fds, down, pfd, mrouter, path, next, lost>>
               ELSE IF Read(buf).op = "garbage" THEN Cleanup
               ELSE /\ up' = Rest(up, n)
                    /\ \E ok \in BOOLEAN, k \in ScanSizes : Serve(Read(buf), ok, k)

\* Mutant: what was opened only to be sent stays open.
MsgSendReplyKept ==
    /\ parent.st = "send" /\ ChildLives
    /\ \E n \in 1..Min({Parts - parent.off, Cap - Len(down)}) :
           /\ down' = down \o Fragment(Head(parent.out), parent.off, n)
           /\ parent' = IF parent.off + n < Parts THEN [parent EXCEPT !.off = @ + n]
                        ELSE IF Len(parent.out) > 1
                        THEN [parent EXCEPT !.off = 0, !.out = Tail(@)]
                        ELSE [Waiting EXCEPT !.temp = parent.temp]
    /\ UNCHANGED <<child, plan, fds, pfd, up, path, next, lost>> /\ RoleKept

\* msg_send() of a reply; what was opened only to be sent is closed after it.
MsgSendReply ==
    /\ parent.st = "send" /\ ChildLives
    /\ \E n \in 1..Min({Parts - parent.off, Cap - Len(down)}) :
           /\ down' = down \o Fragment(Head(parent.out), parent.off, n)
           /\ parent' = IF parent.off + n < Parts THEN [parent EXCEPT !.off = @ + n]
                        ELSE IF Len(parent.out) > 1
                        THEN [parent EXCEPT !.off = 0, !.out = Tail(@)]
                        ELSE Waiting
    /\ UNCHANGED <<child, plan, fds, pfd, up, path, next, lost>> /\ RoleKept

\* The child is gone: parent_loop() ends.
LosesChild == ~ChildLives /\ (parent.st = "send" \/ (parent.st = "recv" /\ up = <<>>))
LoseChild == LosesChild /\ Cleanup

----------------------------------------------------------------------------
(* Either is killed; the parent's death kills the child where the system   *)
(* offers that (PR_SET_PDEATHSIG).                                         *)

KillChild ==
    /\ ChildLives
    /\ ChildExits("failed") /\ down' = <<>>
    /\ UNCHANGED <<parent, pfd, up, path, next, lost>> /\ RoleKept

KillParent ==
    /\ ParentLives
    /\ parent' = [Waiting EXCEPT !.st = "killed"]
    /\ pfd' = [k \in Kinds |-> None] /\ up' = <<>>
    /\ UNCHANGED <<child, plan, fds, down, path, next, lost>> /\ RoleKept

Init ==
    /\ child = Idle /\ plan = Boot /\ fds = [k \in Kinds \cup {"ipc"} |-> None]
    /\ parent = Waiting /\ pfd = [k \in Kinds |-> None]
    /\ up = <<>> /\ down = <<>> /\ mrouter = None /\ path = FALSE
    /\ next = 0 /\ lost = FALSE

Next ==
    \/ Call \/ Run \/ Log \/ Exit \/ MsgSendRequest \/ MsgRecvReply \/ LoseParent
    \/ MsgRecvRequest \/ MsgSendReply \/ LoseChild
    \/ KillChild \/ KillParent

Spec == Init /\ [][Next]_vars

\* Neither half stops in the middle of a transfer that can go on.
Fairness ==
    /\ []<>~(child.st = "send" /\ ParentLives /\ Len(up) < Cap) \/ []<><<MsgSendRequest>>_vars
    /\ []<>~(child.st = "recv" /\ down # <<>>) \/ []<><<MsgRecvReply>>_vars
    /\ []<>~LosesParent \/ []<><<LoseParent>>_vars
    /\ []<>~(parent.st = "recv" /\ up # <<>>) \/ []<><<MsgRecvRequest>>_vars
    /\ []<>~(parent.st = "send" /\ ChildLives /\ Len(down) < Cap) \/ []<><<MsgSendReply>>_vars
    /\ []<>~LosesChild \/ []<><<LoseChild>>_vars

FairSpec == Spec /\ Fairness

----------------------------------------------------------------------------
(* Properties.                                                              *)

\* s is a sequence of messages, each whole but the last.
InOrder(s) ==
    \A i \in DOMAIN s :
        /\ s[i][2] = ((i - 1) % Parts) + 1
        /\ s[i][2] > 1 => s[i][1] = s[i - 1][1]

(* The halves never lose step, however signals cut the transfers up: what a *)
(* half reads is whole messages, and what the child reads answers what it   *)
(* has asked, unless it gave up on a scan with more records than it takes   *)
(* (privsep.c:169-302, 322-346).                                            *)
InStep ==
    \/ lost
    \/ /\ ParentLives => InOrder(parent.buf \o up)
       /\ InOrder(child.buf \o down)
       /\ child.st # "recv" => down = <<>>
       /\ \A i \in DOMAIN down : down[i][1].id = child.id /\ down[i][1].op = child.op

(* While the daemon runs, the multicast routing role is with the one socket *)
(* that both halves hold: the calls the parent makes on its copy act for    *)
(* the child, also after restarts (privsep.c:1047-1130, main.c:844).        *)
OneRole ==
    child.st = "idle" /\ plan = <<>> /\ fds["igmp"] # None /\ ParentLives
        => mrouter = fds["igmp"] /\ pfd["igmp"] = fds["igmp"]

(* Between two requests the parent holds no descriptor but the copies of    *)
(* the sockets it has handed out, one a kind, and the child none of a file  *)
(* (privsep.c:1427-1431, 1149-1159).                                        *)
NothingLeaks ==
    parent.st = "recv" /\ child.st = "idle" /\ ~lost
        => Open = ({fds[k] : k \in DOMAIN fds} \cup {pfd[k] : k \in Kinds}) \ {None}

(* Every call ends, with an answer or without the parent; and when the      *)
(* child is gone the parent goes, with its verdict, and takes the control   *)
(* socket's node with it (privsep.c:1440-1480).                             *)
NobodyWaits ==
    /\ child.st \in {"send", "recv"} ~> (child.st \notin {"send", "recv"} \/ lost)
    /\ ~ChildLives ~> (parent.st = "killed" \/ (parent.st = child.st /\ ~path))
=============================================================================
