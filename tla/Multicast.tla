------------------------------- MODULE Multicast -------------------------------
(***************************************************************************)
(* Groups and multicast messages: skynet_group.c, skynet_multicast.c and   *)
(* the services multicast and localcast.                                   *)
(*                                                                         *)
(* A group is a context of the service multicast, which gets commands and  *)
(* messages by its mailbox, keeps the commands in two arrays and combines  *)
(* them with its sorted list of members before it casts.  A message that   *)
(* is cast is shared by its receivers and counted.  Payloads and message   *)
(* types are left out; so are remote handles, which are refused.           *)
(***************************************************************************)
EXTENDS Common, Sequences, FiniteSets, TLC

CONSTANTS
    Member,         \* handles of the services that join groups, positive integers
    GroupId,
    CastMessage,    \* the messages that are cast
    MaxInst         \* bound: how many contexts of multicast are created

MulticastAssumption ==
    /\ Member \subseteq Nat \ {0} /\ IsFiniteSet(Member)
    /\ "none" \notin CastMessage /\ MaxInst \in Nat

VARIABLES
    alive,          \* the members in the handle storage
    mbox,           \* their mailboxes
    node,           \* _G: the context of a group, 0 if there is none
    made,           \* how many contexts of multicast there are
    inbox,          \* the mailboxes of the casting services
    enterQueue, leaveQueue, data,   \* struct skynet_multicast_group
    mc,             \* struct skynet_multicast_message
    casting,        \* the cast a service is in the middle of
    castFault       \* a counter has been used after its message was freed

multicastVars == <<alive, mbox, node, made, inbox, enterQueue, leaveQueue, data,
                   mc, casting, castFault>>
groupVars == <<enterQueue, leaveQueue, data>>

localcast == 0                      \* the context of the service localcast
Inst      == 1 .. MaxInst
Caster    == {localcast} \cup Inst
NoCast    == [m |-> "none", todo |-> <<>>, release |-> 0]

MulticastInit ==
    /\ alive = Member
    /\ mbox = [h \in Member |-> <<>>]
    /\ node = [g \in GroupId |-> 0]
    /\ made = 0
    /\ inbox = [c \in Caster |-> <<>>]
    /\ enterQueue = [i \in Inst |-> <<>>]
    /\ leaveQueue = [i \in Inst |-> <<>>]
    /\ data = [i \in Inst |-> <<>>]
    /\ mc = [m \in CastMessage |-> [st |-> "none", ref |-> 0]]
    /\ casting = [c \in Caster |-> NoCast]
    /\ castFault = FALSE

-----------------------------------------------------------------------------
(* skynet_group.c: what the GROUP command of a service does, under _G's    *)
(* lock.                                                                   *)

(* The context of group g, created if there is none.                       *)
GroupOf(g) == IF node[g] # 0 THEN node[g] ELSE made + 1
Created(g) ==
    /\ GroupOf(g) \in Inst
    /\ node' = [node EXCEPT ![g] = GroupOf(g)]
    /\ made' = IF node[g] # 0 THEN made ELSE made + 1

SendCommand(i, cmd) == inbox' = [inbox EXCEPT ![i] = Append(@, cmd)]

(* skynet_group_query *)
GroupQuery == \E g \in GroupId :
    /\ Use("query")
    /\ Created(g)
    /\ UNCHANGED <<alive, mbox, inbox, groupVars, mc, casting, castFault>>

(* skynet_group_enter *)
GroupEnter == \E g \in GroupId, h \in Member :
    /\ Use("enter")
    /\ Created(g)
    /\ SendCommand(GroupOf(g), [cmd |-> "E", arg |-> h])
    /\ UNCHANGED <<alive, mbox, groupVars, mc, casting, castFault>>

(* skynet_group_leave *)
GroupLeave == \E g \in GroupId, h \in Member :
    /\ node[g] # 0 /\ Use("leave")
    /\ SendCommand(node[g], [cmd |-> "L", arg |-> h])
    /\ UNCHANGED <<alive, mbox, node, made, groupVars, mc, casting, castFault>>

(* skynet_group_clear: the group is forgotten; its context stays, because  *)
(* _maincb refuses a "C" that comes without a handle.                      *)
GroupClear == \E g \in GroupId :
    /\ node[g] # 0 /\ Use("clear")
    /\ SendCommand(node[g], [cmd |-> "C", arg |-> 0])
    /\ node' = [node EXCEPT ![g] = 0]
    /\ UNCHANGED <<alive, mbox, made, groupVars, mc, casting, castFault>>

(* _group_command *)
ServiceGroupCommand == GroupEnter \/ GroupLeave \/ GroupQuery \/ GroupClear

(* A service sends a message to the address of a group it has queried.     *)
SendToGroup == \E i \in 1 .. made, m \in CastMessage :
    /\ mc[m].st = "none" /\ Use("cast")
    /\ mc' = [mc EXCEPT ![m] = [st |-> "sent", ref |-> 0]]
    /\ SendCommand(i, [cmd |-> "cast", arg |-> m])
    /\ UNCHANGED <<alive, mbox, node, made, groupVars, casting, castFault>>

(* skynet.cast: _pack_message copies the list of receivers, and the        *)
(* message goes to the service localcast.                                  *)
SendLocalcast == \E m \in CastMessage, to \in UNION {[1 .. n -> Member] : n \in 0 .. 2} :
    /\ mc[m].st = "none" /\ Use("localcast")
    /\ mc' = [mc EXCEPT ![m] = [st |-> "sent", ref |-> 0]]
    /\ SendCommand(localcast, [cmd |-> "local", arg |-> m, group |-> to])
    /\ UNCHANGED <<alive, mbox, node, made, groupVars, casting, castFault>>

-----------------------------------------------------------------------------
(* combine_queue.                                                          *)

(* qsort: the entries of s in ascending order.  compar_uint is the order  *)
(* of the numbers, since handles of one harbor differ by less than 2^24.   *)
Sorts(p, s) ==
    /\ \A k \in 1 .. Len(s) : \E i \in 1 .. Len(s) : p[i] = k
    /\ \A i, j \in 1 .. Len(s) : i < j => s[p[i]] <= s[p[j]]

Ascending(s) ==
    LET p == CHOOSE p \in [1 .. Len(s) -> 1 .. Len(s)] : Sorts(p, s)
    IN  [i \in 1 .. Len(s) |-> s[p[i]]]

(* Mutant: an entry that comes twice is taken twice.                       *)
CombineEnterTwice(e, d) ==
    LET from[r \in (0 .. Len(e)) \X (0 .. Len(d)) \X (Member \cup {0})] ==
          LET i == r[1]
              j == r[2]
          IN  IF i = 0 THEN SubSeq(d, 1, j)
              ELSE IF j = 0 THEN Append(from[<<i - 1, 0, e[i]>>], e[i])
              ELSE IF e[i] = d[j] THEN from[<<i - 1, j, e[i]>>]
              ELSE IF e[i] > d[j] THEN Append(from[<<i - 1, j, e[i]>>], e[i])
              ELSE Append(from[<<i, j - 1, 0>>], d[j])
    IN  from[<<Len(e), Len(d), 0>>]

(* The sorted enter queue e is merged into the members d from the top: in  *)
(* r are the entries of both still to do, and the one just taken.          *)
CombineEnter(e, d) ==
    LET from[r \in (0 .. Len(e)) \X (0 .. Len(d)) \X (Member \cup {0})] ==
          LET i == r[1]
              j == r[2]
          IN  IF i = 0 THEN SubSeq(d, 1, j)
              ELSE IF e[i] = r[3] THEN from[<<i - 1, j, r[3]>>]
              ELSE IF j = 0 THEN Append(from[<<i - 1, 0, e[i]>>], e[i])
              ELSE IF e[i] = d[j] THEN from[<<i - 1, j, e[i]>>]
              ELSE IF e[i] > d[j] THEN Append(from[<<i - 1, j, e[i]>>], e[i])
              ELSE Append(from[<<i, j - 1, 0>>], d[j])
    IN  from[<<Len(e), Len(d), 0>>]

(* The sorted leave queue l is taken out of the members d from below: in r *)
(* are the next of both; what is left of d when l ends stays, what is left *)
(* of l is not a member.                                                   *)
CombineLeave(l, d) ==
    LET from[r \in (1 .. Len(l) + 1) \X (1 .. Len(d) + 1)] ==
          LET i == r[1]
              k == r[2]
          IN  IF i > Len(l) THEN SubSeq(d, k, Len(d))
              ELSE IF k > Len(d) THEN <<>>
              ELSE IF l[i] = d[k] THEN from[<<i + 1, k + 1>>]
              ELSE IF l[i] > d[k] THEN <<d[k]>> \o from[<<i, k + 1>>]
              ELSE from[<<i + 1, k>>]
    IN  from[<<1, 1>>]

Combined(i) ==
    CombineLeave(Ascending(leaveQueue[i]), CombineEnter(Ascending(enterQueue[i]), data[i]))

-----------------------------------------------------------------------------
(* Casting.                                                                *)

(* skynet_multicast_copy and the end of skynet_multicast_dispatch: n is    *)
(* added to the count, and whoever makes it 0 frees the message.           *)
Copy(m, n) ==
    /\ mc' = [mc EXCEPT ![m] = [st  |-> IF mc[m].ref + n = 0 THEN "freed" ELSE "live",
                                ref |-> mc[m].ref + n]]
    /\ castFault' = (castFault \/ mc[m].st = "freed")

Idle(c) == casting[c] = NoCast
Received(c) == inbox' = [inbox EXCEPT ![c] = Tail(@)]

(* push_array: the array grows as needed.                                  *)
PushArray(a, v) == Append(a, v)

(* _maincb of service_multicast.c: a command.                              *)
GroupCommand(i) ==
    /\ Idle(i) /\ inbox[i] # <<>> /\ Head(inbox[i]).cmd \in {"E", "L", "C"}
    /\ Received(i)
    /\ LET c == Head(inbox[i]) IN
       /\ enterQueue' = IF c.cmd = "E" THEN [enterQueue EXCEPT ![i] = PushArray(@, c.arg)] ELSE enterQueue
       /\ leaveQueue' = IF c.cmd = "L" THEN [leaveQueue EXCEPT ![i] = PushArray(@, c.arg)] ELSE leaveQueue
    /\ UNCHANGED <<alive, mbox, node, made, data, mc, casting, castFault>>

(* _maincb: a message; skynet_multicast_castgroup up to its loop.          *)
CastGroup(i) ==
    /\ Idle(i) /\ inbox[i] # <<>> /\ Head(inbox[i]).cmd = "cast"
    /\ Received(i)
    /\ data' = [data EXCEPT ![i] = Combined(i)]
    /\ enterQueue' = [enterQueue EXCEPT ![i] = <<>>]
    /\ leaveQueue' = [leaveQueue EXCEPT ![i] = <<>>]
    /\ LET m == Head(inbox[i]).arg IN
       /\ casting' = [casting EXCEPT ![i] = [m |-> m, todo |-> Combined(i), release |-> 0]]
       /\ mc' = [mc EXCEPT ![m] = [st |-> "live", ref |-> Len(Combined(i))]]
    /\ UNCHANGED <<alive, mbox, node, made, castFault>>

(* _maincb of service_localcast.c: skynet_multicast_cast up to its loop;   *)
(* without receivers the message is freed at once.                         *)
CastLocal ==
    /\ Idle(localcast) /\ inbox[localcast] # <<>>
    /\ Received(localcast)
    /\ LET c == Head(inbox[localcast]) IN
       /\ Copy(c.arg, Len(c.group))
       /\ casting' = [casting EXCEPT ![localcast] =
                        IF c.group = <<>> THEN NoCast
                        ELSE [m |-> c.arg, todo |-> c.group, release |-> 0]]
    /\ UNCHANGED <<alive, mbox, node, made, groupVars>>

(* One round of either loop: the receiver is grabbed and sent to, or it is *)
(* gone, and leaves the group.                                             *)
CastNext(c) ==
    /\ casting[c].todo # <<>>
    /\ LET p == Head(casting[c].todo) IN
       IF p \in alive
       THEN /\ mbox' = [mbox EXCEPT ![p] = Append(@, casting[c].m)]
            /\ casting' = [casting EXCEPT ![c].todo = Tail(@)]
            /\ UNCHANGED leaveQueue
       ELSE /\ casting' = [casting EXCEPT ![c].todo = Tail(@), ![c].release = @ + 1]
            /\ leaveQueue' = IF c = localcast THEN leaveQueue
                             ELSE [leaveQueue EXCEPT ![c] = PushArray(@, p)]
            /\ UNCHANGED mbox
    /\ UNCHANGED <<left, alive, node, made, inbox, enterQueue, data, mc, castFault>>

(* Mutant: the copies for the receivers that are gone stay counted.        *)
CastEndKeeps(c) ==
    /\ ~Idle(c) /\ casting[c].todo = <<>>
    /\ casting' = [casting EXCEPT ![c] = NoCast]
    /\ UNCHANGED <<mc, castFault>>
    /\ UNCHANGED <<left, alive, mbox, node, made, inbox, groupVars>>

(* The count is corrected at the end, by castgroup also if there is        *)
(* nothing to correct: by then the receivers may have freed the message.   *)
CastEnd(c) ==
    /\ ~Idle(c) /\ casting[c].todo = <<>>
    /\ IF c # localcast \/ casting[c].release # 0
       THEN Copy(casting[c].m, -casting[c].release)
       ELSE UNCHANGED <<mc, castFault>>
    /\ casting' = [casting EXCEPT ![c] = NoCast]
    /\ UNCHANGED <<left, alive, mbox, node, made, inbox, groupVars>>

-----------------------------------------------------------------------------
(* The receivers.                                                          *)

(* skynet_multicast_dispatch, by a worker with the callback _mc or, for a  *)
(* service that is gone, by _drop_queue without one.                       *)
Receive(h) ==
    /\ mbox[h] # <<>>
    /\ Copy(Head(mbox[h]), -1)
    /\ mbox' = [mbox EXCEPT ![h] = Tail(@)]
    /\ UNCHANGED <<left, alive, node, made, inbox, groupVars, casting>>

MemberDies == \E h \in alive :
    /\ Use("die")
    /\ alive' = alive \ {h}
    /\ UNCHANGED <<mbox, node, made, inbox, groupVars, mc, casting, castFault>>

MulticastNext ==
    \/ ServiceGroupCommand \/ SendToGroup \/ SendLocalcast \/ MemberDies
    \/ \E i \in Inst : (GroupCommand(i) \/ CastGroup(i)) /\ UNCHANGED left
    \/ CastLocal /\ UNCHANGED left
    \/ \E c \in Caster : CastNext(c) \/ CastEnd(c)
    \/ \E h \in Member : Receive(h)

-----------------------------------------------------------------------------
(* The copies of m in mailboxes.                                           *)
Copies(m) ==
    UNION {{<<h, i>> : i \in {j \in 1 .. Len(mbox[h]) : mbox[h][j] = m}} : h \in Member}

(* The copies that the service that casts m will still send or take back.  *)
CopiesDue(m) ==
    IF \E c \in Caster : casting[c].m = m
    THEN LET c == CHOOSE c \in Caster : casting[c].m = m
         IN  Len(casting[c].todo) + casting[c].release
    ELSE 0

(* The count of a message that is cast is what is still to be released:    *)
(* it is freed with its last copy, neither earlier, by receivers that are  *)
(* faster than the sender, nor never, for those that died meanwhile.       *)
CopiesCounted ==
    \A m \in CastMessage :
        /\ mc[m].st = "live" => mc[m].ref = Cardinality(Copies(m)) + CopiesDue(m)
        /\ mc[m].st = "freed" => Copies(m) = {} /\ CopiesDue(m) = 0
        /\ mc[m].st = "live" /\ mc[m].ref = 0 => \E c \in Inst : casting[c].m = m

Elements(s) == {s[i] : i \in 1 .. Len(s)}

(* combine_queue makes of members, enter and leave queue the sorted list   *)
(* of those who were in or entered and did not leave, each of them once.   *)
MembersCombined ==
    \A i \in Inst : casting[i] = NoCast /\ casting'[i] # NoCast =>
        /\ Elements(data'[i]) = (Elements(data[i]) \cup Elements(enterQueue[i]))
                                  \ Elements(leaveQueue[i])
        /\ \A j, k \in 1 .. Len(data'[i]) : j < k => data'[i][j] < data'[i][k]

GroupCombined == [][MembersCombined]_multicastVars

(* The inductive invariant of these.  The types:                           *)
Commands ==
    [cmd : {"E", "L"}, arg : Member] \cup [cmd : {"C"}, arg : {0}]
        \cup [cmd : {"cast"}, arg : CastMessage]
        \cup [cmd : {"local"}, arg : CastMessage, group : Seq(Member)]

Rising(s) == \A j, k \in 1 .. Len(s) : j < k => s[j] < s[k]

MulticastTypeOK ==
    /\ alive \subseteq Member /\ mbox \in [Member -> Seq(CastMessage)]
    /\ node \in [GroupId -> 0 .. MaxInst] /\ made \in 0 .. MaxInst
    /\ inbox \in [Caster -> Seq(Commands)]
    /\ \A c \in Caster : \A k \in 1 .. Len(inbox[c]) : inbox[c][k].cmd = "local" <=> c = localcast
    /\ enterQueue \in [Inst -> Seq(Member)] /\ leaveQueue \in [Inst -> Seq(Member)]
    /\ data \in [Inst -> Seq(Member)] /\ \A i \in Inst : Rising(data[i])
    /\ mc \in [CastMessage -> [st : {"none", "sent", "live", "freed"}, ref : Int]]
    /\ casting \in [Caster -> [m : CastMessage \cup {"none"}, todo : Seq(Member), release : Nat]]

(* The message m is the k-th in the mailbox of c, a casting service.       *)
Asked(c, k, m) == inbox[c][k].cmd \in {"cast", "local"} /\ inbox[c][k].arg = m

(* A message is cast once: before, it is in one mailbox and nowhere else.  *)
CastOnce ==
    \A m \in CastMessage :
        /\ \A c, d \in Caster : \A k \in 1 .. Len(inbox[c]) : \A l \in 1 .. Len(inbox[d]) :
               Asked(c, k, m) /\ Asked(d, l, m) => c = d /\ k = l
        /\ \A c \in Caster : \A k \in 1 .. Len(inbox[c]) : Asked(c, k, m) => mc[m].st = "sent"
        /\ \A c, d \in Caster : casting[c].m = m /\ casting[d].m = m => c = d
        /\ mc[m].st \in {"none", "sent"} =>
               Copies(m) = {} /\ mc[m].ref = 0 /\ \A c \in Caster : casting[c].m # m
        /\ mc[m].st = "freed" => mc[m].ref = 0

AtRest == \A c \in Caster : casting[c].m = "none" => casting[c] = NoCast

MulticastInv == MulticastTypeOK /\ CastOnce /\ AtRest /\ CopiesCounted
=============================================================================
