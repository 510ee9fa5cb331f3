------------------------------ MODULE Listener ------------------------------
(***************************************************************************)
(* A listening TcpSocketBase and the clients that connect to it: what the  *)
(* SYN and the SYN+ACK settle (window scale, SACK, timestamps, ECN), and   *)
(* whether one client's SYN leaves something behind for the next one.      *)
(*                                                                         *)
(* A SYN is read by the listening socket itself, into its own fields; then *)
(* ProcessListen copies the socket, and an event of the same instant makes *)
(* the copy answer.  Other SYNs may come in between.  Two of one client    *)
(* are seconds apart, and never do.                                        *)
(*                                                                         *)
(* Segments are lost, reordered and sent again.  Connections stay open;    *)
(* buffers are empty, so that windows are all there is to know of them.    *)
(* A fork that gives up is forgotten, and a SYN of its client that is      *)
(* still on its way makes another one: the field round, which the code     *)
(* does not have, tells with which of them a client is connected.          *)
(***************************************************************************)
EXTENDS Naturals, SequencesExt

CONSTANTS
    Clients,           \* sockets that connect, each once
    ClientSettings,    \* how the application of a client may have set it up
    ListenerSettings,  \* how that of the server may have
    SynRetries,        \* m_synRetries
    MaxWinSize,        \* m_maxWinSize, what the header's field can hold
    MaxInNet           \* bound: segments between a client and the server

Options == {"WINSCALE", "SACKPERMITTED", "TS"}
MaxShift == 14

Setting == [enabled : SUBSET Options,                 \* WindowScaling, Sack, Timestamp
            space : Nat,                              \* RcvBufSize
            useEcn : {"Off", "On", "AcceptOnly"}]     \* UseEcn

ASSUME SettingAssumption ==
    ClientSettings \subseteq Setting /\ ListenerSettings \subseteq Setting
ASSUME RetryAssumption ==
    SynRetries \in Nat \ {0} /\ MaxWinSize \in Nat \ {0} /\ MaxInNet \in Nat

VARIABLES
    listener,  \* the listening socket
    forks,     \* its copies, by client
    forking,   \* the scheduled calls of CompleteFork
    clients,   \* the sockets that connect
    net        \* segments on their way

vars == <<listener, forks, forking, clients, net>>

Segment == [type : {"SYN", "SYN+ACK", "ACK", "RST"}, client : Clients,
            opts : SUBSET Options, scale : 0 .. MaxShift, win : 0 .. MaxWinSize,
            ecn : BOOLEAN,  \* ECE and CWR in a SYN, ECE in a SYN+ACK
            round : Nat]

Socket == [state : {"CLOSED", "LISTEN", "SYN_SENT", "SYN_RCVD", "ESTABLISHED"},
           enabled : SUBSET Options,     \* m_winScalingEnabled, m_sackEnabled, ...
           sndWindShift : 0 .. MaxShift, \* m_sndWindShift
           rcvWindShift : 0 .. MaxShift, \* m_rcvWindShift
           rWnd : Nat,                   \* m_rWnd
           space : Nat,                  \* m_rxBuffer->MaxBufferSize ()
           useEcn : {"Off", "On", "AcceptOnly"},
           ecn : BOOLEAN,                \* m_ecnState is not ECN_DISABLED
           synCount : 0 .. SynRetries,   \* m_synCount
           round : Nat]                  \* the number of the fork, or of the client's

TypeOK ==
    /\ listener \in Socket /\ listener.state = "LISTEN"
    /\ DOMAIN forks \subseteq Clients
    /\ \A c \in DOMAIN forks :
          forks[c] \in Socket /\ forks[c].state \in {"LISTEN", "SYN_RCVD", "ESTABLISHED"}
    /\ \A i \in DOMAIN forking : forks[forking[i].client].state = "LISTEN"
    /\ clients \in [Clients -> Socket]
    /\ net \subseteq Segment

-----------------------------------------------------------------------------
(***************************************************************************)
(* Methods                                                                 *)
(***************************************************************************)
NewSocket(setting, state) ==
    [state |-> state, enabled |-> setting.enabled, sndWindShift |-> 0,
     rcvWindShift |-> 0, rWnd |-> 0, space |-> setting.space,
     useEcn |-> setting.useEcn, ecn |-> FALSE, synCount |-> SynRetries, round |-> 0]

CalculateWScale(space) ==
    Min({k \in 0 .. MaxShift : k = MaxShift \/ space \div 2 ^ k <= MaxWinSize})

\* The shift is applied whether window scaling was agreed on or not.
AdvertisedWindowSize(s, shift) == Min({s.space \div 2 ^ shift, MaxWinSize})

\* DoForwardUp for a SYN or SYN+ACK, in any state: what either end lacks is switched
\* off; the shift of an earlier SYN stays if this one has none.
ReceiveSyn(s, seg) ==
    LET both == s.enabled \cap seg.opts
    IN  [s EXCEPT !.rWnd = seg.win,
                  !.enabled = both,
                  !.sndWindShift = IF "WINSCALE" \in both THEN seg.scale ELSE @]

\* Mutant: the retries have no end.
AfterSynForever(s) ==
    IF "WINSCALE" \in s.enabled
    THEN [s EXCEPT !.rcvWindShift = CalculateWScale(s.space), !.synCount = @ - 1]
    ELSE [s EXCEPT !.synCount = @ - 1]

\* SendEmptyPacket with SYN: the socket, and what it sends, if it does not give up.
AfterSyn(s) ==
    LET t == IF "WINSCALE" \in s.enabled
             THEN [s EXCEPT !.rcvWindShift = CalculateWScale(s.space)]
             ELSE s
    IN  IF s.synCount = 0
        THEN [t EXCEPT !.state = "CLOSED"]
        ELSE [t EXCEPT !.synCount = @ - 1]

SynSegment(c, s, type, ecn) ==
    IF s.synCount = 0
    THEN {}
    ELSE {[type |-> type, client |-> c, opts |-> s.enabled,
           scale |-> IF "WINSCALE" \in s.enabled THEN CalculateWScale(s.space) ELSE 0,
           win |-> AdvertisedWindowSize(s, 0), ecn |-> ecn, round |-> s.round]}

\* Any other segment with an ACK, data included.
AckSegment(c, s) ==
    [type |-> "ACK", client |-> c, opts |-> s.enabled \cap {"TS"}, scale |-> 0,
     win |-> AdvertisedWindowSize(s, s.rcvWindShift), ecn |-> FALSE, round |-> 0]

Heard(s, seg) == "TS" \in s.enabled => "TS" \in seg.opts

\* UpdateWindowSize; nothing that is acknowledged or received is new, but for the first
\* ACK after the handshake's, which offers the same window as that one.
UpdateWindowSize(s, seg) ==
    LET window == seg.win * 2 ^ s.sndWindShift
    IN  IF s.state = "ESTABLISHED"
        THEN [s EXCEPT !.rWnd = Max({@, window})]
        ELSE [s EXCEPT !.rWnd = window]

-----------------------------------------------------------------------------
(***************************************************************************)
(* The clients                                                             *)
(***************************************************************************)
Init ==
    /\ \E setting \in ListenerSettings : listener = NewSocket(setting, "LISTEN")
    /\ \E settings \in [Clients -> ClientSettings] :
          clients = [c \in Clients |-> NewSocket(settings[c], "CLOSED")]
    /\ forks = << >> /\ forking = << >> /\ net = {}

\* The segments in used leave the network, those in sent enter it.
Exchange(used, sent) ==
    /\ net' = (net \ used) \cup sent
    /\ \A c \in Clients : Cardinality({seg \in net' : seg.client = c}) <= MaxInNet

SendSyn(c) ==
    LET s == [clients[c] EXCEPT !.state = "SYN_SENT"]
    IN  /\ clients' = [clients EXCEPT ![c] = AfterSyn(s)]
        /\ Exchange({}, SynSegment(c, s, "SYN", s.useEcn = "On"))
        /\ UNCHANGED <<listener, forks, forking>>

\* DoConnect
Connect(c) ==
    /\ clients[c].state = "CLOSED" /\ clients[c].synCount = SynRetries
    /\ SendSyn(c)

SynTimeout(c) == clients[c].state = "SYN_SENT" /\ SendSyn(c)

\* The SYN+ACK in ProcessSynSent; an established socket reads its options, too.
ReceiveSynAck(c) ==
    \E seg \in net :
        /\ seg.type = "SYN+ACK" /\ seg.client = c
        /\ LET s == ReceiveSyn(clients[c], seg)
               t == [s EXCEPT !.state = "ESTABLISHED", !.round = seg.round,
                              !.ecn = s.useEcn # "Off" /\ seg.ecn]
           IN  \/ /\ s.state = "SYN_SENT"
                  /\ clients' = [clients EXCEPT ![c] = t]
                  /\ Exchange({seg}, {AckSegment(c, t)})
               \/ /\ s.state = "ESTABLISHED"
                  /\ clients' = [clients EXCEPT ![c] = s]
                  /\ Exchange({seg}, {})
        /\ UNCHANGED <<listener, forks, forking>>

\* A client that has given up: TcpL4Protocol answers.
Refuse(c) ==
    /\ clients[c].state = "CLOSED"
    /\ \E seg \in net :
          /\ seg.type = "SYN+ACK" /\ seg.client = c
          /\ Exchange({seg}, {[type |-> "RST", client |-> c, opts |-> {}, scale |-> 0,
                               win |-> 0, ecn |-> FALSE, round |-> 0]})
    /\ UNCHANGED <<listener, forks, forking, clients>>

\* Data, or anything else that an established client sends.
ClientSends(c) ==
    /\ clients[c].state = "ESTABLISHED"
    /\ Exchange({}, {AckSegment(c, clients[c])})
    /\ UNCHANGED <<listener, forks, forking, clients>>

-----------------------------------------------------------------------------
(***************************************************************************)
(* The server                                                              *)
(***************************************************************************)
\* The copies that have an endpoint of their own; the listener gets all else.
Forked == {c \in DOMAIN forks : forks[c].state # "LISTEN"}

\* The fork of c is s, or gone.
BecomesFork(c, s) ==
    forks' = IF s.state = "CLOSED" THEN [d \in DOMAIN forks \ {c} |-> forks[d]]
                                   ELSE [forks EXCEPT ![c] = s]

\* The copy has all that is modelled of the listener, and a number of its own.
Fork(s) == [s EXCEPT !.round = @ + 1]

\* DoForwardUp and ProcessListen: the application accepts the client or does not.
ReceiveSynListening(c) ==
    /\ c \notin DOMAIN forks
    /\ \E seg \in net :
          /\ seg.type = "SYN" /\ seg.client = c
          /\ LET s == ReceiveSyn(listener, seg)
                 t == Fork(s)
             IN  \/ /\ listener' = t
                    /\ forks' = [d \in DOMAIN forks \cup {c} |->
                                   IF d = c THEN t ELSE forks[d]]
                    /\ forking' = Append(forking, [client |-> c, ecn |-> seg.ecn])
                 \/ /\ listener' = s
                    /\ UNCHANGED <<forks, forking>>
          /\ Exchange({seg}, {})
    /\ UNCHANGED clients

\* Mutant: the copy is made when the scheduled call comes.
CompleteForkLate ==
    /\ forking # << >>
    /\ LET c   == Head(forking).client
           ecn == listener.useEcn # "Off" /\ Head(forking).ecn
           s   == [listener EXCEPT !.state = "SYN_RCVD", !.synCount = SynRetries,
                                   !.ecn = ecn]
       IN  /\ forks' = [forks EXCEPT ![c] = AfterSyn(s)]
           /\ Exchange({}, SynSegment(c, s, "SYN+ACK", ecn))
    /\ forking' = Tail(forking)
    /\ UNCHANGED <<listener, clients>>

CompleteFork ==
    /\ forking # << >>
    /\ LET c   == Head(forking).client
           ecn == forks[c].useEcn # "Off" /\ Head(forking).ecn
           s   == [forks[c] EXCEPT !.state = "SYN_RCVD", !.synCount = SynRetries,
                                   !.ecn = ecn]
       IN  /\ forks' = [forks EXCEPT ![c] = AfterSyn(s)]
           /\ Exchange({}, SynSegment(c, s, "SYN+ACK", ecn))
    /\ forking' = Tail(forking)
    /\ UNCHANGED <<listener, clients>>

\* m_retxEvent sends the SYN+ACK again as it was.
SynAckTimeout(c) ==
    /\ c \in Forked /\ forks[c].state = "SYN_RCVD"
    /\ BecomesFork(c, AfterSyn(forks[c]))
    /\ Exchange({}, SynSegment(c, forks[c], "SYN+ACK", forks[c].ecn))
    /\ UNCHANGED <<listener, forking, clients>>

\* Mutant: a SYN+ACK that is sent again for a SYN does not speak of ECN.
ReceiveSynForkedPlain(c) ==
    /\ c \in Forked
    /\ \E seg \in net :
          /\ seg.type = "SYN" /\ seg.client = c
          /\ LET s == ReceiveSyn(forks[c], seg)
             IN  \/ /\ s.state = "SYN_RCVD"
                    /\ BecomesFork(c, AfterSyn(s))
                    /\ Exchange({seg}, SynSegment(c, s, "SYN+ACK", FALSE))
                 \/ /\ s.state = "ESTABLISHED"
                    /\ BecomesFork(c, s)
                    /\ Exchange({seg}, {})
    /\ UNCHANGED <<listener, forking, clients>>

\* A SYN once more: ProcessSynRcvd, or ProcessEstablished, which ignores it.
ReceiveSynForked(c) ==
    /\ c \in Forked
    /\ \E seg \in net :
          /\ seg.type = "SYN" /\ seg.client = c
          /\ LET ecn == forks[c].useEcn # "Off" /\ seg.ecn
                 s   == ReceiveSyn(forks[c], seg)
                 t   == [s EXCEPT !.ecn = ecn]
             IN  \/ /\ s.state = "SYN_RCVD"
                    /\ BecomesFork(c, AfterSyn(t))
                    /\ Exchange({seg}, SynSegment(c, t, "SYN+ACK", ecn))
                 \/ /\ s.state = "ESTABLISHED"
                    /\ BecomesFork(c, s)
                    /\ Exchange({seg}, {})
    /\ UNCHANGED <<listener, forking, clients>>

\* An ACK completes the handshake, unless it lacks the timestamp that was agreed on.
ReceiveAckForked(c) ==
    /\ c \in Forked
    /\ \E seg \in net :
          /\ seg.type = "ACK" /\ seg.client = c
          /\ LET s == UpdateWindowSize(forks[c], seg)
             IN  IF Heard(forks[c], seg)
                 THEN BecomesFork(c, [s EXCEPT !.state = "ESTABLISHED"])
                 ELSE UNCHANGED forks
          /\ Exchange({seg}, {})
    /\ UNCHANGED <<listener, forking, clients>>

\* ProcessListen ignores what is no SYN, DoForwardUp does not.
ReceiveAckListening(c) ==
    /\ c \notin Forked
    /\ \E seg \in net :
          /\ seg.type = "ACK" /\ seg.client = c
          /\ listener' = IF Heard(listener, seg) THEN UpdateWindowSize(listener, seg)
                                                 ELSE listener
          /\ Exchange({seg}, {})
    /\ UNCHANGED <<forks, forking, clients>>

ReceiveRst(c) ==
    /\ \E seg \in net :
          /\ seg.type = "RST" /\ seg.client = c
          /\ Exchange({seg}, {})
    /\ IF c \in Forked
       THEN BecomesFork(c, [forks[c] EXCEPT !.state = "CLOSED"])
       ELSE UNCHANGED forks
    /\ UNCHANGED <<listener, forking, clients>>

Lose ==
    /\ \E seg \in net : Exchange({seg}, {})
    /\ UNCHANGED <<listener, forks, forking, clients>>

Next ==
    \/ \E c \in Clients :
          \/ Connect(c) \/ SynTimeout(c) \/ ReceiveSynAck(c) \/ Refuse(c) \/ ClientSends(c)
          \/ ReceiveSynListening(c) \/ ReceiveSynForked(c) \/ SynAckTimeout(c)
          \/ ReceiveAckForked(c) \/ ReceiveAckListening(c) \/ ReceiveRst(c)
    \/ CompleteFork
    \/ Lose

Spec == Init /\ [][Next]_vars

-----------------------------------------------------------------------------
(***************************************************************************)
(* Properties                                                              *)
(***************************************************************************)
\* Clients whose connection is with the fork that lives.
Connected ==
    {c \in Forked : clients[c].state = "ESTABLISHED" /\ clients[c].round = forks[c].round}

\* The two ends of a connection have the same options switched on: neither expects
\* timestamps (1360), scales windows or sends SACK blocks that the other one does not
\* know of, whatever other clients did to the listener's flags (1317-1344) and however
\* often SYN and SYN+ACK were sent.  Where they scale, each shifts by what the other
\* one announced and not by what another client announced to the listener, and so
\* takes no window for larger than the other one's buffer.  (A client that does not
\* scale may be believed too much, after one that does: 4181.)
OptionsAgreed ==
    \A c \in Connected :
       /\ clients[c].enabled = forks[c].enabled
       /\ "WINSCALE" \in forks[c].enabled =>
             /\ forks[c].sndWindShift = clients[c].rcvWindShift
             /\ clients[c].sndWindShift = forks[c].rcvWindShift
             /\ clients[c].rWnd <= forks[c].space /\ forks[c].rWnd <= clients[c].space

\* Either both ends of a connection use ECN or none does (2836, 2187, 2267).
EcnAgreed ==
    \A c \in Connected :
       forks[c].state = "ESTABLISHED" => clients[c].ecn = forks[c].ecn
=============================================================================
