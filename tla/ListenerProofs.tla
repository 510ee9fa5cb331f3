--------------------------- MODULE ListenerProofs ---------------------------
(***************************************************************************)
(* Theorems about Listener, for any number of clients, however they and    *)
(* the listener are set up, and however many segments are on their way.    *)
(*                                                                         *)
(* What a listener has switched on shrinks with every SYN it reads, so     *)
(* that a later copy agrees to no more than an earlier one; a client that  *)
(* hears from both agrees with the one that lives.  For that the invariant *)
(* remembers what each client offered when it was set up.                  *)
(***************************************************************************)
EXTENDS Listener, SequenceTheorems, Arithmetic

\* ECN is used when the listener accepts it and the client asks for it.
Wanted(c) == listener.useEcn # "Off" /\ clients[c].useEcn = "On"

\* The client c, which offered opts.
ClientFits(c, k, opts) ==
    /\ k.state \in {"CLOSED", "SYN_SENT", "ESTABLISHED"} /\ k.round <= listener.round
    /\ k.state # "ESTABLISHED" => k.enabled = opts
    /\ k.state # "CLOSED" /\ "WINSCALE" \in opts
          => k.rcvWindShift = CalculateWScale(k.space)
    /\ k.state = "ESTABLISHED" =>
          /\ k.enabled \subseteq opts
          /\ "WINSCALE" \in k.enabled =>
                k.sndWindShift = CalculateWScale(listener.space) /\ k.rWnd <= listener.space
          /\ k.ecn = Wanted(c)
          /\ c \in DOMAIN forks /\ forks[c].round = k.round => k.enabled = forks[c].enabled

\* The fork of c has agreed to no less than a copy would that is made now.
ForkFits(c, f, opts) ==
    /\ f.state \in {"LISTEN", "SYN_RCVD", "ESTABLISHED"} /\ f.round <= listener.round
    /\ f.space = listener.space /\ f.useEcn = listener.useEcn
    /\ f.enabled \subseteq opts /\ listener.enabled \cap opts \subseteq f.enabled
    /\ "WINSCALE" \in f.enabled =>
          f.sndWindShift = CalculateWScale(clients[c].space) /\ f.rWnd <= clients[c].space
    /\ f.state # "LISTEN" =>
          /\ f.ecn = Wanted(c)
          /\ "WINSCALE" \in f.enabled => f.rcvWindShift = CalculateWScale(f.space)

SynFits(seg, opts) ==
    /\ seg.opts = opts /\ seg.win <= clients[seg.client].space
    /\ "WINSCALE" \in opts => seg.scale = CalculateWScale(clients[seg.client].space)
    /\ seg.ecn = (clients[seg.client].useEcn = "On")

\* A SYN+ACK of an earlier fork speaks of no less than one of the fork that lives.
SynAckFits(seg, opts) ==
    /\ seg.opts \subseteq opts /\ listener.enabled \cap opts \subseteq seg.opts
    /\ seg.round <= listener.round /\ seg.win <= listener.space
    /\ "WINSCALE" \in seg.opts => seg.scale = CalculateWScale(listener.space)
    /\ seg.ecn = Wanted(seg.client)
    /\ seg.client \in DOMAIN forks =>
          /\ forks[seg.client].enabled \subseteq seg.opts
          /\ seg.round = forks[seg.client].round => seg.opts = forks[seg.client].enabled

AckFits(seg, opts) ==
    LET space == clients[seg.client].space
    IN  "WINSCALE" \in opts => seg.win * 2 ^ CalculateWScale(space) <= space

SegmentFits(seg, opts) ==
    /\ seg.type = "SYN" => SynFits(seg, opts)
    /\ seg.type = "SYN+ACK" => SynAckFits(seg, opts)
    /\ seg.type = "ACK" => AckFits(seg, opts)

\* Every client is copied at most once at a time.
ForkingFits ==
    /\ forking \in Seq([client : Clients, ecn : BOOLEAN])
    /\ \A i \in DOMAIN forking :
          LET c == forking[i].client
          IN  /\ c \in DOMAIN forks /\ forks[c].state = "LISTEN"
              /\ forking[i].ecn = (clients[c].useEcn = "On")
    /\ \A i, j \in DOMAIN forking : i # j => forking[i].client # forking[j].client

\* The sockets and segments, when offered is what the clients had switched on.
Fits(offered) ==
    /\ listener \in Socket /\ listener.state = "LISTEN"
    /\ DOMAIN forks \subseteq Clients /\ forks \in [DOMAIN forks -> Socket]
    /\ clients \in [Clients -> Socket] /\ net \subseteq Segment
    /\ ForkingFits
    /\ \A c \in Clients : ClientFits(c, clients[c], offered[c])
    /\ \A c \in DOMAIN forks : ForkFits(c, forks[c], offered[c])
    /\ \A seg \in net : SegmentFits(seg, offered[seg.client])

IInv == \E offered \in [Clients -> SUBSET Options] : Fits(offered)

-----------------------------------------------------------------------------
(***************************************************************************)
(* Window scales                                                           *)
(***************************************************************************)
LEMMA LeastOfSet ==
  ASSUME NEW S, S \subseteq Nat, S # {}
  PROVE  Min(S) \in S /\ \A n \in S : Min(S) <= n
<1>1. \E n \in S : \A m \in S : n <= m
  BY Least
<1> QED  BY <1>1 DEF Min

LEMMA Shifts ==
  \A space \in Nat : CalculateWScale(space) \in 0 .. MaxShift
<1> SUFFICES ASSUME NEW space \in Nat PROVE CalculateWScale(space) \in 0 .. MaxShift
  OBVIOUS
<1> DEFINE S == {k \in 0 .. MaxShift : k = MaxShift \/ space \div 2 ^ k <= MaxWinSize}
<1>1. CalculateWScale(space) = Min(S)
  BY DEF CalculateWScale
<1>2. S \subseteq Nat /\ S # {} /\ S \subseteq 0 .. MaxShift
  <2>1. MaxShift \in 0 .. MaxShift /\ 0 .. MaxShift \subseteq Nat
    BY DEF MaxShift
  <2>2. MaxShift \in S
    BY <2>1, Zenon
  <2> QED  BY <2>1, <2>2
<1> HIDE DEF S
<1> QED  BY <1>1, <1>2, LeastOfSet

\* A window that is announced with a shift, and shifted back, is not larger than the buffer.
LEMMA Windows ==
  ASSUME NEW s, s.space \in Nat, NEW k \in 0 .. MaxShift
  PROVE  LET win == AdvertisedWindowSize(s, k)
         IN  win \in 0 .. MaxWinSize /\ win * 2 ^ k <= s.space /\ win <= s.space
<1> DEFINE space == s.space
           f == 2 ^ k
           q == space \div f
           win == AdvertisedWindowSize(s, k)
<1>1. f \in Nat \ {0} /\ space \in Nat
  <2>1. k \in 0 .. 14
    BY DEF MaxShift
  <2>2. f \in Nat /\ 1 <= f
    BY <2>1, WindowScales
  <2> HIDE DEF f
  <2> QED  BY <2>2
<1>2. win = Min({q, MaxWinSize})
  BY DEF AdvertisedWindowSize
<1> HIDE DEF f, win, space
<1>3. q \in Nat /\ q * f <= space
  BY <1>1, Quotient
<1>4. MaxWinSize \in Nat
  BY RetryAssumption
<1> HIDE DEF q
<1>5. win \in Nat /\ win <= q /\ win <= MaxWinSize
  <2>1. {q, MaxWinSize} \subseteq Nat /\ {q, MaxWinSize} # {}
    BY <1>3, <1>4
  <2> QED  BY <1>2, <2>1, <1>3, <1>4, LeastOfSet
<1>6. win * f <= q * f /\ win <= win * f
  <2>1. \A a, b \in Nat, c \in Nat \ {0} : a <= b => a * c <= b * c /\ a <= a * c
    OBVIOUS
  <2> QED  BY <1>1, <1>3, <1>5, <2>1
<1>7. win * f \in Nat /\ q * f \in Nat
  <2>1. \A a, b \in Nat : a * b \in Nat
    OBVIOUS
  <2> QED  BY <1>1, <1>3, <1>5, <2>1
<1>8. \A a, b, c, d \in Nat : a <= b /\ b <= c /\ d <= a => a <= c /\ d <= c
  OBVIOUS
<1>9. win * f <= space /\ win <= space
  BY <1>1, <1>3, <1>5, <1>6, <1>7, <1>8
<1> QED  BY <1>4, <1>5, <1>9 DEF win, f, space

LEMMA UnshiftedWindow ==
  ASSUME NEW s, s.space \in Nat
  PROVE  LET win == AdvertisedWindowSize(s, 0)
         IN  win \in 0 .. MaxWinSize /\ win <= s.space
<1> DEFINE k == 0
<1>1. k \in 0 .. MaxShift
  BY DEF MaxShift
<1> HIDE DEF k
<1>2. LET win == AdvertisedWindowSize(s, k)
      IN  win \in 0 .. MaxWinSize /\ win <= s.space
  BY <1>1, Windows
<1> QED  BY <1>2 DEF k

-----------------------------------------------------------------------------
(***************************************************************************)
(* What a step does not touch                                              *)
(***************************************************************************)
\* What a step may do to what has been agreed on: the listener offers less, a fork ends,
\* or the listener makes one that has agreed to what is still offered.
Kept(offered) ==
    /\ listener'.space = listener.space /\ listener'.useEcn = listener.useEcn
    /\ listener'.enabled \subseteq listener.enabled
    /\ listener'.round \in Nat /\ listener.round <= listener'.round
    /\ \A c \in Clients : /\ clients'[c].space = clients[c].space
                          /\ clients'[c].useEcn = clients[c].useEcn
    /\ DOMAIN forks' \subseteq Clients
    /\ \A c \in DOMAIN forks' :
          \/ /\ c \in DOMAIN forks
             /\ forks'[c].enabled = forks[c].enabled /\ forks'[c].round = forks[c].round
          \/ /\ forks'[c].round = listener.round + 1
             /\ forks'[c].enabled = listener'.enabled \cap offered[c]

LEMMA Types ==
  ASSUME NEW offered, Fits(offered)
  PROVE  /\ listener \in Socket /\ listener.round \in Nat /\ listener.space \in Nat
         /\ \A c \in Clients : clients[c] \in Socket /\ clients[c].round \in Nat
         /\ \A c \in DOMAIN forks : c \in Clients /\ forks[c] \in Socket
         /\ \A seg \in net : seg \in Segment /\ seg.client \in Clients /\ seg.round \in Nat
<1>1. /\ listener \in Socket /\ \A c \in Clients : clients[c] \in Socket
      /\ \A c \in DOMAIN forks : c \in Clients /\ forks[c] \in Socket
      /\ \A seg \in net : seg \in Segment
  BY DEF Fits
<1>2. \A s \in Socket : s.round \in Nat /\ s.space \in Nat
  BY DEF Socket
<1>3. \A seg \in Segment : seg.client \in Clients /\ seg.round \in Nat
  BY DEF Segment
<1> QED  BY <1>1, <1>2, <1>3

LEMMA SegmentKept ==
  ASSUME NEW offered, Fits(offered), Kept(offered), NEW seg \in Segment,
         SegmentFits(seg, offered[seg.client])
  PROVE  SegmentFits(seg, offered[seg.client])'
<1> DEFINE c == seg.client
           opts == offered[c]
<1>1. c \in Clients /\ SegmentFits(seg, opts) /\ seg.round \in Nat /\ listener.round \in Nat
  BY Types DEF Segment
<1>2. /\ clients'[c].space = clients[c].space /\ clients'[c].useEcn = clients[c].useEcn
      /\ listener'.space = listener.space /\ listener'.enabled \subseteq listener.enabled
      /\ Wanted(c)' = Wanted(c)
  BY <1>1 DEF Kept, Wanted
<1> HIDE DEF c, opts
<1>3. seg.type = "SYN" => SynFits(seg, opts)'
  BY <1>1, <1>2 DEF SegmentFits, SynFits, c
<1>4. seg.type = "ACK" => AckFits(seg, opts)'
  BY <1>1, <1>2 DEF SegmentFits, AckFits, c
<1>5. ASSUME seg.type = "SYN+ACK" PROVE SynAckFits(seg, opts)'
  <2>1. SynAckFits(seg, opts)
    BY <1>1, <1>5 DEF SegmentFits
  <2>2. seg.round <= listener'.round
    BY <1>1, <2>1 DEF Kept, SynAckFits
  <2>3. ASSUME c \in DOMAIN forks'
        PROVE  /\ forks'[c].enabled \subseteq seg.opts
               /\ seg.round = forks'[c].round => seg.opts = forks'[c].enabled
    <3>1. CASE /\ c \in DOMAIN forks
               /\ forks'[c].enabled = forks[c].enabled /\ forks'[c].round = forks[c].round
      BY <2>1, <3>1 DEF SynAckFits, c
    <3>2. CASE /\ forks'[c].round = listener.round + 1
               /\ forks'[c].enabled = listener'.enabled \cap opts
      <4>1. seg.round # forks'[c].round
        BY <1>1, <2>1, <3>2 DEF SynAckFits
      <4>2. forks'[c].enabled \subseteq seg.opts
        BY <1>2, <2>1, <3>2 DEF SynAckFits
      <4> QED  BY <4>1, <4>2
    <3> QED  BY <2>3, <3>1, <3>2 DEF Kept, opts
  <2> QED  BY <1>2, <2>1, <2>2, <2>3 DEF SynAckFits, c
<1> QED  BY <1>3, <1>4, <1>5 DEF SegmentFits, c, opts

LEMMA ClientKept ==
  ASSUME NEW offered, Fits(offered), Kept(offered), NEW c \in Clients, NEW k, k.round \in Nat,
         ClientFits(c, k, offered[c])
  PROVE  ClientFits(c, k, offered[c])'
<1> DEFINE opts == offered[c]
<1>1. listener.round \in Nat /\ k.round <= listener.round
  BY Types DEF ClientFits
<1>2. listener'.space = listener.space /\ Wanted(c)' = Wanted(c)
  BY DEF Kept, Wanted
<1>3. k.round <= listener'.round
  BY <1>1 DEF Kept
<1>4. ASSUME c \in DOMAIN forks', forks'[c].round = k.round
      PROVE  c \in DOMAIN forks /\ forks[c].round = k.round
                                /\ forks'[c].enabled = forks[c].enabled
  <2>1. forks'[c].round # listener.round + 1
    BY <1>1, <1>4
  <2> QED  BY <1>4, <2>1 DEF Kept
<1> QED  BY <1>2, <1>3, <1>4 DEF ClientFits

LEMMA ForkKept ==
  ASSUME NEW offered, Fits(offered), Kept(offered), NEW c \in DOMAIN forks, NEW f,
         f.round \in Nat, ForkFits(c, f, offered[c])
  PROVE  ForkFits(c, f, offered[c])'
<1>1. listener.round \in Nat /\ c \in Clients /\ f.round <= listener.round
  BY Types DEF ForkFits
<1>2. /\ listener'.space = listener.space /\ listener'.useEcn = listener.useEcn
      /\ clients'[c].space = clients[c].space /\ Wanted(c)' = Wanted(c)
      /\ listener'.enabled \subseteq listener.enabled
  BY <1>1 DEF Kept, Wanted
<1>3. f.round <= listener'.round
  BY <1>1 DEF Kept
<1> QED  BY <1>2, <1>3 DEF ForkFits

\* What is left to show of a step: what it changes, and what it sends.
LEMMA StepFits ==
  ASSUME NEW offered, Fits(offered), Kept(offered),
         listener' \in Socket, listener'.state = "LISTEN",
         forks' \in [DOMAIN forks' -> Socket], clients' \in [Clients -> Socket],
         ForkingFits',
         \A c \in Clients : ClientFits(c, clients'[c], offered[c]),
         \A c \in DOMAIN forks' : \/ c \in DOMAIN forks /\ ForkFits(c, forks'[c], offered[c])
                                  \/ ForkFits(c, forks[c], offered[c])',
         NEW used, NEW sent, Exchange(used, sent), sent \subseteq Segment,
         \A seg \in sent : SegmentFits(seg, offered[seg.client])
  PROVE  Fits(offered)'
<1>1. net' = (net \ used) \cup sent
  BY DEF Exchange
<1>2. net' \subseteq Segment /\ \A seg \in net' : SegmentFits(seg, offered[seg.client])
  BY <1>1 DEF Fits
<1>3. \A seg \in net' : SegmentFits(seg, offered[seg.client])'
  BY <1>2, SegmentKept
<1>4. \A s \in Socket : s.round \in Nat
  BY DEF Socket
<1>5. ASSUME NEW c \in Clients PROVE ClientFits(c, clients[c], offered[c])'
  <2>1. \A k : k.round \in Nat /\ ClientFits(c, k, offered[c]) => ClientFits(c, k, offered[c])'
    BY ClientKept
  <2>2. clients'[c].round \in Nat
    BY <1>4
  <2>3. ClientFits(c, clients'[c], offered[c])
    OBVIOUS
  <2> QED  BY <2>1, <2>2, <2>3 DEF ClientFits, Wanted
<1>6. ASSUME NEW c \in DOMAIN forks' PROVE ForkFits(c, forks[c], offered[c])'
  <2>1. CASE c \in DOMAIN forks /\ ForkFits(c, forks'[c], offered[c])
    <3>1. \A f : f.round \in Nat /\ ForkFits(c, f, offered[c]) => ForkFits(c, f, offered[c])'
      BY <2>1, ForkKept
    <3>2. forks'[c].round \in Nat
      BY <1>4
    <3> QED  BY <2>1, <3>1, <3>2 DEF ForkFits, Wanted
  <2>2. CASE ForkFits(c, forks[c], offered[c])'
    BY <2>2
  <2> QED  BY <2>1, <2>2
<1>7. DOMAIN forks' \subseteq Clients
  BY DEF Kept
<1> QED  BY <1>2, <1>3, <1>5, <1>6, <1>7 DEF Fits

\* A step of a client c, which becomes k.
LEMMA ClientStepFits ==
  ASSUME NEW offered, Fits(offered), NEW c \in Clients, NEW k \in Socket,
         k.space = clients[c].space, k.useEcn = clients[c].useEcn,
         ClientFits(c, k, offered[c]),
         clients' = [clients EXCEPT ![c] = k], UNCHANGED <<listener, forks, forking>>,
         NEW used, NEW sent, Exchange(used, sent), sent \subseteq Segment,
         \A seg \in sent : SegmentFits(seg, offered[seg.client])
  PROVE  Fits(offered)'
<1>1. listener.round \in Nat
  BY Types
<1>2. /\ clients' \in [Clients -> Socket] /\ clients'[c] = k
      /\ \A x \in Clients : x # c => clients'[x] = clients[x]
  BY DEF Fits
<1>3. \A x \in Clients : /\ clients'[x].space = clients[x].space
                         /\ clients'[x].useEcn = clients[x].useEcn
  BY <1>2
<1>4. Kept(offered)
  BY <1>1, <1>3 DEF Kept, Fits
<1>5. \A x \in Clients : ClientFits(x, clients'[x], offered[x])
  <2>1. \A x \in Clients : ClientFits(x, clients[x], offered[x])
    BY DEF Fits
  <2> QED  BY <1>2, <2>1
<1>6. ForkingFits'
  BY <1>3 DEF Fits, ForkingFits
<1>7. \A x \in DOMAIN forks' : x \in DOMAIN forks /\ ForkFits(x, forks'[x], offered[x])
  BY DEF Fits
<1>8. /\ listener' \in Socket /\ listener'.state = "LISTEN"
      /\ forks' \in [DOMAIN forks' -> Socket]
  BY DEF Fits
<1> QED  BY <1>2, <1>4, <1>5, <1>6, <1>7, <1>8, StepFits

\* A step of a fork c, which becomes f or ends.
LEMMA ForkStepFits ==
  ASSUME NEW offered, Fits(offered), NEW c \in Forked, NEW f \in Socket,
         f.enabled = forks[c].enabled, f.round = forks[c].round,
         f.state # "CLOSED" => f.state # "LISTEN" /\ ForkFits(c, f, offered[c]),
         BecomesFork(c, f), UNCHANGED <<listener, forking, clients>>,
         NEW used, NEW sent, Exchange(used, sent), sent \subseteq Segment,
         \A seg \in sent : SegmentFits(seg, offered[seg.client])
  PROVE  Fits(offered)'
<1>1. /\ c \in DOMAIN forks /\ c \in Clients /\ forks[c].state # "LISTEN"
      /\ listener.round \in Nat /\ forks \in [DOMAIN forks -> Socket]
  BY Types DEF Forked, Fits
<1>2. /\ forks' \in [DOMAIN forks' -> Socket] /\ DOMAIN forks' \subseteq DOMAIN forks
      /\ \A x \in DOMAIN forks : x # c => x \in DOMAIN forks' /\ forks'[x] = forks[x]
      /\ c \in DOMAIN forks' => forks'[c] = f /\ f.state # "CLOSED"
  <2>1. CASE f.state = "CLOSED"
    <3>1. forks' = [d \in DOMAIN forks \ {c} |-> forks[d]]
      BY <2>1 DEF BecomesFork
    <3> QED  BY <1>1, <3>1
  <2>2. CASE f.state # "CLOSED"
    <3>1. forks' = [forks EXCEPT ![c] = f]
      BY <2>2 DEF BecomesFork
    <3> QED  BY <1>1, <2>2, <3>1
  <2> QED  BY <2>1, <2>2
<1>3. Kept(offered)
  <2>1. \A x \in DOMAIN forks' : /\ x \in DOMAIN forks
                                 /\ forks'[x].enabled = forks[x].enabled
                                 /\ forks'[x].round = forks[x].round
    BY <1>2
  <2>2. DOMAIN forks \subseteq Clients
    BY DEF Fits
  <2> QED  BY <1>1, <1>2, <2>1, <2>2 DEF Kept
<1>4. \A x \in Clients : ClientFits(x, clients'[x], offered[x])
  BY DEF Fits
<1>5. ForkingFits'
  <2>1. ForkingFits
    BY DEF Fits
  <2>2. ASSUME NEW i \in DOMAIN forking
        PROVE  LET x == forking[i].client
               IN  x \in DOMAIN forks' /\ forks'[x].state = "LISTEN"
    <3>1. forking[i].client \in DOMAIN forks /\ forks[forking[i].client].state = "LISTEN"
      BY <2>1 DEF ForkingFits
    <3>2. forking[i].client # c
      BY <1>1, <3>1
    <3> QED  BY <1>2, <3>1, <3>2
  <2> QED  BY <2>1, <2>2 DEF ForkingFits
<1>6. \A x \in DOMAIN forks' : x \in DOMAIN forks /\ ForkFits(x, forks'[x], offered[x])
  <2>1. \A x \in DOMAIN forks : ForkFits(x, forks[x], offered[x])
    BY DEF Fits
  <2> QED  BY <1>2, <2>1
<1>7. /\ listener' \in Socket /\ listener'.state = "LISTEN" /\ clients' \in [Clients -> Socket]
  BY DEF Fits
<1> QED  BY <1>2, <1>3, <1>4, <1>5, <1>6, <1>7, StepFits

\* A step that does not touch a socket.
LEMMA NetStepFits ==
  ASSUME NEW offered, Fits(offered), UNCHANGED <<listener, forks, forking, clients>>,
         NEW used, NEW sent, Exchange(used, sent), sent \subseteq Segment,
         \A seg \in sent : SegmentFits(seg, offered[seg.client])
  PROVE  Fits(offered)'
<1>1. listener.round \in Nat
  BY Types
<1>2. Kept(offered)
  BY <1>1 DEF Kept, Fits
<1>3. \A x \in Clients : ClientFits(x, clients'[x], offered[x])
  BY DEF Fits
<1>4. ForkingFits'
  BY DEF Fits, ForkingFits
<1>5. \A x \in DOMAIN forks' : x \in DOMAIN forks /\ ForkFits(x, forks'[x], offered[x])
  BY DEF Fits
<1>6. /\ listener' \in Socket /\ listener'.state = "LISTEN"
      /\ forks' \in [DOMAIN forks' -> Socket] /\ clients' \in [Clients -> Socket]
  BY DEF Fits
<1> QED  BY <1>2, <1>3, <1>4, <1>5, <1>6, StepFits

-----------------------------------------------------------------------------
(***************************************************************************)
(* Methods                                                                 *)
(***************************************************************************)
LEMMA ReceiveSynFacts ==
  ASSUME NEW s \in Socket, NEW seg \in Segment
  PROVE  LET t == ReceiveSyn(s, seg)
         IN  /\ t \in Socket /\ t.rWnd = seg.win /\ t.enabled = s.enabled \cap seg.opts
             /\ t.sndWindShift = IF "WINSCALE" \in t.enabled THEN seg.scale
                                                             ELSE s.sndWindShift
             /\ t.state = s.state /\ t.rcvWindShift = s.rcvWindShift /\ t.space = s.space
             /\ t.useEcn = s.useEcn /\ t.ecn = s.ecn /\ t.synCount = s.synCount
             /\ t.round = s.round
<1> DEFINE both == s.enabled \cap seg.opts
           shift == IF "WINSCALE" \in both THEN seg.scale ELSE s.sndWindShift
           t == ReceiveSyn(s, seg)
<1>1. both \subseteq Options /\ shift \in 0 .. MaxShift /\ seg.win \in Nat
  <2>1. /\ s.enabled \subseteq Options /\ s.sndWindShift \in 0 .. MaxShift
        /\ seg.opts \subseteq Options /\ seg.scale \in 0 .. MaxShift
        /\ seg.win \in 0 .. MaxWinSize
    BY DEF Socket, Segment
  <2> QED  BY <2>1
<1>2. t = [s EXCEPT !.rWnd = seg.win, !.enabled = both, !.sndWindShift = shift]
  <2>1. t = [s EXCEPT !.rWnd = seg.win, !.enabled = both,
                      !.sndWindShift = IF "WINSCALE" \in both THEN seg.scale ELSE @]
    BY DEF ReceiveSyn
  <2> HIDE DEF t, both
  <2> QED  BY <2>1 DEF Socket
<1> HIDE DEF t
<1>3. /\ t.rWnd = seg.win /\ t.enabled = both /\ t.sndWindShift = shift
      /\ t.state = s.state /\ t.rcvWindShift = s.rcvWindShift /\ t.space = s.space
      /\ t.useEcn = s.useEcn /\ t.ecn = s.ecn /\ t.synCount = s.synCount
      /\ t.round = s.round
  BY <1>2 DEF Socket
<1>4. t \in Socket
  <2> HIDE DEF both, shift
  <2> QED  BY <1>1, <1>2 DEF Socket
<1> QED  BY <1>3, <1>4 DEF t

LEMMA AfterSynFacts ==
  ASSUME NEW s \in Socket
  PROVE  LET t == AfterSyn(s)
         IN  /\ t \in Socket /\ t.enabled = s.enabled /\ t.sndWindShift = s.sndWindShift
             /\ t.rWnd = s.rWnd /\ t.space = s.space /\ t.useEcn = s.useEcn
             /\ t.ecn = s.ecn /\ t.round = s.round
             /\ t.state = IF s.synCount = 0 THEN "CLOSED" ELSE s.state
             /\ "WINSCALE" \in t.enabled => t.rcvWindShift = CalculateWScale(t.space)
<1> DEFINE t == IF "WINSCALE" \in s.enabled
                THEN [s EXCEPT !.rcvWindShift = CalculateWScale(s.space)]
                ELSE s
           u == AfterSyn(s)
<1>1. CalculateWScale(s.space) \in 0 .. MaxShift
  BY Shifts DEF Socket
<1>2. /\ t \in Socket /\ t.enabled = s.enabled /\ t.sndWindShift = s.sndWindShift
      /\ t.rWnd = s.rWnd /\ t.space = s.space /\ t.useEcn = s.useEcn
      /\ t.ecn = s.ecn /\ t.round = s.round /\ t.state = s.state /\ t.synCount = s.synCount
      /\ "WINSCALE" \in t.enabled => t.rcvWindShift = CalculateWScale(t.space)
  BY <1>1 DEF Socket
<1>3. u = IF s.synCount = 0 THEN [t EXCEPT !.state = "CLOSED"]
                            ELSE [t EXCEPT !.synCount = @ - 1]
  BY DEF AfterSyn
<1> HIDE DEF t, u
<1>4. s.synCount # 0 => t.synCount - 1 \in 0 .. SynRetries
  <2>1. s.synCount \in 0 .. SynRetries /\ SynRetries \in Nat
    BY RetryAssumption DEF Socket
  <2> QED  BY <1>2, <2>1
<1>5. /\ u.enabled = t.enabled /\ u.sndWindShift = t.sndWindShift /\ u.rWnd = t.rWnd
      /\ u.space = t.space /\ u.useEcn = t.useEcn /\ u.ecn = t.ecn /\ u.round = t.round
      /\ u.rcvWindShift = t.rcvWindShift
      /\ u.state = IF s.synCount = 0 THEN "CLOSED" ELSE s.state
  BY <1>2, <1>3 DEF Socket
<1>6. u \in Socket
  BY <1>2, <1>3, <1>4 DEF Socket
<1> QED  BY <1>2, <1>5, <1>6 DEF u

LEMMA UpdateWindowSizeFacts ==
  ASSUME NEW s \in Socket, NEW seg \in Segment
  PROVE  LET t == UpdateWindowSize(s, seg)
         IN  /\ t \in Socket /\ t.enabled = s.enabled /\ t.sndWindShift = s.sndWindShift
             /\ t.rcvWindShift = s.rcvWindShift /\ t.space = s.space
             /\ t.useEcn = s.useEcn /\ t.ecn = s.ecn /\ t.round = s.round
             /\ t.state = s.state
             /\ \A most \in Nat : s.rWnd <= most /\ seg.win * 2 ^ s.sndWindShift <= most
                                     => t.rWnd <= most
<1> DEFINE f == 2 ^ s.sndWindShift
           window == seg.win * f
           largest == Max({s.rWnd, window})
           t == UpdateWindowSize(s, seg)
<1>1. s.rWnd \in Nat /\ window \in Nat
  <2>1. s.rWnd \in Nat /\ s.sndWindShift \in 0 .. 14 /\ seg.win \in Nat
    BY DEF Socket, Segment, MaxShift
  <2>2. f \in Nat
    BY <2>1, WindowScales
  <2> HIDE DEF f
  <2>3. \A a, b \in Nat : a * b \in Nat
    OBVIOUS
  <2> QED  BY <2>1, <2>2, <2>3
<1>2. t = [s EXCEPT !.rWnd = IF s.state = "ESTABLISHED" THEN largest ELSE window]
  <2>1. t = IF s.state = "ESTABLISHED" THEN [s EXCEPT !.rWnd = Max({@, window})]
                                       ELSE [s EXCEPT !.rWnd = window]
    BY DEF UpdateWindowSize
  <2> HIDE DEF t, window
  <2> QED  BY <2>1 DEF Socket
<1> HIDE DEF window
<1>3. largest \in {s.rWnd, window}
  <2>1. \E x \in {s.rWnd, window} : \A y \in {s.rWnd, window} : x >= y
    BY <1>1
  <2> QED  BY <2>1 DEF Max
<1> HIDE DEF largest, t
<1>4. t \in Socket
  BY <1>1, <1>2, <1>3 DEF Socket
<1>5. /\ t.enabled = s.enabled /\ t.sndWindShift = s.sndWindShift
      /\ t.rcvWindShift = s.rcvWindShift /\ t.space = s.space /\ t.useEcn = s.useEcn
      /\ t.ecn = s.ecn /\ t.round = s.round /\ t.state = s.state
      /\ t.rWnd \in {s.rWnd, window}
  BY <1>2, <1>3 DEF Socket
<1> QED  BY <1>4, <1>5 DEF t, window

LEMMA SynSegmentFits ==
  ASSUME NEW offered, NEW c \in Clients, NEW s \in Socket, NEW ecn \in BOOLEAN,
         NEW type \in {"SYN", "SYN+ACK"},
         type = "SYN" => /\ s.enabled = offered[c] /\ s.space = clients[c].space
                         /\ ecn = (clients[c].useEcn = "On"),
         type = "SYN+ACK" =>
            /\ c \in DOMAIN forks /\ ForkFits(c, forks[c], offered[c])
            /\ s.enabled = forks[c].enabled /\ s.round = forks[c].round
            /\ s.space = listener.space /\ ecn = Wanted(c)
  PROVE  /\ SynSegment(c, s, type, ecn) \subseteq Segment
         /\ \A seg \in SynSegment(c, s, type, ecn) : SegmentFits(seg, offered[seg.client])
<1> DEFINE scale == IF "WINSCALE" \in s.enabled THEN CalculateWScale(s.space) ELSE 0
           win == AdvertisedWindowSize(s, 0)
           e == [type |-> type, client |-> c, opts |-> s.enabled, scale |-> scale,
                 win |-> win, ecn |-> ecn, round |-> s.round]
<1>1. SynSegment(c, s, type, ecn) \subseteq {e}
  BY DEF SynSegment
<1>2. s.space \in Nat /\ s.enabled \subseteq Options /\ s.round \in Nat
  BY DEF Socket
<1>3. win \in 0 .. MaxWinSize /\ win <= s.space
  BY <1>2, UnshiftedWindow
<1>4. scale \in 0 .. MaxShift
  <2>1. 0 \in 0 .. MaxShift
    BY DEF MaxShift
  <2> QED  BY <1>2, <2>1, Shifts
<1>5. "WINSCALE" \in s.enabled => scale = CalculateWScale(s.space)
  OBVIOUS
<1> HIDE DEF scale, win
<1>6. /\ e.type = type /\ e.client = c /\ e.opts = s.enabled /\ e.scale = scale
      /\ e.win = win /\ e.ecn = ecn /\ e.round = s.round
  OBVIOUS
<1>7. e \in Segment
  BY <1>2, <1>3, <1>4 DEF Segment
<1> HIDE DEF e
<1>8. type = "SYN" => SynFits(e, offered[c])
  BY <1>3, <1>5, <1>6 DEF SynFits
<1>9. type = "SYN+ACK" => SynAckFits(e, offered[c])
  BY <1>3, <1>5, <1>6 DEF SynAckFits, ForkFits
<1>10. SegmentFits(e, offered[e.client])
  BY <1>6, <1>8, <1>9 DEF SegmentFits
<1> QED  BY <1>1, <1>7, <1>10

LEMMA AckSegmentFits ==
  ASSUME NEW offered, NEW c \in Clients, NEW s \in Socket, s.space = clients[c].space,
         "WINSCALE" \in offered[c] => s.rcvWindShift = CalculateWScale(s.space)
  PROVE  /\ AckSegment(c, s) \in Segment
         /\ SegmentFits(AckSegment(c, s), offered[AckSegment(c, s).client])
<1> DEFINE win == AdvertisedWindowSize(s, s.rcvWindShift)
           e == AckSegment(c, s)
<1>1. s.space \in Nat /\ s.rcvWindShift \in 0 .. MaxShift /\ s.enabled \subseteq Options
  BY DEF Socket
<1>2. win \in 0 .. MaxWinSize /\ win * 2 ^ s.rcvWindShift <= s.space
  BY <1>1, Windows
<1>3. 0 \in 0 .. MaxShift
  BY DEF MaxShift
<1>4. e = [type |-> "ACK", client |-> c, opts |-> s.enabled \cap {"TS"}, scale |-> 0,
           win |-> win, ecn |-> FALSE, round |-> 0]
  BY DEF AckSegment
<1> HIDE DEF win, e
<1>5. e \in Segment
  BY <1>1, <1>2, <1>3, <1>4 DEF Segment
<1>6. e.type = "ACK" /\ e.client = c /\ e.win = win
  BY <1>4
<1>7. AckFits(e, offered[c])
  BY <1>2, <1>6 DEF AckFits
<1> QED  BY <1>5, <1>6, <1>7 DEF SegmentFits, e

-----------------------------------------------------------------------------
(***************************************************************************)
(* The clients                                                             *)
(***************************************************************************)
LEMMA SendSynStep ==
  ASSUME NEW offered, Fits(offered), NEW c \in Clients, SendSyn(c),
         clients[c].state \in {"CLOSED", "SYN_SENT"}
  PROVE  Fits(offered)'
<1> DEFINE s == [clients[c] EXCEPT !.state = "SYN_SENT"]
           k == AfterSyn(s)
           ecn == s.useEcn = "On"
           sent == SynSegment(c, s, "SYN", ecn)
<1>1. clients[c] \in Socket /\ ClientFits(c, clients[c], offered[c])
  BY DEF Fits
<1>2. /\ s \in Socket /\ s.state = "SYN_SENT" /\ s.enabled = clients[c].enabled
      /\ s.space = clients[c].space /\ s.useEcn = clients[c].useEcn
      /\ s.round = clients[c].round
  BY <1>1 DEF Socket
<1>3. s.enabled = offered[c] /\ s.round <= listener.round
  BY <1>1, <1>2 DEF ClientFits
<1>4. /\ clients' = [clients EXCEPT ![c] = k] /\ Exchange({}, sent)
      /\ UNCHANGED <<listener, forks, forking>>
  BY DEF SendSyn
<1>5. ecn \in BOOLEAN /\ ecn = (clients[c].useEcn = "On")
  BY <1>2
<1> HIDE DEF s, ecn
<1>6. /\ k \in Socket /\ k.enabled = s.enabled /\ k.space = s.space /\ k.useEcn = s.useEcn
      /\ k.round = s.round /\ k.state \in {"CLOSED", "SYN_SENT"}
      /\ "WINSCALE" \in k.enabled => k.rcvWindShift = CalculateWScale(k.space)
  BY <1>2, AfterSynFacts
<1>7. /\ sent \subseteq Segment
      /\ \A seg \in sent : SegmentFits(seg, offered[seg.client])
  BY <1>2, <1>3, <1>5, SynSegmentFits
<1> HIDE DEF k, sent
<1>8. ClientFits(c, k, offered[c])
  BY <1>3, <1>6 DEF ClientFits
<1>9. k.space = clients[c].space /\ k.useEcn = clients[c].useEcn
  BY <1>2, <1>6
<1> QED  BY <1>4, <1>6, <1>7, <1>8, <1>9, ClientStepFits

\* The option both ends have, when the client hears of those of a fork.
LEMMA ReceiveSynAckStep ==
  ASSUME NEW offered, Fits(offered), NEW c \in Clients, ReceiveSynAck(c)
  PROVE  Fits(offered)'
<1>1. PICK seg \in net :
        /\ seg.type = "SYN+ACK" /\ seg.client = c
        /\ LET s == ReceiveSyn(clients[c], seg)
               t == [s EXCEPT !.state = "ESTABLISHED", !.round = seg.round,
                              !.ecn = s.useEcn # "Off" /\ seg.ecn]
           IN  \/ /\ s.state = "SYN_SENT"
                  /\ clients' = [clients EXCEPT ![c] = t]
                  /\ Exchange({seg}, {AckSegment(c, t)})
               \/ /\ s.state = "ESTABLISHED"
                  /\ clients' = [clients EXCEPT ![c] = s]
                  /\ Exchange({seg}, {})
        /\ UNCHANGED <<listener, forks, forking>>
  BY DEF ReceiveSynAck
<1> DEFINE s == ReceiveSyn(clients[c], seg)
           ecn == s.useEcn # "Off" /\ seg.ecn
           t == [s EXCEPT !.state = "ESTABLISHED", !.round = seg.round, !.ecn = ecn]
<1>2. /\ clients[c] \in Socket /\ ClientFits(c, clients[c], offered[c])
      /\ seg \in Segment /\ SynAckFits(seg, offered[c])
  BY <1>1 DEF Fits, SegmentFits
<1>3. /\ s \in Socket /\ s.rWnd = seg.win /\ s.enabled = clients[c].enabled \cap seg.opts
      /\ "WINSCALE" \in s.enabled => s.sndWindShift = seg.scale
      /\ s.state = clients[c].state /\ s.rcvWindShift = clients[c].rcvWindShift
      /\ s.space = clients[c].space /\ s.useEcn = clients[c].useEcn
      /\ s.ecn = clients[c].ecn /\ s.round = clients[c].round
  BY <1>2, ReceiveSynFacts
<1>4. seg.round \in Nat /\ ecn \in BOOLEAN
  BY <1>2 DEF Segment
<1>5. ecn = (clients[c].useEcn # "Off" /\ seg.ecn)
  BY <1>3
<1>6. /\ s.state = "SYN_SENT" /\ clients' = [clients EXCEPT ![c] = t]
         /\ Exchange({seg}, {AckSegment(c, t)})
      \/ /\ s.state = "ESTABLISHED" /\ clients' = [clients EXCEPT ![c] = s]
         /\ Exchange({seg}, {})
  BY <1>1
<1>7. UNCHANGED <<listener, forks, forking>>
  BY <1>1
<1> HIDE DEF s, ecn
<1>8. CASE /\ s.state = "SYN_SENT" /\ clients' = [clients EXCEPT ![c] = t]
           /\ Exchange({seg}, {AckSegment(c, t)})
  <2>1. /\ t \in Socket /\ t.state = "ESTABLISHED" /\ t.round = seg.round /\ t.ecn = ecn
        /\ t.rWnd = s.rWnd /\ t.enabled = s.enabled /\ t.sndWindShift = s.sndWindShift
        /\ t.rcvWindShift = s.rcvWindShift /\ t.space = s.space /\ t.useEcn = s.useEcn
    BY <1>3, <1>4 DEF Socket
  <2> HIDE DEF t
  <2>2. clients[c].enabled = offered[c] /\ seg.opts \subseteq offered[c]
    BY <1>2, <1>3, <1>8 DEF ClientFits, SynAckFits
  <2>3. t.enabled = seg.opts
    BY <1>3, <2>1, <2>2
  <2>4. "WINSCALE" \in offered[c] => t.rcvWindShift = CalculateWScale(t.space)
    BY <1>2, <1>3, <1>8, <2>1 DEF ClientFits
  <2>5. t.ecn = Wanted(c)
    BY <1>1, <1>2, <1>5, <2>1 DEF SynAckFits, Wanted
  <2>6. ClientFits(c, t, offered[c])
    BY <1>1, <1>2, <1>3, <2>1, <2>2, <2>3, <2>4, <2>5 DEF ClientFits, SynAckFits
  <2>7. /\ {AckSegment(c, t)} \subseteq Segment
        /\ \A e \in {AckSegment(c, t)} : SegmentFits(e, offered[e.client])
    BY <1>3, <2>1, <2>4, AckSegmentFits
  <2>8. t.space = clients[c].space /\ t.useEcn = clients[c].useEcn
    BY <1>3, <2>1
  <2> QED  BY <1>8, <1>7, <2>1, <2>6, <2>7, <2>8, ClientStepFits
<1>9. CASE /\ s.state = "ESTABLISHED" /\ clients' = [clients EXCEPT ![c] = s]
           /\ Exchange({seg}, {})
  <2>1. ASSUME c \in DOMAIN forks, forks[c].round = s.round
        PROVE  s.enabled = forks[c].enabled
    <3>1. clients[c].enabled = forks[c].enabled
      BY <1>2, <1>3, <1>9, <2>1 DEF ClientFits
    <3>2. forks[c].enabled \subseteq seg.opts
      BY <1>1, <1>2, <2>1 DEF SynAckFits
    <3> QED  BY <1>3, <3>1, <3>2
  <2>2. ClientFits(c, s, offered[c])
    BY <1>2, <1>3, <1>9, <2>1 DEF ClientFits, SynAckFits
  <2> DEFINE sent == {}
  <2>3. /\ Exchange({seg}, sent) /\ sent \subseteq Segment
        /\ \A e \in sent : SegmentFits(e, offered[e.client])
    BY <1>9
  <2> HIDE DEF sent
  <2> QED  BY <1>3, <1>9, <1>7, <2>2, <2>3, ClientStepFits
<1> QED  BY <1>6, <1>8, <1>9

LEMMA ClientSendsStep ==
  ASSUME NEW offered, Fits(offered), NEW c \in Clients, Refuse(c) \/ ClientSends(c)
  PROVE  Fits(offered)'
<1>1. CASE Refuse(c)
  <2> DEFINE rst == [type |-> "RST", client |-> c, opts |-> {}, scale |-> 0,
                     win |-> 0, ecn |-> FALSE, round |-> 0]
  <2>1. PICK seg \in net : Exchange({seg}, {rst})
    BY <1>1 DEF Refuse
  <2>2. 0 \in 0 .. MaxShift /\ 0 \in 0 .. MaxWinSize
    BY RetryAssumption DEF MaxShift
  <2>3. rst \in Segment /\ rst.type = "RST"
    BY <2>2 DEF Segment
  <2> HIDE DEF rst
  <2>4. {rst} \subseteq Segment /\ \A e \in {rst} : SegmentFits(e, offered[e.client])
    BY <2>3 DEF SegmentFits
  <2>5. UNCHANGED <<listener, forks, forking, clients>>
    BY <1>1 DEF Refuse
  <2> QED  BY <2>1, <2>4, <2>5, NetStepFits
<1>2. CASE ClientSends(c)
  <2> DEFINE e == AckSegment(c, clients[c])
  <2>1. clients[c] \in Socket /\ ClientFits(c, clients[c], offered[c])
    BY DEF Fits
  <2>2. "WINSCALE" \in offered[c]
          => clients[c].rcvWindShift = CalculateWScale(clients[c].space)
    BY <1>2, <2>1 DEF ClientSends, ClientFits
  <2>3. e \in Segment /\ SegmentFits(e, offered[e.client])
    BY <2>1, <2>2, AckSegmentFits
  <2>4. Exchange({}, {e}) /\ UNCHANGED <<listener, forks, forking, clients>>
    BY <1>2 DEF ClientSends
  <2> HIDE DEF e
  <2> QED  BY <2>3, <2>4, NetStepFits
<1> QED  BY <1>1, <1>2

LEMMA LoseStep ==
  ASSUME NEW offered, Fits(offered), Lose
  PROVE  Fits(offered)'
<1>1. PICK seg \in net : Exchange({seg}, {})
  BY DEF Lose
<1>2. {} \subseteq Segment /\ \A e \in {} : SegmentFits(e, offered[e.client])
  OBVIOUS
<1>3. UNCHANGED <<listener, forks, forking, clients>>
  BY DEF Lose
<1> QED  BY <1>1, <1>2, <1>3, NetStepFits

-----------------------------------------------------------------------------
(***************************************************************************)
(* The server                                                              *)
(***************************************************************************)
\* The listener offers from now on what the client offers, too; a copy has agreed to it.
LEMMA ReceiveSynListeningStep ==
  ASSUME NEW offered, Fits(offered), NEW c \in Clients, ReceiveSynListening(c)
  PROVE  Fits(offered)'
<1>1. PICK seg \in net :
        /\ seg.type = "SYN" /\ seg.client = c
        /\ LET s == ReceiveSyn(listener, seg)
               t == Fork(s)
           IN  \/ /\ listener' = t
                  /\ forks' = [d \in DOMAIN forks \cup {c} |->
                                 IF d = c THEN t ELSE forks[d]]
                  /\ forking' = Append(forking, [client |-> c, ecn |-> seg.ecn])
               \/ /\ listener' = s
                  /\ UNCHANGED <<forks, forking>>
        /\ Exchange({seg}, {})
  BY DEF ReceiveSynListening
<1> DEFINE s == ReceiveSyn(listener, seg)
           t == [s EXCEPT !.round = @ + 1]
           added == [d \in DOMAIN forks \cup {c} |-> IF d = c THEN t ELSE forks[d]]
           entry == [client |-> c, ecn |-> seg.ecn]
           none == {}
<1>2. /\ listener \in Socket /\ listener.state = "LISTEN" /\ listener.round \in Nat
      /\ seg \in Segment /\ SynFits(seg, offered[c]) /\ c \notin DOMAIN forks
      /\ clients' = clients /\ clients \in [Clients -> Socket]
      /\ DOMAIN forks \subseteq Clients /\ forks \in [DOMAIN forks -> Socket]
  BY <1>1, Types DEF Fits, SegmentFits, ReceiveSynListening
<1>3. /\ Exchange({seg}, none) /\ none \subseteq Segment
      /\ \A e \in none : SegmentFits(e, offered[e.client])
  BY <1>1
<1>4. /\ s \in Socket /\ s.rWnd = seg.win /\ s.enabled = listener.enabled \cap seg.opts
      /\ "WINSCALE" \in s.enabled => s.sndWindShift = seg.scale
      /\ s.state = listener.state /\ s.space = listener.space
      /\ s.useEcn = listener.useEcn /\ s.round = listener.round
  BY <1>2, ReceiveSynFacts
<1>5. \/ /\ listener' = t /\ forks' = added /\ forking' = Append(forking, entry)
      \/ listener' = s /\ UNCHANGED <<forks, forking>>
  BY <1>1 DEF Fork
<1> HIDE DEF s, none
<1>6. /\ t \in Socket /\ t.round = s.round + 1 /\ t.rWnd = s.rWnd /\ t.enabled = s.enabled
      /\ t.sndWindShift = s.sndWindShift /\ t.state = s.state /\ t.space = s.space
      /\ t.useEcn = s.useEcn
  BY <1>2, <1>4 DEF Socket
<1> HIDE DEF t
<1>7. listener' \in {s, t}
  BY <1>5
<1>8. /\ listener' \in Socket /\ listener'.state = "LISTEN"
      /\ listener'.space = listener.space /\ listener'.useEcn = listener.useEcn
      /\ listener'.enabled = listener.enabled \cap offered[c]
      /\ listener'.round \in Nat /\ listener.round <= listener'.round
  <2>1. s.round \in Nat /\ listener.round <= s.round /\ s.round + 1 \in Nat
        /\ listener.round <= s.round + 1
    BY <1>2, <1>4
  <2> QED  BY <1>2, <1>4, <1>6, <1>7, <2>1 DEF SynFits
<1>9. \A x \in Clients : ClientFits(x, clients'[x], offered[x])
  BY <1>2 DEF Fits
<1>10. \A x \in DOMAIN forks : ForkFits(x, forks[x], offered[x])
  BY DEF Fits
<1>11. CASE listener' = t /\ forks' = added /\ forking' = Append(forking, entry)
  <2>1. /\ DOMAIN forks' = {c} \cup DOMAIN forks /\ forks'[c] = t
        /\ \A x \in DOMAIN forks : forks'[x] = forks[x]
        /\ forks' = [x \in {c} \cup DOMAIN forks |-> IF x = c THEN t ELSE forks[x]]
    BY <1>2, <1>11
  <2>2. forks' \in [DOMAIN forks' -> Socket] /\ DOMAIN forks' \subseteq Clients
    BY <1>2, <1>6, <2>1
  <2>3. Kept(offered)
    BY <1>2, <1>4, <1>6, <1>8, <1>11, <2>1, <2>2 DEF Kept
  <2>4. ForkFits(c, forks[c], offered[c])'
    <3>1. /\ t.state = "LISTEN" /\ t.round <= listener'.round
          /\ t.space = listener'.space /\ t.useEcn = listener'.useEcn
          /\ t.enabled \subseteq offered[c]
          /\ listener'.enabled \cap offered[c] \subseteq t.enabled
      BY <1>2, <1>4, <1>6, <1>8, <1>11 DEF SynFits
    <3>2. "WINSCALE" \in t.enabled => /\ t.sndWindShift = CalculateWScale(clients[c].space)
                                      /\ t.rWnd <= clients[c].space
      BY <1>1, <1>2, <1>4, <1>6 DEF SynFits
    <3> QED  BY <1>2, <2>1, <3>1, <3>2 DEF ForkFits
  <2>5. ForkingFits'
    <3>1. /\ ForkingFits /\ forking \in Seq([client : Clients, ecn : BOOLEAN])
          /\ entry \in [client : Clients, ecn : BOOLEAN]
          /\ entry.client = c /\ entry.ecn = (clients[c].useEcn = "On")
      BY <1>1, <1>2 DEF Fits, ForkingFits, Segment, SynFits
    <3> HIDE DEF entry
    <3>2. /\ forking' \in Seq([client : Clients, ecn : BOOLEAN])
          /\ Len(forking') = Len(forking) + 1 /\ Len(forking) \in Nat
          /\ DOMAIN forking' = 1 .. Len(forking) + 1 /\ DOMAIN forking = 1 .. Len(forking)
          /\ \A i \in 1 .. Len(forking) : forking'[i] = forking[i]
          /\ forking'[Len(forking) + 1] = entry
      BY <1>11, <3>1, AppendProperties
    <3>3. \A i \in DOMAIN forking' : \/ i \in DOMAIN forking /\ forking'[i] = forking[i]
                                     \/ i = Len(forking) + 1 /\ forking'[i] = entry
      BY <3>2
    <3>4. \A i \in DOMAIN forking :
             LET x == forking[i].client
             IN  /\ x \in DOMAIN forks /\ forks[x].state = "LISTEN"
                 /\ forking[i].ecn = (clients[x].useEcn = "On")
      BY <3>1 DEF ForkingFits
    <3>5. \A i \in DOMAIN forking' :
             LET x == forking'[i].client
             IN  /\ x \in DOMAIN forks' /\ forks'[x].state = "LISTEN"
                 /\ forking'[i].ecn = (clients'[x].useEcn = "On")
      BY <1>2, <1>4, <1>6, <2>1, <3>1, <3>3, <3>4
    <3>6. \A i, j \in DOMAIN forking' : i # j => forking'[i].client # forking'[j].client
      <4>1. \A i \in DOMAIN forking : forking[i].client # c
        BY <1>2, <3>4
      <4>2. \A i, j \in DOMAIN forking : i # j => forking[i].client # forking[j].client
        BY <3>1 DEF ForkingFits
      <4> QED  BY <3>1, <3>3, <4>1, <4>2
    <3> QED  BY <3>2, <3>5, <3>6 DEF ForkingFits
  <2>6. \A x \in DOMAIN forks' : \/ x \in DOMAIN forks /\ ForkFits(x, forks'[x], offered[x])
                                 \/ ForkFits(x, forks[x], offered[x])'
    <3> SUFFICES ASSUME NEW x \in DOMAIN forks'
                 PROVE  \/ x \in DOMAIN forks /\ ForkFits(x, forks'[x], offered[x])
                        \/ ForkFits(x, forks[x], offered[x])'
      OBVIOUS
    <3>1. CASE x = c
      BY <2>4, <3>1
    <3>2. CASE x # c
      BY <1>10, <2>1, <3>2
    <3> QED  BY <3>1, <3>2
  <2> QED  BY <1>2, <1>3, <1>8, <1>9, <2>2, <2>3, <2>5, <2>6, StepFits
<1>12. CASE listener' = s /\ UNCHANGED <<forks, forking>>
  <2>1. Kept(offered)
    BY <1>2, <1>8, <1>12 DEF Kept
  <2>2. ForkingFits'
    BY <1>2, <1>12 DEF Fits, ForkingFits
  <2>3. \A x \in DOMAIN forks' : x \in DOMAIN forks /\ ForkFits(x, forks'[x], offered[x])
    BY <1>10, <1>12
  <2>4. forks' \in [DOMAIN forks' -> Socket] /\ clients' \in [Clients -> Socket]
    BY <1>2, <1>12
  <2> QED  BY <1>3, <1>8, <1>9, <2>1, <2>2, <2>3, <2>4, StepFits
<1> QED  BY <1>5, <1>11, <1>12

LEMMA ReceiveAckListeningStep ==
  ASSUME NEW offered, Fits(offered), NEW c \in Clients, ReceiveAckListening(c)
  PROVE  Fits(offered)'
<1>1. PICK seg \in net :
        /\ listener' = IF Heard(listener, seg) THEN UpdateWindowSize(listener, seg)
                                               ELSE listener
        /\ Exchange({seg}, {})
  BY DEF ReceiveAckListening
<1> DEFINE none == {}
<1>2. /\ Exchange({seg}, none) /\ none \subseteq Segment
      /\ \A e \in none : SegmentFits(e, offered[e.client])
  BY <1>1
<1> HIDE DEF none
<1>3. /\ UNCHANGED <<forks, forking, clients>>
      /\ listener \in Socket /\ listener.state = "LISTEN" /\ listener.round \in Nat
      /\ seg \in Segment /\ clients \in [Clients -> Socket]
      /\ DOMAIN forks \subseteq Clients /\ forks \in [DOMAIN forks -> Socket]
  BY Types DEF Fits, ReceiveAckListening
<1>4. /\ listener' \in Socket /\ listener'.state = "LISTEN"
      /\ listener'.space = listener.space /\ listener'.useEcn = listener.useEcn
      /\ listener'.enabled = listener.enabled /\ listener'.round = listener.round
  BY <1>1, <1>3, UpdateWindowSizeFacts
<1>5. Kept(offered)
  BY <1>3, <1>4 DEF Kept
<1>6. ForkingFits'
  BY <1>3 DEF Fits, ForkingFits
<1>7. /\ \A x \in Clients : ClientFits(x, clients'[x], offered[x])
      /\ \A x \in DOMAIN forks' : x \in DOMAIN forks /\ ForkFits(x, forks'[x], offered[x])
  BY <1>3 DEF Fits
<1> QED  BY <1>2, <1>3, <1>4, <1>5, <1>6, <1>7, StepFits

\* The copy answers for what it was when it was made.
LEMMA CompleteForkStep ==
  ASSUME NEW offered, Fits(offered), CompleteFork
  PROVE  Fits(offered)'
<1> DEFINE c == Head(forking).client
           ecn == forks[c].useEcn # "Off" /\ Head(forking).ecn
           s == [forks[c] EXCEPT !.state = "SYN_RCVD", !.synCount = SynRetries,
                                 !.ecn = ecn]
           f == AfterSyn(s)
           sent == SynSegment(c, s, "SYN+ACK", ecn)
           none == {}
<1>1. /\ forking # << >> /\ forks' = [forks EXCEPT ![c] = f] /\ Exchange(none, sent)
      /\ forking' = Tail(forking) /\ UNCHANGED <<listener, clients>>
  BY DEF CompleteFork
<1>2. /\ forking \in Seq([client : Clients, ecn : BOOLEAN]) /\ ForkingFits
      /\ DOMAIN forks \subseteq Clients /\ forks \in [DOMAIN forks -> Socket]
      /\ listener \in Socket /\ listener.state = "LISTEN" /\ listener.round \in Nat
      /\ clients \in [Clients -> Socket]
  BY Types DEF Fits, ForkingFits
<1>3. /\ Head(forking) = forking[1] /\ Tail(forking) \in Seq([client : Clients, ecn : BOOLEAN])
      /\ \A i \in DOMAIN Tail(forking) :
            Tail(forking)[i] = forking[i + 1] /\ i + 1 \in DOMAIN forking /\ i + 1 # 1
      /\ \A i, j \in DOMAIN Tail(forking) : i # j => i + 1 # j + 1
      /\ 1 \in DOMAIN forking
  BY <1>1, <1>2
<1>4. /\ c \in DOMAIN forks /\ c \in Clients /\ forks[c].state = "LISTEN"
      /\ Head(forking).ecn = (clients[c].useEcn = "On")
      /\ forks[c] \in Socket /\ ForkFits(c, forks[c], offered[c])
  BY <1>2, <1>3 DEF ForkingFits, Fits
<1>5. ecn \in BOOLEAN /\ ecn = Wanted(c)
  BY <1>4 DEF ForkFits, Wanted
<1> HIDE DEF ecn, c, none
<1>6. /\ s \in Socket /\ s.state = "SYN_RCVD" /\ s.synCount = SynRetries /\ s.ecn = ecn
      /\ s.enabled = forks[c].enabled /\ s.sndWindShift = forks[c].sndWindShift
      /\ s.rWnd = forks[c].rWnd /\ s.space = forks[c].space
      /\ s.useEcn = forks[c].useEcn /\ s.round = forks[c].round
  <2>1. SynRetries \in 0 .. SynRetries
    BY RetryAssumption
  <2> QED  BY <1>4, <1>5, <2>1 DEF Socket
<1> HIDE DEF s
<1>7. /\ f \in Socket /\ f.enabled = s.enabled /\ f.sndWindShift = s.sndWindShift
      /\ f.rWnd = s.rWnd /\ f.space = s.space /\ f.useEcn = s.useEcn /\ f.ecn = s.ecn
      /\ f.round = s.round /\ f.state = "SYN_RCVD"
      /\ "WINSCALE" \in f.enabled => f.rcvWindShift = CalculateWScale(f.space)
  BY <1>6, AfterSynFacts, RetryAssumption
<1>8. /\ sent \subseteq Segment
      /\ \A seg \in sent : SegmentFits(seg, offered[seg.client])
  <2>1. s.space = listener.space
    BY <1>4, <1>6 DEF ForkFits
  <2> QED  BY <1>4, <1>5, <1>6, <2>1, SynSegmentFits
<1> HIDE DEF f, sent
<1>9. ForkFits(c, f, offered[c])
  BY <1>4, <1>5, <1>6, <1>7 DEF ForkFits
<1>10. /\ forks' \in [DOMAIN forks' -> Socket] /\ DOMAIN forks' = DOMAIN forks
       /\ forks'[c] = f /\ \A x \in DOMAIN forks : x # c => forks'[x] = forks[x]
  BY <1>1, <1>2, <1>4, <1>7
<1>11. Kept(offered)
  <2>1. \A x \in DOMAIN forks : /\ forks'[x].enabled = forks[x].enabled
                                /\ forks'[x].round = forks[x].round
    BY <1>6, <1>7, <1>10
  <2> QED  BY <1>1, <1>2, <1>10, <2>1 DEF Kept
<1>12. ForkingFits'
  <2>1. \A i \in DOMAIN forking :
           LET x == forking[i].client
           IN  /\ x \in DOMAIN forks /\ forks[x].state = "LISTEN"
               /\ forking[i].ecn = (clients[x].useEcn = "On")
    BY <1>2 DEF ForkingFits
  <2>2. \A i, j \in DOMAIN forking : i # j => forking[i].client # forking[j].client
    BY <1>2 DEF ForkingFits
  <2>3. \A i \in DOMAIN Tail(forking) : Tail(forking)[i].client # c
    BY <1>3, <2>2 DEF c
  <2>4. \A i \in DOMAIN Tail(forking) :
           LET x == Tail(forking)[i].client
           IN  /\ x \in DOMAIN forks' /\ forks'[x].state = "LISTEN"
               /\ Tail(forking)[i].ecn = (clients[x].useEcn = "On")
    BY <1>3, <1>10, <2>1, <2>3
  <2>5. \A i, j \in DOMAIN Tail(forking) :
           i # j => Tail(forking)[i].client # Tail(forking)[j].client
    BY <1>3, <2>2
  <2> QED  BY <1>1, <1>3, <2>4, <2>5 DEF ForkingFits
<1>13. \A x \in Clients : ClientFits(x, clients'[x], offered[x])
  BY <1>1 DEF Fits
<1>14. \A x \in DOMAIN forks' : x \in DOMAIN forks /\ ForkFits(x, forks'[x], offered[x])
  BY <1>9, <1>10 DEF Fits
<1> QED  BY <1>1, <1>2, <1>8, <1>10, <1>11, <1>12, <1>13, <1>14, StepFits

LEMMA ForkedFacts ==
  ASSUME NEW offered, Fits(offered), NEW c \in Forked
  PROVE  /\ c \in DOMAIN forks /\ c \in Clients /\ forks[c] \in Socket
         /\ forks[c].state \in {"SYN_RCVD", "ESTABLISHED"}
         /\ ForkFits(c, forks[c], offered[c])
BY DEF Fits, Forked, ForkFits

LEMMA SynAckTimeoutStep ==
  ASSUME NEW offered, Fits(offered), NEW c \in Clients, SynAckTimeout(c)
  PROVE  Fits(offered)'
<1> DEFINE s == forks[c]
           f == AfterSyn(s)
           ecn == s.ecn
           sent == SynSegment(c, s, "SYN+ACK", ecn)
           none == {}
<1>1. /\ c \in Forked /\ s.state = "SYN_RCVD" /\ BecomesFork(c, f)
      /\ Exchange(none, sent) /\ UNCHANGED <<listener, forking, clients>>
  BY DEF SynAckTimeout
<1>2. c \in DOMAIN forks /\ s \in Socket /\ ForkFits(c, s, offered[c])
  BY <1>1, ForkedFacts
<1>3. /\ f \in Socket /\ f.enabled = s.enabled /\ f.sndWindShift = s.sndWindShift
      /\ f.rWnd = s.rWnd /\ f.space = s.space /\ f.useEcn = s.useEcn /\ f.ecn = s.ecn
      /\ f.round = s.round /\ f.state \in {"CLOSED", "SYN_RCVD"}
      /\ "WINSCALE" \in f.enabled => f.rcvWindShift = CalculateWScale(f.space)
  BY <1>1, <1>2, AfterSynFacts
<1>4. ecn \in BOOLEAN /\ ecn = Wanted(c) /\ s.space = listener.space
  BY <1>1, <1>2 DEF ForkFits, Socket
<1>5. /\ sent \subseteq Segment
      /\ \A seg \in sent : SegmentFits(seg, offered[seg.client])
  <2> HIDE DEF ecn
  <2> QED  BY <1>2, <1>4, SynSegmentFits
<1>6. f.enabled = forks[c].enabled /\ f.round = forks[c].round
  BY <1>3
<1> HIDE DEF s, f, sent, none
<1>7. f.state # "CLOSED" => f.state # "LISTEN" /\ ForkFits(c, f, offered[c])
  BY <1>1, <1>2, <1>3 DEF ForkFits
<1> QED  BY <1>1, <1>3, <1>5, <1>6, <1>7, ForkStepFits

\* A SYN that comes again offers what the first one did.
LEMMA ReceiveSynForkedStep ==
  ASSUME NEW offered, Fits(offered), NEW c \in Clients, ReceiveSynForked(c)
  PROVE  Fits(offered)'
<1>1. PICK seg \in net :
        /\ seg.type = "SYN" /\ seg.client = c
        /\ LET ecn == forks[c].useEcn # "Off" /\ seg.ecn
               s   == ReceiveSyn(forks[c], seg)
               t   == [s EXCEPT !.ecn = ecn]
           IN  \/ /\ s.state = "SYN_RCVD"
                  /\ BecomesFork(c, AfterSyn(t))
                  /\ Exchange({seg}, SynSegment(c, t, "SYN+ACK", ecn))
               \/ /\ s.state = "ESTABLISHED"
                  /\ BecomesFork(c, s)
                  /\ Exchange({seg}, {})
  BY DEF ReceiveSynForked
<1> DEFINE ecn == forks[c].useEcn # "Off" /\ seg.ecn
           s == ReceiveSyn(forks[c], seg)
           t == [s EXCEPT !.ecn = ecn]
           f == AfterSyn(t)
           sent == SynSegment(c, t, "SYN+ACK", ecn)
           none == {}
<1>2. /\ c \in Forked /\ c \in DOMAIN forks /\ forks[c] \in Socket
      /\ ForkFits(c, forks[c], offered[c]) /\ seg \in Segment /\ SynFits(seg, offered[c])
      /\ UNCHANGED <<listener, forking, clients>>
  BY <1>1, ForkedFacts DEF Fits, SegmentFits, ReceiveSynForked
<1>3. \/ s.state = "SYN_RCVD" /\ BecomesFork(c, f) /\ Exchange({seg}, sent)
      \/ s.state = "ESTABLISHED" /\ BecomesFork(c, s) /\ Exchange({seg}, none)
  BY <1>1
<1>4. /\ s \in Socket /\ s.rWnd = seg.win /\ s.enabled = forks[c].enabled
      /\ "WINSCALE" \in s.enabled => s.sndWindShift = seg.scale
      /\ s.state = forks[c].state /\ s.rcvWindShift = forks[c].rcvWindShift
      /\ s.space = forks[c].space /\ s.useEcn = forks[c].useEcn
      /\ s.ecn = forks[c].ecn /\ s.round = forks[c].round
  <2>1. forks[c].enabled \cap seg.opts = forks[c].enabled
    BY <1>2 DEF ForkFits, SynFits
  <2> QED  BY <1>2, <2>1, ReceiveSynFacts
<1>5. ecn \in BOOLEAN /\ ecn = Wanted(c)
  BY <1>1, <1>2 DEF ForkFits, SynFits, Wanted
<1>6. "WINSCALE" \in s.enabled => /\ s.sndWindShift = CalculateWScale(clients[c].space)
                                  /\ s.rWnd <= clients[c].space
  BY <1>1, <1>2, <1>4 DEF ForkFits, SynFits
<1> HIDE DEF ecn, s, none
<1>7. /\ t \in Socket /\ t.rWnd = s.rWnd /\ t.enabled = s.enabled
      /\ t.sndWindShift = s.sndWindShift /\ t.state = s.state /\ t.space = s.space
      /\ t.useEcn = s.useEcn /\ t.ecn = ecn /\ t.round = s.round
  BY <1>4, <1>5 DEF Socket
<1> HIDE DEF t
<1>8. CASE s.state = "SYN_RCVD" /\ BecomesFork(c, f) /\ Exchange({seg}, sent)
  <2>1. /\ f \in Socket /\ f.enabled = t.enabled /\ f.sndWindShift = t.sndWindShift
        /\ f.rWnd = t.rWnd /\ f.space = t.space /\ f.useEcn = t.useEcn /\ f.ecn = t.ecn
        /\ f.round = t.round /\ f.state \in {"CLOSED", "SYN_RCVD"}
        /\ "WINSCALE" \in f.enabled => f.rcvWindShift = CalculateWScale(f.space)
    BY <1>7, <1>8, AfterSynFacts
  <2>2. t.enabled = forks[c].enabled /\ t.round = forks[c].round /\ t.space = listener.space
    BY <1>2, <1>4, <1>7 DEF ForkFits
  <2>3. /\ sent \subseteq Segment
        /\ \A e \in sent : SegmentFits(e, offered[e.client])
    BY <1>2, <1>5, <1>7, <2>2, SynSegmentFits
  <2> HIDE DEF f, sent
  <2>4. f.state # "CLOSED" => f.state # "LISTEN" /\ ForkFits(c, f, offered[c])
    BY <1>2, <1>4, <1>5, <1>6, <1>7, <2>1 DEF ForkFits
  <2>5. f.enabled = forks[c].enabled /\ f.round = forks[c].round
    BY <2>1, <2>2
  <2> QED  BY <1>2, <1>8, <2>1, <2>3, <2>4, <2>5, ForkStepFits
<1>9. CASE s.state = "ESTABLISHED" /\ BecomesFork(c, s) /\ Exchange({seg}, none)
  <2>1. none \subseteq Segment /\ \A e \in none : SegmentFits(e, offered[e.client])
    BY DEF none
  <2>2. s.state # "LISTEN" /\ ForkFits(c, s, offered[c])
    BY <1>2, <1>4, <1>6, <1>9 DEF ForkFits
  <2> QED  BY <1>2, <1>4, <1>9, <2>1, <2>2, ForkStepFits
<1> QED  BY <1>3, <1>8, <1>9

\* An ACK offers no more than the buffer of the client, however it is shifted.
LEMMA ReceiveAckForkedStep ==
  ASSUME NEW offered, Fits(offered), NEW c \in Clients, ReceiveAckForked(c)
  PROVE  Fits(offered)'
<1>1. PICK seg \in net :
        /\ seg.type = "ACK" /\ seg.client = c
        /\ IF Heard(forks[c], seg)
           THEN BecomesFork(c, [UpdateWindowSize(forks[c], seg) EXCEPT
                                   !.state = "ESTABLISHED"])
           ELSE UNCHANGED forks
        /\ Exchange({seg}, {})
  BY DEF ReceiveAckForked
<1> DEFINE s == UpdateWindowSize(forks[c], seg)
           f == [s EXCEPT !.state = "ESTABLISHED"]
           none == {}
<1>2. /\ c \in Forked /\ c \in DOMAIN forks /\ forks[c] \in Socket /\ c \in Clients
      /\ forks[c].state # "LISTEN"
      /\ ForkFits(c, forks[c], offered[c]) /\ seg \in Segment /\ AckFits(seg, offered[c])
      /\ UNCHANGED <<listener, forking, clients>>
  BY <1>1, ForkedFacts DEF Fits, SegmentFits, ReceiveAckForked
<1>3. /\ Exchange({seg}, none) /\ none \subseteq Segment
      /\ \A e \in none : SegmentFits(e, offered[e.client])
  BY <1>1
<1>4. /\ s \in Socket /\ s.enabled = forks[c].enabled
      /\ s.sndWindShift = forks[c].sndWindShift
      /\ s.rcvWindShift = forks[c].rcvWindShift /\ s.space = forks[c].space
      /\ s.useEcn = forks[c].useEcn /\ s.ecn = forks[c].ecn /\ s.round = forks[c].round
      /\ \A most \in Nat :
            forks[c].rWnd <= most /\ seg.win * 2 ^ forks[c].sndWindShift <= most
               => s.rWnd <= most
  BY <1>2, UpdateWindowSizeFacts
<1>5. CASE BecomesFork(c, f)
  <2> HIDE DEF s, none
  <2>1. /\ f \in Socket /\ f.state = "ESTABLISHED" /\ f.enabled = s.enabled
        /\ f.sndWindShift = s.sndWindShift /\ f.rcvWindShift = s.rcvWindShift
        /\ f.space = s.space /\ f.useEcn = s.useEcn /\ f.ecn = s.ecn
        /\ f.round = s.round /\ f.rWnd = s.rWnd
    BY <1>4 DEF Socket
  <2>2. "WINSCALE" \in f.enabled => f.rWnd <= clients[c].space
    <3> SUFFICES ASSUME "WINSCALE" \in f.enabled PROVE f.rWnd <= clients[c].space
      OBVIOUS
    <3>1. /\ "WINSCALE" \in forks[c].enabled /\ "WINSCALE" \in offered[c]
          /\ forks[c].sndWindShift = CalculateWScale(clients[c].space)
          /\ forks[c].rWnd <= clients[c].space
      BY <1>2, <1>4, <2>1 DEF ForkFits
    <3>2. seg.win * 2 ^ forks[c].sndWindShift <= clients[c].space
      BY <1>1, <1>2, <3>1 DEF AckFits
    <3>3. clients[c].space \in Nat
      BY <1>2 DEF Fits, Socket
    <3> QED  BY <1>4, <2>1, <3>1, <3>2, <3>3
  <2> HIDE DEF f
  <2>3. ForkFits(c, f, offered[c])
    BY <1>2, <1>4, <2>1, <2>2 DEF ForkFits
  <2>4. f.enabled = forks[c].enabled /\ f.round = forks[c].round
    BY <1>4, <2>1
  <2> QED  BY <1>2, <1>3, <1>5, <2>1, <2>3, <2>4, ForkStepFits
<1>6. CASE UNCHANGED forks
  <2> HIDE DEF none
  <2> QED  BY <1>2, <1>3, <1>6, NetStepFits
<1> QED  BY <1>1, <1>5, <1>6

LEMMA ReceiveRstStep ==
  ASSUME NEW offered, Fits(offered), NEW c \in Clients, ReceiveRst(c)
  PROVE  Fits(offered)'
<1>1. PICK seg \in net : Exchange({seg}, {})
  BY DEF ReceiveRst
<1> DEFINE f == [forks[c] EXCEPT !.state = "CLOSED"]
           none == {}
<1>2. /\ Exchange({seg}, none) /\ none \subseteq Segment
      /\ \A e \in none : SegmentFits(e, offered[e.client])
  BY <1>1
<1> HIDE DEF none
<1>3. UNCHANGED <<listener, forking, clients>>
  BY DEF ReceiveRst
<1>4. CASE c \in Forked /\ BecomesFork(c, f)
  <2>1. forks[c] \in Socket
    BY <1>4, ForkedFacts
  <2>2. /\ f \in Socket /\ f.state = "CLOSED"
        /\ f.enabled = forks[c].enabled /\ f.round = forks[c].round
    BY <2>1 DEF Socket
  <2> HIDE DEF f
  <2> QED  BY <1>2, <1>3, <1>4, <2>2, ForkStepFits
<1>5. CASE UNCHANGED forks
  BY <1>2, <1>3, <1>5, NetStepFits
<1> QED  BY <1>4, <1>5 DEF ReceiveRst

-----------------------------------------------------------------------------
(***************************************************************************)
(* The invariant                                                           *)
(***************************************************************************)
LEMMA NewSocketFacts ==
  ASSUME NEW setting \in Setting, NEW state \in {"CLOSED", "LISTEN"}
  PROVE  LET s == NewSocket(setting, state)
         IN  /\ s \in Socket /\ s.state = state /\ s.enabled = setting.enabled
             /\ s.round = 0
<1>1. 0 \in 0 .. MaxShift /\ SynRetries \in 0 .. SynRetries /\ 0 \in Nat
  BY RetryAssumption DEF MaxShift
<1> QED  BY <1>1 DEF NewSocket, Socket, Setting

LEMMA InitFits == Init => IInv
<1> SUFFICES ASSUME Init PROVE IInv
  OBVIOUS
<1>1. PICK setting \in ListenerSettings : listener = NewSocket(setting, "LISTEN")
  BY DEF Init
<1>2. PICK settings \in [Clients -> ClientSettings] :
         clients = [c \in Clients |-> NewSocket(settings[c], "CLOSED")]
  BY DEF Init
<1>3. forks = << >> /\ forking = << >> /\ net = {}
  BY DEF Init
<1> DEFINE offered == [c \in Clients |-> settings[c].enabled]
<1>4. listener \in Socket /\ listener.state = "LISTEN" /\ listener.round = 0
  BY <1>1, NewSocketFacts, SettingAssumption
<1>5. ASSUME NEW c \in Clients
      PROVE  /\ clients[c] \in Socket /\ clients[c].state = "CLOSED"
             /\ clients[c].enabled = offered[c] /\ clients[c].round = 0
             /\ offered[c] \subseteq Options
  <2>1. settings[c] \in Setting
    BY <1>2, SettingAssumption
  <2>2. settings[c].enabled \subseteq Options
    BY <2>1 DEF Setting
  <2>3. clients[c] = NewSocket(settings[c], "CLOSED")
    BY <1>2
  <2> QED  BY <2>1, <2>2, <2>3, NewSocketFacts
<1>6. offered \in [Clients -> SUBSET Options] /\ clients \in [Clients -> Socket]
  <2>1. clients = [c \in Clients |-> clients[c]]
    BY <1>2
  <2> QED  BY <1>5, <2>1
<1> HIDE DEF offered
<1>7. /\ DOMAIN forks = {} /\ forks \in [DOMAIN forks -> Socket]
      /\ DOMAIN forking = {} /\ forking \in Seq([client : Clients, ecn : BOOLEAN])
  BY <1>3
<1>8. \A c \in Clients : ClientFits(c, clients[c], offered[c])
  BY <1>4, <1>5 DEF ClientFits
<1>9. ForkingFits
  BY <1>7 DEF ForkingFits
<1>10. Fits(offered)
  BY <1>3, <1>4, <1>6, <1>7, <1>8, <1>9 DEF Fits
<1> QED  BY <1>6, <1>10 DEF IInv

LEMMA NextFits ==
  ASSUME NEW offered, Fits(offered), [Next]_vars
  PROVE  Fits(offered)'
<1>1. CASE Next
  <2>1. ASSUME NEW c \in Clients, Connect(c) \/ SynTimeout(c) PROVE Fits(offered)'
    BY <2>1, SendSynStep DEF Connect, SynTimeout
  <2> QED
    BY <1>1, <2>1, ReceiveSynAckStep, ClientSendsStep, ReceiveSynListeningStep,
       ReceiveSynForkedStep, SynAckTimeoutStep, ReceiveAckForkedStep,
       ReceiveAckListeningStep, ReceiveRstStep, CompleteForkStep, LoseStep DEF Next
<1>2. CASE UNCHANGED vars
  <2>1. /\ UNCHANGED <<listener, forks, forking, clients, net>>
    BY <1>2 DEF vars
  <2> QED
    BY <2>1 DEF Fits, ForkingFits, ClientFits, ForkFits, SegmentFits, SynFits, SynAckFits,
                AckFits, Wanted
<1> QED  BY <1>1, <1>2

\* IInv holds in every state.
THEOREM Inductive == Spec => []IInv
<1>1. IInv /\ [Next]_vars => IInv'
  <2> SUFFICES ASSUME IInv, [Next]_vars PROVE IInv'
    OBVIOUS
  <2>1. PICK offered \in [Clients -> SUBSET Options] : Fits(offered)
    BY DEF IInv
  <2>2. Fits(offered)'
    BY <2>1, NextFits
  <2> QED  BY <2>2 DEF IInv
<1> QED  BY InitFits, <1>1, PTL DEF Spec

-----------------------------------------------------------------------------
(***************************************************************************)
(* The properties                                                          *)
(***************************************************************************)
\* The sockets and the segments have their types, the listener always listens, and every
\* scheduled copy is still waiting for its call.
THEOREM TypeCorrect == Spec => []TypeOK
<1>1. IInv => TypeOK
  BY DEF IInv, Fits, ForkFits, ForkingFits, TypeOK
<1> QED  BY Inductive, <1>1, PTL

\* The ends of a connection have the same options, and shift each other's windows by what
\* the other one shifts them.
THEOREM SameOptions == Spec => []OptionsAgreed
<1>1. IInv => OptionsAgreed
  <2> SUFFICES ASSUME NEW offered, Fits(offered), NEW c \in Connected
               PROVE  /\ clients[c].enabled = forks[c].enabled
                      /\ "WINSCALE" \in forks[c].enabled =>
                            /\ forks[c].sndWindShift = clients[c].rcvWindShift
                            /\ clients[c].sndWindShift = forks[c].rcvWindShift
                            /\ clients[c].rWnd <= forks[c].space
                            /\ forks[c].rWnd <= clients[c].space
    BY DEF IInv, OptionsAgreed
  <2>1. /\ c \in Forked /\ c \in Clients /\ ClientFits(c, clients[c], offered[c])
        /\ clients[c].state = "ESTABLISHED" /\ clients[c].round = forks[c].round
        /\ c \in DOMAIN forks /\ ForkFits(c, forks[c], offered[c])
        /\ forks[c].state # "LISTEN"
    BY ForkedFacts DEF Connected, Fits
  <2> QED  BY <2>1 DEF ClientFits, ForkFits
<1> QED  BY Inductive, <1>1, PTL

\* Both ends of a connection use ECN, or neither does.
THEOREM SameEcn == Spec => []EcnAgreed
<1>1. IInv => EcnAgreed
  <2> SUFFICES ASSUME NEW offered, Fits(offered), NEW c \in Connected
               PROVE  clients[c].ecn = forks[c].ecn
    BY DEF IInv, EcnAgreed
  <2>1. /\ c \in Forked /\ c \in Clients /\ ClientFits(c, clients[c], offered[c])
        /\ clients[c].state = "ESTABLISHED" /\ ForkFits(c, forks[c], offered[c])
        /\ forks[c].state # "LISTEN"
    BY ForkedFacts DEF Connected, Fits
  <2> QED  BY <2>1 DEF ClientFits, ForkFits
<1> QED  BY Inductive, <1>1, PTL
=============================================================================
