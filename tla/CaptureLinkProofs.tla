-------------------------- MODULE CaptureLinkProofs -------------------------
(***************************************************************************)
(* Proofs about CaptureLink: for any number of threads, sessions, sizes    *)
(* and versions UU draws whole and fresh frames, and a connection that is  *)
(* kept is clean.                                                          *)
(*                                                                         *)
(* The invariant says who may use the connection (Locking), which sessions *)
(* are alive (Serving), that nothing old is published or sent after        *)
(* something newer (Ordered), and what the connection may hold at each     *)
(* point of a request (Talking).                                           *)
(***************************************************************************)
EXTENDS CaptureLink, SequenceTheorems, TLAPS

Inside == {"connect", "auth", "send", "header", "pixels"}

\* capture_lock is held from the connection to the last pixel, and the connection
\* is there once it has been made.
Locking ==
    /\ \A t \in Threads :
         /\ lock = t <=> pc[t] \in Inside
         /\ pc[t] = "connect" => connection = NoSession
         /\ pc[t] \in Inside \ {"connect"} => connection # NoSession
    /\ connection = NoSession => ~valid

\* A session lives as long as its link, or longer than the hook wants it; only the
\* hook's own connection can be read from.
Serving ==
    /\ \A s \in Sessions :
         /\ link[s] \in {"open", "shut"} <=> s = connection /\ valid
         /\ link[s] \in {"open", "abandoned"} <=> session[s] # "none"
         /\ link[s] \in {"none", "abandoned"} => replies[s] = <<>>
         /\ link[s] \in {"none", "shut"} => requests[s] = <<>>
         /\ requests[s] \in {<<>>, <<"auth">>, <<"frame">>}
         /\ session[s] \in {"grab", "grabbed", "serve"} => authenticated[s]
         /\ authenticated[s] => token \in {NoToken, HookToken}
    /\ \A g \in Grabbers :
         /\ session[g] # "none" => running
         /\ session[g] \in {"grab", "grabbed"} => onRequest
         /\ session[g] = "grabbed" => kwin = g /\ grabbed[g] # NoFrame /\ grabbed[g].version >= frame.version
    /\ session[Main] \in {"none", "grab", "grabbed"}
    /\ ~running => frame = NoFrame /\ \A s \in Sessions : ~authenticated[s]

\* Whatever is published from now on is at least as new as v.
Above(v) ==
    /\ desktop.version >= v
    /\ frame # NoFrame => frame.version >= v
    /\ \A g \in Grabbers : session[g] = "grabbed" => grabbed[g].version >= v

Ordered ==
    /\ desktop.size \in Sizes
    /\ desktop.version >= frame.version
    /\ \A g \in Grabbers : desktop.version >= grabbed[g].version
    /\ Above(latest)
    /\ \A t \in Threads : Above(asked[t])

Yes(f)    == [kind |-> "reply", ok |-> TRUE, size |-> f.size]
No        == [kind |-> "reply", ok |-> FALSE, size |-> NoSize]
Pixel(f)  == [kind |-> "pixels", frame |-> f]
Auth(b)   == [kind |-> "auth", ok |-> b]

\* A frame that may answer thread t.
Answers(f, t) == f # NoFrame /\ f.version >= asked[t] /\ Above(f.version)

AuthAnswers == {<<>>} \cup {<<Auth(b)>> : b \in BOOLEAN}
HeaderAnswers(t) ==
    {<<>>} \cup {q \in {<<No>>} : ~had[t]}
    \cup UNION {{<<Yes(f)>>, <<Yes(f), Pixel(f)>>} : f \in {g \in Frames : Answers(g, t)}}
PixelAnswers(t) ==
    {<<>>} \cup {<<Pixel(f)>> : f \in {g \in Frames : Answers(g, t) /\ g.size = reply[t]}}

\* The session of connection c has nothing to do.
Waiting(c) == link[c] = "open" => requests[c] = <<>> /\ session[c] = "read"

Talking(c) ==
    /\ lock = NoThread =>
         replies[c] = <<>> /\ Waiting(c) /\ (link[c] = "open" => authenticated[c])
    /\ \A t \in Threads :
         /\ pc[t] = "auth" =>
              /\ replies[c] \in AuthAnswers
              /\ link[c] = "open" =>
                   /\ session[c] = "read"
                   /\ requests[c] = <<>> \/ (requests[c] = <<"auth">> /\ replies[c] = <<>>)
         /\ pc[t] = "send" => replies[c] = <<>> /\ Waiting(c)
         /\ pc[t] = "header" =>
              /\ replies[c] \in HeaderAnswers(t)
              /\ link[c] = "open" =>
                   /\ had[t] => frame # NoFrame
                   /\ \/ requests[c] = <<"frame">> /\ session[c] = "read" /\ replies[c] = <<>>
                      \/ /\ requests[c] = <<>> /\ authenticated[c]
                         /\ session[c] # "read" => replies[c] = <<>>
         /\ pc[t] = "pixels" =>
              /\ replies[c] \in PixelAnswers(t)
              /\ Waiting(c) /\ (link[c] = "open" => authenticated[c])

Drawn ==
    \A t \in Threads :
      pc[t] = "blit" => got[t] # NoFrame /\ got[t].size = reply[t] /\ got[t].version >= asked[t]

IInv ==
    /\ TypeOK /\ Locking /\ Serving /\ Ordered
    /\ \A c \in Sessions : connection = c => Talking(c)
    /\ Drawn

-----------------------------------------------------------------------------

\* Sequences of at most two messages.
LEMMA Short ==
    \A a, b :
      /\ <<a>> # <<>> /\ Head(<<a>>) = a /\ Tail(<<a>>) = <<>> /\ Len(<<a>>) = 1
      /\ <<a, b>> # <<>> /\ Head(<<a, b>>) = a /\ Tail(<<a, b>>) = <<b>> /\ Len(<<a, b>>) = 2
      /\ Append(<<>>, a) = <<a>> /\ <<>> \o <<a>> = <<a>> /\ <<>> \o <<a, b>> = <<a, b>>
      /\ SubSeq(<<a>>, 1, 0) = <<>> /\ SubSeq(<<a, b>>, 1, 0) = <<>> /\ SubSeq(<<a, b>>, 1, 1) = <<a>>
<1> TAKE a, b
<1>1. /\ <<a>> # <<>> /\ Head(<<a>>) = a /\ Tail(<<a>>) = <<>> /\ Len(<<a>>) = 1
      /\ <<a, b>> # <<>> /\ Head(<<a, b>>) = a /\ Tail(<<a, b>>) = <<b>> /\ Len(<<a, b>>) = 2
  OBVIOUS
<1>2. Append(<<>>, a) = <<a>> /\ <<>> \o <<a>> = <<a>> /\ <<>> \o <<a, b>> = <<a, b>>
  OBVIOUS
<1>3. SubSeq(<<a>>, 1, 0) = <<>> /\ SubSeq(<<a, b>>, 1, 0) = <<>>
  OBVIOUS
<1>4. SubSeq(<<a, b>>, 1, 1) = <<a>>
  <2> DEFINE s == SubSeq(<<a, b>>, 1, 1)
  <2>1. s \in Seq({a, b}) /\ Len(s) = 1 /\ s[1] = a
    BY SubSeqProperties
  <2>2. <<a>> \in Seq({a, b}) /\ Len(<<a>>) = 1 /\ <<a>>[1] = a
    OBVIOUS
  <2>3. \A i \in 1..Len(s) : s[i] = <<a>>[i]
    BY <2>1, <2>2
  <2> HIDE DEF s
  <2>4. s = <<a>>
    BY <2>1, <2>2, <2>3, SeqEqual
  <2> QED
    BY <2>4 DEF s
<1> QED
  BY <1>1, <1>2, <1>3, <1>4

LEMMA Longer ==
    ASSUME NEW S, NEW q \in Seq(S), NEW a \in S, NEW b \in S
    PROVE  q \o <<a>> \in Seq(S) /\ q \o <<a, b>> \in Seq(S)
<1>1. <<a>> \in Seq(S) /\ <<a, b>> \in Seq(S)
  OBVIOUS
<1> QED
  BY <1>1, ConcatProperties

\* What the connection can hold, taken apart.
LEMMA HeaderTaken ==
    ASSUME NEW t \in Threads, NEW q \in HeaderAnswers(t), q # <<>>
    PROVE  /\ Head(q).kind = "reply"
           /\ ~Head(q).ok => ~had[t]
           /\ Head(q).ok =>
                \E f \in Frames : Answers(f, t) /\ Head(q).size = f.size /\ Tail(q) \in {<<>>, <<Pixel(f)>>}
<1>1. CASE q \in {p \in {<<No>>} : ~had[t]}
  BY <1>1, Short DEF No
<1>2. CASE \E f \in {g \in Frames : Answers(g, t)} : q \in {<<Yes(f)>>, <<Yes(f), Pixel(f)>>}
  <2>1. PICK f \in {g \in Frames : Answers(g, t)} : q \in {<<Yes(f)>>, <<Yes(f), Pixel(f)>>}
    BY <1>2
  <2>2. Head(q) = Yes(f) /\ Tail(q) \in {<<>>, <<Pixel(f)>>}
    BY <2>1, Short
  <2>3. Head(q).kind = "reply" /\ Head(q).ok /\ Head(q).size = f.size
    BY <2>2 DEF Yes
  <2> QED
    BY <2>1, <2>2, <2>3
<1> QED
  BY <1>1, <1>2 DEF HeaderAnswers

LEMMA PixelTaken ==
    ASSUME NEW t \in Threads, NEW q \in PixelAnswers(t), q # <<>>
    PROVE  /\ Head(q).frame \in Frames /\ Answers(Head(q).frame, t) /\ Head(q).frame.size = reply[t]
           /\ Tail(q) = <<>>
<1>1. PICK f \in {g \in Frames : Answers(g, t) /\ g.size = reply[t]} : q = <<Pixel(f)>>
  BY DEF PixelAnswers
<1>2. Head(q).frame = f /\ Tail(q) = <<>>
  BY <1>1, Short DEF Pixel
<1> QED
  BY <1>1, <1>2

LEMMA AuthTaken ==
    ASSUME NEW q \in AuthAnswers, q # <<>>
    PROVE  Tail(q) = <<>>
BY Short DEF AuthAnswers

\* What is left of an answer when the end of it is lost is an answer, or nothing.
LEMMA Cut ==
    ASSUME NEW t \in Threads, NEW n \in 0..2, NEW q, n < Len(q)
    PROVE  /\ q \in AuthAnswers => SubSeq(q, 1, n) \in AuthAnswers
           /\ q \in HeaderAnswers(t) => SubSeq(q, 1, n) \in HeaderAnswers(t)
           /\ q \in PixelAnswers(t) => SubSeq(q, 1, n) \in PixelAnswers(t)
<1>1. \A a : n < Len(<<a>>) => SubSeq(<<a>>, 1, n) = <<>>
  BY Short
<1>2. \A a, b : n < Len(<<a, b>>) => SubSeq(<<a, b>>, 1, n) \in {<<>>, <<a>>}
  BY Short
<1>3. ~(n < Len(<<>>))
  OBVIOUS
<1>4. q \in AuthAnswers => SubSeq(q, 1, n) \in AuthAnswers
  BY <1>1, <1>3 DEF AuthAnswers
<1>5. q \in HeaderAnswers(t) => SubSeq(q, 1, n) \in HeaderAnswers(t)
  BY <1>1, <1>2, <1>3 DEF HeaderAnswers
<1>6. q \in PixelAnswers(t) => SubSeq(q, 1, n) \in PixelAnswers(t)
  BY <1>1, <1>3 DEF PixelAnswers
<1> QED
  BY <1>4, <1>5, <1>6

\* An answer stays one as long as nothing older is published.
LEMMA AnswersStay ==
    ASSUME NEW t \in Threads, asked'[t] = asked[t], had'[t] = had[t],
           \A v \in Nat : Above(v) => Above(v)'
    PROVE  /\ HeaderAnswers(t) \subseteq HeaderAnswers(t)'
           /\ reply'[t] = reply[t] => PixelAnswers(t) \subseteq PixelAnswers(t)'
<1>1. \A f \in Frames : Answers(f, t) => Answers(f, t)'
  <2>1. \A f \in Frames : f.version \in Nat
    BY VersionAssumption DEF Frames
  <2> QED
    BY <2>1 DEF Answers
<1>2. HeaderAnswers(t) \subseteq HeaderAnswers(t)'
  BY <1>1 DEF HeaderAnswers, Yes, No, Pixel
<1>3. reply'[t] = reply[t] => PixelAnswers(t) \subseteq PixelAnswers(t)'
  BY <1>1 DEF PixelAnswers, Pixel
<1> QED
  BY <1>2, <1>3

\* Nothing older is published: what is in the helper's hands was up to date when it
\* was taken, or still is.
LEMMA NothingOlder ==
    ASSUME TypeOK, desktop'.version \in Nat, desktop'.version >= desktop.version,
           \/ frame' \in {frame, NoFrame, desktop}
           \/ \E g \in Grabbers : session[g] = "grabbed" /\ frame' = grabbed[g],
           \A g \in Grabbers : session'[g] = "grabbed" =>
             \/ session[g] = "grabbed" /\ grabbed'[g] = grabbed[g]
             \/ grabbed'[g] = desktop
    PROVE  \A v \in Nat : Above(v) => Above(v)'
<1> SUFFICES ASSUME NEW v \in Nat, Above(v) PROVE Above(v)'
  OBVIOUS
<1>1. desktop.version \in Nat /\ \A g \in Grabbers : grabbed[g].version \in Nat
  BY VersionAssumption DEF TypeOK, Frames
<1>2. desktop'.version >= v
  BY <1>1 DEF Above
<1>3. frame' # NoFrame => frame'.version >= v
  BY <1>1 DEF Above
<1>4. \A g \in Grabbers : session'[g] = "grabbed" => grabbed'[g].version >= v
  BY <1>1 DEF Above
<1> QED
  BY <1>2, <1>3, <1>4 DEF Above

LEMMA NothingTouched ==
    ASSUME UNCHANGED <<desktop, frame, session, grabbed>>
    PROVE  \A v \in Nat : Above(v) => Above(v)'
BY DEF Above

\* The connection goes on as it was when a step leaves it and its session alone.
LEMMA TalkingStays ==
    ASSUME NEW c \in Sessions, Talking(c), UNCHANGED <<lock, pc, reply, asked, had>>,
           UNCHANGED <<replies[c], requests[c], link[c], authenticated[c]>>,
           session[c] = "read" <=> session'[c] = "read",
           frame # NoFrame => frame' # NoFrame,
           \A v \in Nat : Above(v) => Above(v)'
    PROVE  Talking(c)'
<1>1. \A t \in Threads :
        HeaderAnswers(t) \subseteq HeaderAnswers(t)' /\ PixelAnswers(t) \subseteq PixelAnswers(t)'
  BY AnswersStay
<1>2. UNCHANGED AuthAnswers
  BY DEF AuthAnswers, Auth
<1> QED
  BY <1>1, <1>2 DEF Talking, Waiting

LEMMA NumbersTyped ==
    TypeOK => /\ latest \in Nat /\ frame.version \in Nat /\ desktop.version \in Nat
              /\ \A t \in Threads : asked[t] \in Nat
              /\ \A g \in Grabbers : grabbed[g].version \in Nat
BY VersionAssumption DEF TypeOK, Frames

LEMMA NobodyElse ==
    ASSUME Locking, NEW t \in Threads, lock = t
    PROVE  \A u \in Threads \ {t} : pc[u] \notin Inside
BY DEF Locking

-----------------------------------------------------------------------------
(* The hook *)

LEMMA CallKeeps ==
    ASSUME IInv, NEW t \in Threads, Call(t)
    PROVE  IInv'
<1>1. /\ pc[t] = "idle" /\ lock = NoThread /\ lock' = t
      /\ pc' = [pc EXCEPT ![t] = IF connection = NoSession THEN "connect" ELSE "send"]
      /\ UNCHANGED <<reply, got, asked, had, connection, valid, latest, stream, helper, desktop>>
  BY DEF Call, Goto
<1>2. TypeOK'
  BY <1>1 DEF IInv, TypeOK, stream, helper
<1>3. \A u \in Threads : pc[u] \notin Inside
  BY <1>1, NoneAssumption DEF IInv, Locking
<1>4. Locking'
  BY <1>1, <1>3, NoneAssumption DEF IInv, TypeOK, Locking, Inside
<1>5. Serving'
  BY <1>1 DEF IInv, Serving, stream, helper
<1>6. \A v \in Nat : Above(v) => Above(v)'
  BY <1>1, NothingTouched DEF helper
<1>7. Ordered'
  BY <1>1, <1>6, NumbersTyped DEF IInv, Ordered, helper
<1>8. ASSUME NEW c \in Sessions, connection' = c
      PROVE  Talking(c)'
  <2>1. replies[c] = <<>> /\ Waiting(c)
    BY <1>1, <1>8 DEF IInv, Talking
  <2>2. \A u \in Threads : pc'[u] \in Inside => pc'[u] = "send"
    BY <1>1, <1>3, <1>8, NoneAssumption DEF IInv, TypeOK, Inside
  <2> QED
    BY <1>1, <2>1, <2>2, NoneAssumption DEF Talking, Waiting, Inside, stream, helper
<1>9. Drawn'
  BY <1>1 DEF IInv, TypeOK, Drawn
<1> QED
  BY <1>2, <1>4, <1>5, <1>7, <1>8, <1>9 DEF IInv

LEMMA RequestFailsKeeps ==
    ASSUME IInv, NEW t \in Threads, pc[t] \in Inside, RequestFails(t)
    PROVE  IInv'
<1>1. /\ connection' = NoSession /\ valid' = FALSE /\ lock' = NoThread
      /\ pc' = [pc EXCEPT ![t] = "idle"]
      /\ reply' = [reply EXCEPT ![t] = NoSize] /\ got' = [got EXCEPT ![t] = NoFrame]
      /\ asked' = [asked EXCEPT ![t] = 0] /\ had' = [had EXCEPT ![t] = FALSE]
      /\ UNCHANGED <<latest, requests, helper, desktop>>
  BY DEF RequestFails, Goto, Forget
<1>2. \A s \in Sessions :
        /\ link'[s] = IF s = connection
                      THEN CASE link[s] = "open" -> "abandoned" [] link[s] = "shut" -> "none" [] OTHER -> link[s]
                      ELSE link[s]
        /\ replies'[s] = IF s = connection THEN <<>> ELSE replies[s]
  BY NoneAssumption DEF RequestFails, IInv, TypeOK
<1>3. link' \in [Sessions -> {"none", "open", "abandoned", "shut"}] /\ replies' \in [Sessions -> Seq(Replies)]
  <2>1. CASE connection = NoSession
    BY <2>1 DEF RequestFails, IInv, TypeOK
  <2>2. CASE connection # NoSession
    <3> DEFINE x == CASE link[connection] = "open" -> "abandoned" [] link[connection] = "shut" -> "none"
                      [] OTHER -> link[connection]
    <3>1. connection \in Sessions /\ x \in {"none", "open", "abandoned", "shut"}
      BY <2>2 DEF IInv, TypeOK
    <3>2. link' = [link EXCEPT ![connection] = x] /\ replies' = [replies EXCEPT ![connection] = <<>>]
      BY <2>2 DEF RequestFails
    <3> HIDE DEF x
    <3> QED
      BY <3>1, <3>2 DEF IInv, TypeOK
  <2> QED
    BY <2>1, <2>2
<1>4. TypeOK'
  <2>1. NoFrame \in Frames /\ 0 \in 0..MaxVersion
    BY VersionAssumption DEF Frames, NoFrame
  <2> QED
    BY <1>1, <1>3, <2>1 DEF IInv, TypeOK, helper
<1>5. lock = t /\ \A u \in Threads \ {t} : pc[u] \notin Inside
  BY NobodyElse DEF IInv, Locking
<1>6. Locking'
  BY <1>1, <1>5, NoneAssumption DEF IInv, TypeOK, Locking, Inside
<1>7. Serving'
  BY <1>1, <1>2, NoneAssumption DEF IInv, TypeOK, Serving, helper
<1>8. \A v \in Nat : Above(v) => Above(v)'
  BY <1>1, NothingTouched DEF helper
<1>9. Ordered'
  <2>1. Above(0)
    BY NumbersTyped DEF IInv, Above
  <2> QED
    BY <1>1, <1>8, <2>1, NumbersTyped DEF IInv, TypeOK, Ordered, helper
<1>10. Drawn'
  BY <1>1 DEF IInv, TypeOK, Drawn
<1> QED
  BY <1>1, <1>4, <1>6, <1>7, <1>9, <1>10, NoneAssumption DEF IInv

LEMMA ConnectKeeps ==
    ASSUME IInv, NEW t \in Threads, Connect(t)
    PROVE  IInv'
<1>1. CASE RequestFails(t)
  BY <1>1, RequestFailsKeeps DEF Connect, Inside
<1>2. CASE ~RequestFails(t)
  <2>1. PICK s \in Sessions :
          /\ running /\ link[s] = "none" /\ connection' = s /\ valid' = TRUE
          /\ pc' = [pc EXCEPT ![t] = IF HookToken = NoToken THEN "send" ELSE "auth"]
          /\ \/ /\ link' = [link EXCEPT ![s] = "open"]
                /\ session' = [session EXCEPT ![s] = "read"]
                /\ requests' = [requests EXCEPT ![s] = IF HookToken = NoToken THEN <<>> ELSE <<"auth">>]
                /\ authenticated' = [authenticated EXCEPT ![s] = (token = NoToken)]
             \/ /\ link' = [link EXCEPT ![s] = "shut"]
                /\ UNCHANGED <<session, requests, authenticated>>
          /\ UNCHANGED <<reply, got, asked, had, lock, latest, replies, running, token,
                         onRequest, frame, kwin, grabbed, desktop>>
    BY <1>2 DEF Connect, Goto
  <2>2. pc[t] = "connect" /\ connection = NoSession /\ ~valid /\ lock = t
    BY DEF Connect, IInv, Locking, Inside
  <2>3. replies[s] = <<>> /\ requests[s] = <<>> /\ session[s] = "none"
    BY <2>1, <2>2 DEF IInv, Serving
  <2>4. s \in Grabbers /\ s # Main /\ s # NoSession
    BY NoneAssumption DEF Grabbers
  <2>5. TypeOK'
    <3>1. requests' \in [Sessions -> Seq({"auth", "frame"})]
      <4>1. <<>> \in Seq({"auth", "frame"}) /\ <<"auth">> \in Seq({"auth", "frame"})
        OBVIOUS
      <4>2. requests' = requests \/ requests' = [requests EXCEPT ![s] = <<>>]
              \/ requests' = [requests EXCEPT ![s] = <<"auth">>]
        BY <2>1
      <4> QED
        BY <4>1, <4>2 DEF IInv, TypeOK
    <3>2. session' \in [Grabbers -> {"none", "read", "grab", "grabbed", "serve"}]
      BY <2>1 DEF IInv, TypeOK
    <3> QED
      BY <2>1, <3>1, <3>2 DEF IInv, TypeOK
  <2>6. \A u \in Threads \ {t} : pc[u] \notin Inside
    BY <2>2, NobodyElse DEF IInv
  <2>7. Locking'
    BY <2>1, <2>2, <2>4, <2>6 DEF IInv, TypeOK, Locking, Inside
  <2>8. Serving'
    <3>1. \A r \in Sessions \ {s} : /\ link'[r] = link[r] /\ session'[r] = session[r] /\ requests'[r] = requests[r]
                                    /\ authenticated'[r] = authenticated[r]
      <4>1. CASE UNCHANGED <<session, requests, authenticated>>
        BY <2>1, <4>1 DEF IInv, TypeOK
      <4>2. CASE /\ link' = [link EXCEPT ![s] = "open"]
                 /\ session' = [session EXCEPT ![s] = "read"]
                 /\ requests' = [requests EXCEPT ![s] = IF HookToken = NoToken THEN <<>> ELSE <<"auth">>]
                 /\ authenticated' = [authenticated EXCEPT ![s] = (token = NoToken)]
        BY <4>2 DEF IInv, TypeOK, Grabbers
      <4> QED
        BY <2>1, <4>1, <4>2
    <3>2. \A g \in Grabbers \ {s} : session'[g] = session[g]
      BY <2>1 DEF IInv, TypeOK
    <3>3. \/ link'[s] = "open" /\ session'[s] = "read" /\ requests'[s] \in {<<>>, <<"auth">>}
                               /\ authenticated'[s] = (token = NoToken)
          \/ link'[s] = "shut" /\ session'[s] = "none" /\ requests'[s] = <<>> /\ authenticated'[s] = authenticated[s]
      BY <2>1, <2>3, <2>4 DEF IInv, TypeOK
    <3>4. \A r \in Sessions : link[r] \notin {"open", "shut"}
      BY <2>2 DEF IInv, Serving
    <3>5. UNCHANGED <<replies, running, token, onRequest, frame, kwin, grabbed>> /\ connection' = s /\ valid' /\ running
      BY <2>1
    <3>6. \A r \in Sessions :
            /\ link'[r] \in {"open", "shut"} <=> r = connection' /\ valid'
            /\ link'[r] \in {"open", "abandoned"} <=> session'[r] # "none"
            /\ link'[r] \in {"none", "abandoned"} => replies'[r] = <<>>
            /\ link'[r] \in {"none", "shut"} => requests'[r] = <<>>
            /\ requests'[r] \in {<<>>, <<"auth">>, <<"frame">>}
            /\ session'[r] \in {"grab", "grabbed", "serve"} => authenticated'[r]
            /\ authenticated'[r] => token' \in {NoToken, HookToken}
      BY <2>3, <3>1, <3>3, <3>4, <3>5 DEF IInv, Serving
    <3>7. \A g \in Grabbers :
            /\ session'[g] # "none" => running'
            /\ session'[g] \in {"grab", "grabbed"} => session[g] = session'[g]
      BY <2>4, <3>2, <3>3, <3>5 DEF IInv, Serving
    <3>8. session'[Main] = session[Main]
      BY <2>4, <3>2 DEF Grabbers
    <3> QED
      BY <3>5, <3>6, <3>7, <3>8 DEF IInv, Serving
  <2>9. \A v \in Nat : Above(v) => Above(v)'
    BY <2>1, NothingOlder, NumbersTyped DEF IInv, TypeOK
  <2>10. Ordered'
    BY <2>1, <2>9, NumbersTyped DEF IInv, Ordered
  <2>11. Talking(s)'
    <3>1. lock' # NoThread
      BY <2>1, <2>2, NoneAssumption
    <3>2. \A u \in Threads : pc'[u] \in Inside => u = t /\ pc'[u] \in {"send", "auth"}
      BY <2>1, <2>6 DEF IInv, TypeOK, Inside
    <3>3. /\ replies'[s] = <<>>
          /\ link'[s] = "open" =>
               /\ session'[s] = "read"
               /\ pc'[t] = "send" => requests'[s] = <<>>
               /\ requests'[s] \in {<<>>, <<"auth">>}
      BY <2>1, <2>3, <2>4 DEF IInv, TypeOK
    <3> QED
      BY <3>1, <3>2, <3>3 DEF Talking, Waiting, Inside, AuthAnswers
  <2>12. Drawn'
    BY <2>1 DEF IInv, TypeOK, Drawn
  <2> QED
    BY <2>1, <2>5, <2>7, <2>8, <2>10, <2>11, <2>12 DEF IInv
<1> QED
  BY <1>1, <1>2

LEMMA AuthReplyKeeps ==
    ASSUME IInv, NEW t \in Threads, AuthReply(t)
    PROVE  IInv'
<1>1. CASE RequestFails(t)
  BY <1>1, RequestFailsKeeps DEF AuthReply, Inside
<1>2. CASE ~RequestFails(t)
  <2>1. /\ pc[t] = "auth" /\ replies[connection] # <<>>
        /\ replies' = [replies EXCEPT ![connection] = Tail(@)]
        /\ pc' = [pc EXCEPT ![t] = "send"]
        /\ UNCHANGED <<reply, got, asked, had, lock, connection, valid, latest, link, requests, helper, desktop>>
    BY <1>2 DEF AuthReply, Incoming, Receive, Goto
  <2>2. /\ connection \in Sessions /\ Talking(connection) /\ lock = t
        /\ \A u \in Threads \ {t} : pc[u] \notin Inside
    BY <2>1, NobodyElse DEF IInv, TypeOK, Locking, Inside
  <2>3. replies'[connection] = <<>> /\ Waiting(connection)
    BY <2>1, <2>2, AuthTaken DEF IInv, TypeOK, Talking, Waiting
  <2>4. TypeOK'
    <3>1. replies' \in [Sessions -> Seq(Replies)]
      BY <2>1, <2>2, <2>3 DEF IInv, TypeOK
    <3> QED
      BY <2>1, <3>1 DEF IInv, TypeOK, helper
  <2>5. Locking'
    BY <2>1, <2>2 DEF IInv, TypeOK, Locking, Inside
  <2>6. Serving'
    BY <2>1, <2>2, <2>3 DEF IInv, TypeOK, Serving, helper
  <2>7. \A v \in Nat : Above(v) => Above(v)'
    BY <2>1, NothingTouched DEF helper
  <2>8. Ordered'
    BY <2>1, <2>7, NumbersTyped DEF IInv, Ordered, helper
  <2>9. ASSUME NEW c \in Sessions, connection' = c
        PROVE  Talking(c)'
    <3>1. \A u \in Threads : pc'[u] \in Inside => pc'[u] = "send"
      BY <2>1, <2>2 DEF IInv, TypeOK
    <3> QED
      BY <2>1, <2>2, <2>3, <2>9, <3>1, NoneAssumption DEF Talking, Waiting, Inside, helper
  <2>10. Drawn'
    BY <2>1 DEF IInv, TypeOK, Drawn
  <2> QED
    BY <2>4, <2>5, <2>6, <2>8, <2>9, <2>10 DEF IInv
<1> QED
  BY <1>1, <1>2

LEMMA SendKeeps ==
    ASSUME IInv, NEW t \in Threads, Send(t)
    PROVE  IInv'
<1>1. CASE RequestFails(t)
  BY <1>1, RequestFailsKeeps DEF Send, Inside
<1>2. CASE ~RequestFails(t)
  <2>1. /\ pc[t] = "send" /\ valid
        /\ requests' = IF link[connection] = "open"
                       THEN [requests EXCEPT ![connection] = Append(@, "frame")]
                       ELSE requests
        /\ asked' = [asked EXCEPT ![t] = Newest]
        /\ had' = [had EXCEPT ![t] = frame # NoFrame]
        /\ pc' = [pc EXCEPT ![t] = "header"]
        /\ UNCHANGED <<reply, got, lock, connection, valid, latest, link, replies, helper, desktop>>
    BY <1>2 DEF Send, Goto
  <2>2. /\ connection \in Sessions /\ Talking(connection) /\ lock = t
        /\ \A u \in Threads \ {t} : pc[u] \notin Inside
    BY <2>1, NobodyElse DEF IInv, TypeOK, Locking, Inside
  <2>3. /\ replies[connection] = <<>> /\ Waiting(connection)
        /\ link[connection] = "open" => requests'[connection] = <<"frame">>
        /\ link[connection] # "open" => requests'[connection] = requests[connection]
        /\ \A s \in Sessions \ {connection} : requests'[s] = requests[s]
    BY <2>1, <2>2, Short DEF IInv, TypeOK, Talking, Waiting
  <2>4. Newest \in 0..MaxVersion /\ Above(Newest)
    BY NumbersTyped, VersionAssumption, NoneAssumption
       DEF Newest, IInv, TypeOK, Frames, Ordered, Above, Serving
  <2>5. TypeOK'
    <3>1. requests' \in [Sessions -> Seq({"auth", "frame"})]
      BY <2>1, <2>2 DEF IInv, TypeOK
    <3> QED
      BY <2>1, <2>4, <3>1 DEF IInv, TypeOK, helper
  <2>6. Locking'
    BY <2>1, <2>2 DEF IInv, TypeOK, Locking, Inside
  <2>7. Serving'
    BY <2>1, <2>2, <2>3 DEF IInv, Serving, helper
  <2>8. \A v \in Nat : Above(v) => Above(v)'
    BY <2>1, NothingTouched DEF helper
  <2>9. Ordered'
    BY <2>1, <2>4, <2>8, NumbersTyped, VersionAssumption DEF IInv, TypeOK, Ordered, helper
  <2>10. ASSUME NEW c \in Sessions, connection' = c
         PROVE  Talking(c)'
    <3>1. pc'[t] = "header" /\ \A u \in Threads : pc'[u] \in Inside => u = t
      BY <2>1, <2>2 DEF IInv, TypeOK
    <3>2. replies'[c] \in HeaderAnswers(t)'
      BY <2>1, <2>3, <2>10 DEF HeaderAnswers
    <3>3. link'[c] = "open" => requests'[c] = <<"frame">> /\ session'[c] = "read" /\ replies'[c] = <<>>
      BY <2>1, <2>3, <2>10 DEF Waiting, helper
    <3>4. had'[t] => frame' # NoFrame
      BY <2>1 DEF IInv, TypeOK, helper
    <3>5. lock' # NoThread
      BY <2>1, <2>2, NoneAssumption
    <3> QED
      BY <3>1, <3>2, <3>3, <3>4, <3>5 DEF Talking, Inside
  <2>11. Drawn'
    BY <2>1 DEF IInv, TypeOK, Drawn
  <2> QED
    BY <2>5, <2>6, <2>7, <2>9, <2>10, <2>11 DEF IInv
<1> QED
  BY <1>1, <1>2

LEMMA HeaderKeeps ==
    ASSUME IInv, NEW t \in Threads, Header(t)
    PROVE  IInv'
<1>1. CASE RequestFails(t)
  BY <1>1, RequestFailsKeeps DEF Header, Inside
<1>2. CASE ~RequestFails(t)
  <2>1. /\ pc[t] = "header" /\ replies[connection] # <<>> /\ Head(replies[connection]).ok
        /\ reply' = [reply EXCEPT ![t] = Head(replies[connection]).size]
        /\ replies' = [replies EXCEPT ![connection] = Tail(@)]
        /\ pc' = [pc EXCEPT ![t] = "pixels"]
        /\ UNCHANGED <<got, asked, had, lock, connection, valid, latest, link, requests, helper, desktop>>
    BY <1>2 DEF Header, Incoming, Receive, Goto
  <2>2. /\ connection \in Sessions /\ Talking(connection) /\ lock = t
        /\ \A u \in Threads \ {t} : pc[u] \notin Inside
    BY <2>1, NobodyElse DEF IInv, TypeOK, Locking, Inside
  <2>3. PICK f \in Frames :
          /\ Answers(f, t) /\ Head(replies[connection]).size = f.size
          /\ Tail(replies[connection]) \in {<<>>, <<Pixel(f)>>}
    BY <2>1, <2>2, HeaderTaken DEF Talking
  <2>4. /\ reply'[t] = f.size /\ replies'[connection] \in {<<>>, <<Pixel(f)>>}
        /\ \A s \in Sessions \ {connection} : replies'[s] = replies[s]
    BY <2>1, <2>2, <2>3 DEF IInv, TypeOK
  <2>5. TypeOK'
    <3>1. replies' \in [Sessions -> Seq(Replies)]
      BY <2>1, <2>2 DEF IInv, TypeOK
    <3>2. reply' \in [Threads -> Sizes \cup {NoSize}]
      BY <2>1, <2>3 DEF IInv, TypeOK, Frames
    <3> QED
      BY <2>1, <3>1, <3>2 DEF IInv, TypeOK, helper
  <2>6. Locking'
    BY <2>1, <2>2 DEF IInv, TypeOK, Locking, Inside
  <2>7. link[connection] \in {"open", "shut"}
    <3>1. CASE valid
      BY <2>2, <3>1 DEF IInv, Serving
    <3>2. CASE ~valid
      <4>1. link[connection] \notin {"open", "shut"} /\ link[connection] \in {"none", "abandoned"}
        BY <2>2, <3>2 DEF IInv, Serving, TypeOK
      <4> QED
        BY <2>1, <2>2, <4>1 DEF IInv, Serving
    <3> QED
      BY <3>1, <3>2
  <2>8. Serving'
    BY <2>1, <2>2, <2>4, <2>7 DEF IInv, Serving, helper
  <2>9. \A v \in Nat : Above(v) => Above(v)'
    BY <2>1, NothingTouched DEF helper
  <2>10. Ordered'
    BY <2>1, <2>9, NumbersTyped DEF IInv, Ordered, helper
  <2>11. ASSUME NEW c \in Sessions, connection' = c
         PROVE  Talking(c)'
    <3>1. c = connection
      BY <2>1, <2>11
    <3>2. pc'[t] = "pixels" /\ \A u \in Threads : pc'[u] \in Inside => u = t
      BY <2>1, <2>2 DEF IInv, TypeOK
    <3>3. replies'[c] \in PixelAnswers(t)'
      <4>1. f.version \in Nat
        BY VersionAssumption DEF Frames
      <4>2. Answers(f, t)'
        BY <2>1, <2>3, <2>9, <4>1 DEF Answers
      <4> QED
        BY <2>4, <3>1, <4>2 DEF PixelAnswers, Pixel
    <3>4. link[c] = "open" => requests[c] = <<>> /\ session[c] = "read" /\ authenticated[c]
      BY <2>1, <2>2, <3>1 DEF Talking
    <3>5. lock' # NoThread
      BY <2>1, <2>2, NoneAssumption
    <3> QED
      BY <2>1, <3>2, <3>3, <3>4, <3>5 DEF Talking, Waiting, Inside, helper
  <2>12. Drawn'
    BY <2>1 DEF IInv, TypeOK, Drawn
  <2> QED
    BY <2>5, <2>6, <2>8, <2>10, <2>11, <2>12 DEF IInv
<1> QED
  BY <1>1, <1>2

LEMMA PixelsKeeps ==
    ASSUME IInv, NEW t \in Threads, Pixels(t)
    PROVE  IInv'
<1>1. /\ pc[t] = "pixels" /\ replies[connection] # <<>>
      /\ got' = [got EXCEPT ![t] = Head(replies[connection]).frame]
      /\ latest' = Head(replies[connection]).frame.version
      /\ replies' = [replies EXCEPT ![connection] = Tail(@)]
      /\ lock' = NoThread
      /\ pc' = [pc EXCEPT ![t] = "blit"]
      /\ UNCHANGED <<reply, asked, had, connection, valid, link, requests, helper, desktop>>
  BY DEF Pixels, Incoming, Receive, Goto
<1>2. /\ connection \in Sessions /\ Talking(connection) /\ lock = t
      /\ \A u \in Threads \ {t} : pc[u] \notin Inside
  BY <1>1, NobodyElse DEF IInv, TypeOK, Locking, Inside
<1> DEFINE f == Head(replies[connection]).frame
<1>3. f \in Frames /\ Answers(f, t) /\ f.size = reply[t] /\ Tail(replies[connection]) = <<>>
  BY <1>1, <1>2, PixelTaken DEF Talking
<1>4. /\ got' = [got EXCEPT ![t] = f] /\ latest' = f.version /\ replies'[connection] = <<>>
      /\ \A s \in Sessions \ {connection} : replies'[s] = replies[s]
      /\ replies' = [replies EXCEPT ![connection] = <<>>]
  BY <1>1, <1>2, <1>3 DEF IInv, TypeOK
<1> HIDE DEF f
<1>5. f.version \in 0..MaxVersion
  BY <1>3 DEF Frames
<1>6. TypeOK'
  <2>1. replies' \in [Sessions -> Seq(Replies)]
    BY <1>2, <1>4 DEF IInv, TypeOK
  <2> QED
    BY <1>1, <1>3, <1>4, <1>5, <2>1 DEF IInv, TypeOK, helper
<1>7. Locking'
  BY <1>1, <1>2, NoneAssumption DEF IInv, TypeOK, Locking, Inside
<1>8. Serving'
  BY <1>1, <1>2, <1>4 DEF IInv, Serving, helper
<1>9. \A v \in Nat : Above(v) => Above(v)'
  BY <1>1, NothingTouched DEF helper
<1>10. Ordered'
  <2>1. f.version \in Nat /\ Above(f.version)
    BY <1>3, <1>5, VersionAssumption DEF Answers
  <2> QED
    BY <1>1, <1>4, <1>9, <2>1, NumbersTyped DEF IInv, Ordered, helper
<1>11. ASSUME NEW c \in Sessions, connection' = c
       PROVE  Talking(c)'
  <2>1. c = connection
    BY <1>1, <1>11
  <2>2. \A u \in Threads : pc'[u] \notin Inside
    BY <1>1, <1>2 DEF IInv, TypeOK, Inside
  <2>3. link[c] = "open" => requests[c] = <<>> /\ session[c] = "read" /\ authenticated[c]
    BY <1>1, <1>2, <2>1 DEF Talking, Waiting
  <2> QED
    BY <1>1, <1>4, <2>1, <2>2, <2>3 DEF Talking, Waiting, Inside, helper
<1>12. Drawn'
  <2>1. f # NoFrame /\ f.size = reply[t] /\ f.version >= asked[t]
    BY <1>3 DEF Answers
  <2> QED
    BY <1>1, <1>4, <2>1 DEF IInv, TypeOK, Drawn
<1> QED
  BY <1>6, <1>7, <1>8, <1>10, <1>11, <1>12 DEF IInv

LEMMA TimeoutKeeps ==
    ASSUME IInv, NEW t \in Threads, Timeout(t)
    PROVE  IInv'
BY RequestFailsKeeps DEF Timeout, Inside

LEMMA ReturnKeeps ==
    ASSUME IInv, NEW t \in Threads, Return(t)
    PROVE  IInv'
<1>1. /\ pc[t] = "blit" /\ pc' = [pc EXCEPT ![t] = "idle"]
      /\ reply' = [reply EXCEPT ![t] = NoSize] /\ got' = [got EXCEPT ![t] = NoFrame]
      /\ asked' = [asked EXCEPT ![t] = 0] /\ had' = [had EXCEPT ![t] = FALSE]
      /\ UNCHANGED <<lock, connection, valid, latest, stream, helper, desktop>>
  BY DEF Return, Goto, Forget
<1>2. TypeOK'
  <2>1. NoFrame \in Frames /\ 0 \in 0..MaxVersion
    BY VersionAssumption DEF Frames, NoFrame
  <2> QED
    BY <1>1, <2>1 DEF IInv, TypeOK, stream, helper
<1>3. Locking'
  BY <1>1 DEF IInv, TypeOK, Locking, Inside
<1>4. Serving'
  BY <1>1 DEF IInv, Serving, stream, helper
<1>5. \A v \in Nat : Above(v) => Above(v)'
  BY <1>1, NothingTouched DEF helper
<1>6. Ordered'
  <2>1. Above(0)
    BY NumbersTyped DEF IInv, Above
  <2> QED
    BY <1>1, <1>5, <2>1, NumbersTyped DEF IInv, TypeOK, Ordered, helper
<1>7. ASSUME NEW c \in Sessions, connection' = c
      PROVE  Talking(c)'
  <2>1. Talking(c)
    BY <1>1, <1>7 DEF IInv
  <2>2. \A u \in Threads : pc'[u] \in Inside => u # t /\ pc'[u] = pc[u]
    BY <1>1 DEF IInv, TypeOK, Inside
  <2>3. \A u \in Threads \ {t} : /\ HeaderAnswers(u) \subseteq HeaderAnswers(u)'
                                 /\ PixelAnswers(u) \subseteq PixelAnswers(u)'
                                 /\ had'[u] = had[u]
    BY <1>1, <1>5, AnswersStay DEF IInv, TypeOK
  <2>4. UNCHANGED AuthAnswers
    BY DEF AuthAnswers, Auth
  <2> QED
    BY <1>1, <2>1, <2>2, <2>3, <2>4 DEF Talking, Waiting, Inside, stream, helper
<1>8. Drawn'
  BY <1>1 DEF IInv, TypeOK, Drawn
<1> QED
  BY <1>2, <1>3, <1>4, <1>6, <1>7, <1>8 DEF IInv

LEMMA HostCleanupKeeps ==
    ASSUME IInv, HostCleanup
    PROVE  IInv'
<1>1. /\ connection # NoSession /\ valid /\ valid' = FALSE
      /\ link' = [link EXCEPT ![connection] = IF @ = "open" THEN "abandoned" ELSE "none"]
      /\ replies' = [replies EXCEPT ![connection] = <<>>]
      /\ UNCHANGED <<pc, reply, got, asked, had, lock, connection, latest, requests, helper, desktop>>
  BY DEF HostCleanup
<1>2. connection \in Sessions /\ link[connection] \in {"open", "shut"} /\ Talking(connection)
  BY <1>1 DEF IInv, TypeOK, Serving
<1>3. /\ link'[connection] = (IF link[connection] = "open" THEN "abandoned" ELSE "none")
      /\ replies'[connection] = <<>>
      /\ \A s \in Sessions \ {connection} : link'[s] = link[s] /\ replies'[s] = replies[s]
  BY <1>1, <1>2 DEF IInv, TypeOK
<1>4. TypeOK'
  <2>1. link' \in [Sessions -> {"none", "open", "abandoned", "shut"}]
    BY <1>1, <1>2 DEF IInv, TypeOK
  <2>2. replies' \in [Sessions -> Seq(Replies)]
    BY <1>1, <1>2 DEF IInv, TypeOK
  <2> QED
    BY <1>1, <2>1, <2>2 DEF IInv, TypeOK, helper
<1>5. Locking'
  BY <1>1 DEF IInv, Locking
<1>6. Serving'
  BY <1>1, <1>2, <1>3 DEF IInv, Serving, helper
<1>7. \A v \in Nat : Above(v) => Above(v)'
  BY <1>1, NothingTouched DEF helper
<1>8. Ordered'
  BY <1>1, <1>7, NumbersTyped DEF IInv, Ordered, helper
<1>9. ASSUME NEW c \in Sessions, connection' = c
      PROVE  Talking(c)'
  <2>1. replies'[c] = <<>> /\ link'[c] # "open"
    BY <1>1, <1>3, <1>9
  <2> QED
    BY <2>1 DEF Talking, Waiting, AuthAnswers, HeaderAnswers, PixelAnswers
<1>10. Drawn'
  BY <1>1 DEF IInv, Drawn
<1> QED
  BY <1>4, <1>5, <1>6, <1>8, <1>9, <1>10 DEF IInv

-----------------------------------------------------------------------------
(* The helper *)

\* Every other connection is left as it was.
LEMMA TalkingElsewhere ==
    ASSUME IInv, NEW s \in Sessions, UNCHANGED <<hook, frame>>,
           \A r \in Sessions \ {s} :
             UNCHANGED <<replies[r], requests[r], link[r], session[r], authenticated[r]>>,
           \A v \in Nat : Above(v) => Above(v)',
           connection = s => Talking(s)'
    PROVE  \A c \in Sessions : connection' = c => Talking(c)'
<1>1. UNCHANGED <<lock, pc, reply, asked, had, connection>>
  BY DEF hook
<1> SUFFICES ASSUME NEW c \in Sessions, connection' = c, c # s PROVE Talking(c)'
  BY <1>1
<1>2. Talking(c)
  BY <1>1 DEF IInv
<1> QED
  BY <1>1, <1>2, TalkingStays

\* A session ends: its connection, if the hook still has it, is at its end.
LEMMA EndKeeps ==
    ASSUME IInv, NEW s \in Sessions, session[s] # "none", session[s] # "grabbed", EndSession(s),
           requests' = [requests EXCEPT ![s] = <<>>],
           \/ UNCHANGED replies
           \/ link[s] = "open" /\ session[s] = "read" /\ requests[s] = <<"auth">>
              /\ replies' = [replies EXCEPT ![s] = @ \o <<Auth(FALSE)>>],
           link[s] = "open" => requests[s] # <<>>,
           UNCHANGED <<hook, running, token, onRequest, frame, kwin, desktop>>
    PROVE  IInv'
<1>1. /\ session' = [session EXCEPT ![s] = "none"]
      /\ authenticated' = [authenticated EXCEPT ![s] = FALSE]
      /\ grabbed' = [grabbed EXCEPT ![s] = NoFrame]
      /\ link' = [link EXCEPT ![s] = IF link[s] = "open" THEN "shut" ELSE "none"]
  BY DEF EndSession
<1>2. s \in Grabbers /\ s # Main
  BY NoneAssumption DEF Grabbers
<1>3. link[s] \in {"open", "abandoned"}
  BY DEF IInv, Serving
<1>4. /\ link'[s] = (IF link[s] = "open" THEN "shut" ELSE "none") /\ requests'[s] = <<>>
      /\ session'[s] = "none" /\ ~authenticated'[s] /\ grabbed'[s] = NoFrame
      /\ \A r \in Sessions \ {s} :
           UNCHANGED <<replies[r], requests[r], link[r], session[r], authenticated[r]>>
      /\ \A g \in Grabbers \ {s} : UNCHANGED <<session[g], grabbed[g]>>
  <2>1. \A r \in Sessions \ {s} : UNCHANGED <<requests[r], link[r], authenticated[r]>>
    BY <1>1 DEF IInv, TypeOK
  <2>2. \A r \in Sessions \ {s} : UNCHANGED <<replies[r]>>
    BY DEF IInv, TypeOK
  <2>3. \A g \in Grabbers \ {s} : UNCHANGED <<session[g], grabbed[g]>>
    BY <1>1 DEF IInv, TypeOK
  <2>4. link'[s] = (IF link[s] = "open" THEN "shut" ELSE "none") /\ requests'[s] = <<>>
    BY <1>1 DEF IInv, TypeOK
  <2>5. session'[s] = "none" /\ ~authenticated'[s] /\ grabbed'[s] = NoFrame
    BY <1>1, <1>2 DEF IInv, TypeOK
  <2> QED
    BY <2>1, <2>2, <2>3, <2>4, <2>5 DEF Grabbers
<1>5. replies'[s] \in Seq(Replies) /\ (link[s] = "abandoned" => replies'[s] = <<>>)
  <2>1. CASE UNCHANGED replies
    BY <1>3, <2>1 DEF IInv, TypeOK, Serving
  <2>2. CASE replies' = [replies EXCEPT ![s] = @ \o <<Auth(FALSE)>>] /\ link[s] = "open"
    <3>1. Auth(FALSE) \in Replies
      BY DEF Auth, Replies
    <3>2. replies[s] \in Seq(Replies) /\ replies \in [Sessions -> Seq(Replies)]
      BY DEF IInv, TypeOK
    <3>3. \A q \in Seq(Replies) : q \o <<Auth(FALSE)>> \in Seq(Replies)
      BY <3>1, Longer
    <3>4. replies'[s] = replies[s] \o <<Auth(FALSE)>>
      BY <2>2, <3>2
    <3> QED
      BY <2>2, <3>2, <3>3, <3>4
  <2> QED
    BY <2>1, <2>2
<1>6. TypeOK'
  <2>1. replies' \in [Sessions -> Seq(Replies)]
    BY <1>5 DEF IInv, TypeOK
  <2>2. NoFrame \in Frames
    BY VersionAssumption DEF Frames, NoFrame
  <2>3. requests' \in [Sessions -> Seq({"auth", "frame"})]
    BY DEF IInv, TypeOK
  <2>4. link' \in [Sessions -> {"none", "open", "abandoned", "shut"}]
    BY <1>1 DEF IInv, TypeOK
  <2>5. /\ session' \in [Grabbers -> {"none", "read", "grab", "grabbed", "serve"}]
        /\ authenticated' \in [Sessions -> BOOLEAN] /\ grabbed' \in [Grabbers -> Frames]
    BY <1>1, <2>2 DEF IInv, TypeOK
  <2> QED
    BY <2>1, <2>3, <2>4, <2>5 DEF IInv, TypeOK, hook
<1>7. Locking'
  BY DEF IInv, Locking, hook
<1>8. Serving'
  <2>1. UNCHANGED <<connection, valid>>
    BY DEF hook
  <2> QED
    BY <1>2, <1>3, <1>4, <1>5, <2>1, NoneAssumption DEF IInv, Serving, Grabbers
<1>9. \A v \in Nat : Above(v) => Above(v)'
  BY <1>4, NothingOlder, NumbersTyped DEF IInv
<1>10. Ordered'
  <2>1. \A g \in Grabbers : desktop'.version >= grabbed'[g].version
    BY <1>4, NumbersTyped DEF IInv, Ordered, NoFrame
  <2> QED
    BY <1>9, <2>1, NumbersTyped DEF IInv, Ordered, hook
<1>11. connection = s => Talking(s)'
  <2> SUFFICES ASSUME connection = s PROVE Talking(s)'
    OBVIOUS
  <2>1. Talking(s) /\ UNCHANGED <<lock, pc, reply, asked, had>>
    BY DEF IInv, hook
  <2>2. CASE link[s] = "abandoned"
    <3>1. replies'[s] = <<>> /\ link'[s] = "none"
      BY <1>4, <1>5, <2>2
    <3> QED
      BY <2>1, <3>1 DEF Talking, Waiting, AuthAnswers, HeaderAnswers, PixelAnswers
  <2>3. CASE link[s] = "open"
    <3>1. link'[s] = "shut" /\ requests[s] \in {<<"auth">>, <<"frame">>}
      BY <1>4, <2>3 DEF IInv, Serving
    <3>2. lock # NoThread
      BY <2>1, <2>3, <3>1 DEF Talking, Waiting
    <3>3. \A u \in Threads : pc[u] \notin {"send", "pixels"}
      BY <2>1, <2>3, <3>1 DEF Talking, Waiting
    <3>4. CASE requests[s] = <<"auth">>
      <4>1. \A u \in Threads : pc[u] # "header"
        BY <2>1, <2>3, <3>4 DEF Talking
      <4>2. \A u \in Threads : pc[u] = "auth" => replies'[s] \in AuthAnswers
        <5>1. UNCHANGED replies => \A u \in Threads : pc[u] = "auth" => replies'[s] \in AuthAnswers
          BY <2>1 DEF Talking
        <5>2. \A u \in Threads : pc[u] = "auth" => replies[s] = <<>>
          BY <2>1, <2>3, <3>4 DEF Talking
        <5>3. replies' = [replies EXCEPT ![s] = @ \o <<Auth(FALSE)>>] /\ replies[s] = <<>>
                => replies'[s] = <<Auth(FALSE)>>
          <6>1. <<>> \o <<Auth(FALSE)>> = <<Auth(FALSE)>> /\ replies \in [Sessions -> Seq(Replies)]
            BY Short DEF IInv, TypeOK
          <6> QED
            BY <6>1
        <5>4. <<Auth(FALSE)>> \in AuthAnswers
          BY DEF AuthAnswers
        <5> QED
          BY <5>1, <5>2, <5>3, <5>4
      <4>3. UNCHANGED AuthAnswers
        BY DEF AuthAnswers, Auth
      <4> QED
        BY <2>1, <3>1, <3>2, <3>3, <4>1, <4>2, <4>3 DEF Talking, Waiting
    <3>5. CASE requests[s] = <<"frame">>
      <4>1. \A u \in Threads : pc[u] # "auth"
        BY <2>1, <2>3, <3>5 DEF Talking
      <4>2. UNCHANGED replies
        BY <3>5
      <4>3. \A u \in Threads : pc[u] = "header" => replies'[s] = <<>>
        BY <2>1, <2>3, <3>5, <4>2 DEF Talking
      <4> QED
        BY <2>1, <3>1, <3>2, <3>3, <4>1, <4>3 DEF Talking, Waiting, HeaderAnswers
    <3> QED
      BY <3>1, <3>4, <3>5
  <2> QED
    BY <1>3, <2>2, <2>3
<1>12. Drawn'
  BY DEF IInv, Drawn, hook
<1> QED
  BY <1>4, <1>6, <1>7, <1>8, <1>9, <1>10, <1>11, <1>12, TalkingElsewhere DEF IInv

\* A session takes its request, or answers it, and goes on.
LEMMA SessionKeeps ==
    ASSUME IInv, NEW s \in Sessions, session[s] \in {"read", "serve"},
           NEW x \in {"read", "grab", "serve"}, NEW q \in Seq(Replies),
           session' = [session EXCEPT ![s] = x],
           requests' \in {requests, [requests EXCEPT ![s] = <<>>]},
           authenticated' = [authenticated EXCEPT ![s] = TRUE],
           replies' = IF link[s] = "open" THEN [replies EXCEPT ![s] = q] ELSE replies,
           token \in {NoToken, HookToken},
           x = "grab" => onRequest,
           link[s] = "open" => Talking(s)',
           UNCHANGED <<hook, link, running, token, onRequest, frame, kwin, grabbed, desktop>>
    PROVE  IInv'
<1>1. s \in Grabbers /\ s # Main
  BY NoneAssumption DEF Grabbers
<1>2. link[s] \in {"open", "abandoned"} /\ running
  BY <1>1 DEF IInv, Serving
<1>3. /\ session'[s] = x /\ requests'[s] \in {requests[s], <<>>} /\ authenticated'[s]
      /\ link[s] # "open" => replies'[s] = <<>>
      /\ \A r \in Sessions \ {s} :
           UNCHANGED <<replies[r], requests[r], link[r], session[r], authenticated[r]>>
      /\ \A g \in Grabbers \ {s} : UNCHANGED session[g]
  <2>1. session'[s] = x /\ \A g \in Grabbers \ {s} : UNCHANGED session[g]
    BY <1>1 DEF IInv, TypeOK
  <2>2. \A r \in Sessions \ {s} : r \in Grabbers \ {s}
    BY DEF Grabbers
  <2>3. requests'[s] \in {requests[s], <<>>} /\ \A r \in Sessions \ {s} : UNCHANGED requests[r]
    BY DEF IInv, TypeOK
  <2>4. authenticated'[s] /\ \A r \in Sessions \ {s} : UNCHANGED authenticated[r]
    BY DEF IInv, TypeOK
  <2>5. link[s] # "open" => replies'[s] = <<>>
    BY <1>2 DEF IInv, Serving
  <2>6. \A r \in Sessions \ {s} : UNCHANGED replies[r]
    BY DEF IInv, TypeOK
  <2> QED
    BY <2>1, <2>2, <2>3, <2>4, <2>5, <2>6
<1>4. TypeOK'
  <2>1. session' \in [Grabbers -> {"none", "read", "grab", "grabbed", "serve"}]
    BY DEF IInv, TypeOK
  <2>2. requests' \in [Sessions -> Seq({"auth", "frame"})]
    <3>1. <<>> \in Seq({"auth", "frame"}) /\ requests \in [Sessions -> Seq({"auth", "frame"})]
      BY DEF IInv, TypeOK
    <3> QED
      BY <3>1
  <2>3. replies' \in [Sessions -> Seq(Replies)]
    BY DEF IInv, TypeOK
  <2>4. authenticated' \in [Sessions -> BOOLEAN]
    BY DEF IInv, TypeOK
  <2> QED
    BY <2>1, <2>2, <2>3, <2>4 DEF IInv, TypeOK, hook
<1>5. Locking'
  BY DEF IInv, Locking, hook
<1>6. Serving'
  <2>1. UNCHANGED <<connection, valid, link, running, token, onRequest, frame, kwin, grabbed>>
    BY DEF hook
  <2>2. \A r \in Sessions :
          /\ link'[r] \in {"open", "shut"} <=> r = connection' /\ valid'
          /\ link'[r] \in {"open", "abandoned"} <=> session'[r] # "none"
          /\ link'[r] \in {"none", "abandoned"} => replies'[r] = <<>>
          /\ link'[r] \in {"none", "shut"} => requests'[r] = <<>>
          /\ requests'[r] \in {<<>>, <<"auth">>, <<"frame">>}
          /\ session'[r] \in {"grab", "grabbed", "serve"} => authenticated'[r]
          /\ authenticated'[r] => token' \in {NoToken, HookToken}
    BY <1>2, <1>3, <2>1 DEF IInv, Serving
  <2>3. \A g \in Grabbers :
          /\ session'[g] # "none" => running'
          /\ session'[g] \in {"grab", "grabbed"} => onRequest'
          /\ session'[g] = "grabbed" =>
               kwin' = g /\ grabbed'[g] # NoFrame /\ grabbed'[g].version >= frame'.version
    BY <1>2, <1>3, <2>1 DEF IInv, Serving
  <2>4. session'[Main] = session[Main]
    BY <1>1, <1>3 DEF Grabbers
  <2> QED
    BY <1>2, <2>1, <2>2, <2>3, <2>4 DEF IInv, Serving
<1>7. \A v \in Nat : Above(v) => Above(v)'
  BY <1>3, NothingOlder, NumbersTyped DEF IInv
<1>8. Ordered'
  BY <1>7, NumbersTyped DEF IInv, Ordered, hook
<1>9. connection = s => Talking(s)'
  <2>1. link[s] # "open" => Talking(s)'
    BY <1>3 DEF Talking, Waiting, AuthAnswers, HeaderAnswers, PixelAnswers, IInv, hook
  <2> QED
    BY <2>1
<1>10. Drawn'
  BY DEF IInv, Drawn, hook
<1> QED
  BY <1>3, <1>4, <1>5, <1>6, <1>7, <1>8, <1>9, <1>10, TalkingElsewhere DEF IInv

LEMMA Letters == <<"auth">> # <<>> /\ <<"frame">> # <<>> /\ <<"auth">> # <<"frame">>
<1>1. <<"auth">>[1] = "auth" /\ <<"frame">>[1] = "frame" /\ Len(<<"auth">>) = 1 /\ Len(<<"frame">>) = 1
  OBVIOUS
<1>2. Len(<<>>) = 0
  OBVIOUS
<1> QED
  BY <1>1, <1>2

\* What the only thread that can be waiting on an open link is waiting for.
LEMMA OpenLink ==
    ASSUME IInv, NEW s \in Sessions, link[s] = "open"
    PROVE  /\ connection = s /\ Talking(s)
           /\ requests[s] # <<>> \/ session[s] # "read" =>
                /\ lock # NoThread
                /\ \A t \in Threads : pc[t] \notin {"send", "pixels"}
           /\ requests[s] = <<"auth">> => \A t \in Threads :
                pc[t] # "header" /\ (pc[t] = "auth" => replies[s] = <<>>)
           /\ requests[s] = <<"frame">> => \A t \in Threads :
                pc[t] # "auth" /\ (pc[t] = "header" => replies[s] = <<>>)
           /\ session[s] # "read" => \A t \in Threads :
                pc[t] # "auth" /\ (pc[t] = "header" => replies[s] = <<>> /\ requests[s] = <<>>)
<1>1. connection = s /\ Talking(s)
  BY DEF IInv, Serving
<1>2. requests[s] # <<>> \/ session[s] # "read" =>
        lock # NoThread /\ \A t \in Threads : pc[t] \notin {"send", "pixels"}
  BY <1>1 DEF Talking, Waiting
<1>3. requests[s] = <<"auth">> => \A t \in Threads :
        pc[t] # "header" /\ (pc[t] = "auth" => replies[s] = <<>>)
  BY <1>1, Letters DEF Talking
<1>4. requests[s] = <<"frame">> => \A t \in Threads :
        pc[t] # "auth" /\ (pc[t] = "header" => replies[s] = <<>>)
  BY <1>1, Letters DEF Talking
<1>5. session[s] # "read" => \A t \in Threads :
        pc[t] # "auth" /\ (pc[t] = "header" => replies[s] = <<>> /\ requests[s] = <<>>)
  BY <1>1 DEF Talking
<1> QED
  BY <1>1, <1>2, <1>3, <1>4, <1>5

LEMMA ReadAuthKeeps ==
    ASSUME IInv, NEW s \in Sessions, ReadAuth(s)
    PROVE  IInv'
<1> DEFINE equal == token # NoToken /\ token = HookToken
<1>1. session[s] = "read" /\ requests[s] = <<"auth">>
  BY Short DEF ReadAuth, IInv, Serving
<1>2. /\ Answer(s, <<Auth(equal)>>)
      /\ UNCHANGED <<hook, running, token, onRequest, frame, kwin, desktop>>
  BY DEF ReadAuth, Auth
<1>3. requests' = [requests EXCEPT ![s] = Tail(@)] => requests' = [requests EXCEPT ![s] = <<>>]
  BY <1>1, Short
<1>4. Auth(equal) \in Replies
  BY DEF Auth, Replies
<1>5. CASE /\ equal /\ requests' = [requests EXCEPT ![s] = <<>>]
           /\ authenticated' = [authenticated EXCEPT ![s] = TRUE]
           /\ UNCHANGED <<link, session, grabbed>>
  <2> DEFINE q == replies[s] \o <<Auth(equal)>>
  <2>1. q \in Seq(Replies)
    BY <1>4, Longer DEF IInv, TypeOK
  <2>2. replies' = IF link[s] = "open" THEN [replies EXCEPT ![s] = q] ELSE replies
    BY <1>2 DEF Answer
  <2> HIDE DEF q
  <2>3. session' = [session EXCEPT ![s] = "read"]
    BY <1>1, <1>5 DEF IInv, TypeOK, Grabbers
  <2>4. ASSUME link[s] = "open" PROVE Talking(s)'
    <3>1. /\ lock # NoThread /\ link'[s] = "open" /\ UNCHANGED <<lock, pc, reply, asked, had>>
          /\ \A t \in Threads : pc[t] \notin {"send", "pixels", "header"}
      BY <1>1, <1>2, <1>5, <2>4, OpenLink DEF hook
    <3>2. \A t \in Threads : pc[t] = "auth" => q = <<Auth(equal)>>
      BY <1>1, <2>4, OpenLink, Short DEF q
    <3>3. replies'[s] = q
      BY <2>2, <2>4 DEF IInv, TypeOK
    <3>4. <<Auth(equal)>> \in AuthAnswers'
      BY DEF AuthAnswers, Auth
    <3>5. session'[s] = "read" /\ requests'[s] = <<>>
      BY <1>1, <1>5 DEF IInv, TypeOK
    <3> QED
      BY <3>1, <3>2, <3>3, <3>4, <3>5 DEF Talking
  <2> QED
    BY <1>1, <1>2, <1>5, <2>1, <2>2, <2>3, <2>4, SessionKeeps
<1>6. CASE /\ ~equal \/ link[s] # "open"
           /\ requests' = [requests EXCEPT ![s] = <<>>]
           /\ EndSession(s)
  <2>1. CASE link[s] = "open"
    <3>1. Auth(equal) = Auth(FALSE)
      BY <1>6, <2>1
    <3> QED
      <4>1. replies' = [replies EXCEPT ![s] = @ \o <<Auth(FALSE)>>]
        BY <1>2, <2>1, <3>1 DEF Answer
      <4>2. session[s] \notin {"none", "grabbed"} /\ requests[s] # <<>>
        BY <1>1, Letters
      <4> QED
        BY <1>1, <1>2, <1>6, <2>1, <4>1, <4>2, EndKeeps
  <2>2. CASE link[s] # "open"
    BY <1>1, <1>2, <1>6, <2>2, EndKeeps DEF Answer
  <2> QED
    BY <2>1, <2>2
<1> QED
  BY <1>3, <1>5, <1>6 DEF ReadAuth

LEMMA ReadRequestKeeps ==
    ASSUME IInv, NEW s \in Sessions, ReadRequest(s)
    PROVE  IInv'
<1>1. /\ session[s] = "read" /\ requests[s] = <<"frame">>
      /\ UNCHANGED <<hook, replies, running, token, onRequest, frame, kwin, desktop>>
  BY Short DEF ReadRequest, IInv, Serving
<1>2. CASE authenticated[s]
  <2> DEFINE x == IF onRequest THEN "grab" ELSE "serve"
  <2>1. /\ requests' = [requests EXCEPT ![s] = <<>>]
        /\ session' = [session EXCEPT ![s] = x]
        /\ UNCHANGED <<link, authenticated, grabbed>>
    BY <1>1, <1>2, Short DEF ReadRequest
  <2>2. x \in {"read", "grab", "serve"} /\ x # "read" /\ (x = "grab" => onRequest)
    OBVIOUS
  <2> HIDE DEF x
  <2>3. /\ authenticated' = [authenticated EXCEPT ![s] = TRUE]
        /\ replies[s] \in Seq(Replies)
        /\ replies' = IF link[s] = "open" THEN [replies EXCEPT ![s] = replies[s]] ELSE replies
        /\ token \in {NoToken, HookToken}
    <3>1. replies \in [Sessions -> Seq(Replies)] /\ authenticated \in [Sessions -> BOOLEAN]
      BY DEF IInv, TypeOK
    <3>2. token \in {NoToken, HookToken}
      BY <1>2 DEF IInv, Serving
    <3> QED
      BY <1>1, <1>2, <2>1, <3>1, <3>2
  <2>4. ASSUME link[s] = "open" PROVE Talking(s)'
    <3>1. /\ lock # NoThread /\ link'[s] = "open"
          /\ UNCHANGED <<lock, pc, reply, asked, had, frame, replies>>
          /\ \A t \in Threads : pc[t] \notin {"send", "pixels", "auth"} /\ (pc[t] = "header" => replies[s] = <<>>)
      BY <1>1, <2>1, <2>4, OpenLink DEF hook
    <3>2. \A t \in Threads : pc[t] = "header" => (had[t] => frame # NoFrame)
      BY <2>4, OpenLink DEF Talking
    <3>3. requests'[s] = <<>> /\ authenticated'[s]
      BY <1>2, <2>1 DEF IInv, TypeOK
    <3> QED
      BY <3>1, <3>2, <3>3 DEF Talking, HeaderAnswers
  <2> QED
    BY <1>1, <2>1, <2>2, <2>3, <2>4, SessionKeeps
<1>3. CASE ~authenticated[s]
  BY <1>1, <1>3, EndKeeps DEF ReadRequest
<1> QED
  BY <1>2, <1>3

LEMMA ServeKeeps ==
    ASSUME IInv, NEW s \in Sessions, Serve(s)
    PROVE  IInv'
<1>1. /\ session[s] = "serve" /\ authenticated[s] /\ token \in {NoToken, HookToken}
      /\ UNCHANGED <<hook, running, token, onRequest, frame, kwin, desktop>>
  BY DEF Serve, IInv, Serving
<1> DEFINE answer == IF frame # NoFrame THEN <<Yes(frame), Pixel(frame)>> ELSE <<No>>
<1>2. CASE Answer(s, answer) /\ session' = [session EXCEPT ![s] = "read"]
           /\ UNCHANGED <<link, requests, authenticated, grabbed>>
  <2> DEFINE q == replies[s] \o answer
  <2>1. q \in Seq(Replies)
    <3>1. frame \in Frames /\ replies[s] \in Seq(Replies) /\ frame.size \in Sizes \cup {NoSize}
      BY DEF IInv, TypeOK, Frames
    <3>2. Yes(frame) \in Replies /\ Pixel(frame) \in Replies /\ No \in Replies
      BY <3>1 DEF Yes, Pixel, No, Replies
    <3> QED
      BY <3>1, <3>2, Longer
  <2>2. replies' = IF link[s] = "open" THEN [replies EXCEPT ![s] = q] ELSE replies
    BY <1>2 DEF Answer
  <2>3. authenticated' = [authenticated EXCEPT ![s] = TRUE]
    BY <1>1, <1>2 DEF IInv, TypeOK
  <2>4. ASSUME link[s] = "open" PROVE Talking(s)'
    <3>1. /\ lock # NoThread /\ link'[s] = "open" /\ UNCHANGED <<lock, pc, reply, asked, had, frame>>
          /\ \A t \in Threads :
               pc[t] \notin {"send", "pixels", "auth"}
               /\ (pc[t] = "header" => replies[s] = <<>> /\ requests[s] = <<>>)
      BY <1>1, <1>2, <2>4, OpenLink DEF hook
    <3>2. replies'[s] = q
      BY <2>2, <2>4 DEF IInv, TypeOK
    <3>3. ASSUME NEW t \in Threads, pc[t] = "header" PROVE q \in HeaderAnswers(t)'
      <4>1. q = answer
        BY <3>1, <3>3, Short
      <4>2. CASE frame # NoFrame
        <5>1. frame \in Frames /\ Answers(frame, t)'
          <6>1. Above(asked[t]) /\ Above(frame.version)
            BY NumbersTyped DEF IInv, TypeOK, Ordered, Above, Serving
          <6>2. \A v \in Nat : Above(v) => Above(v)'
            BY <1>1, <1>2, NothingOlder, NumbersTyped DEF IInv, TypeOK
          <6> QED
            BY <3>1, <4>2, <6>1, <6>2, NumbersTyped DEF IInv, TypeOK, Answers, Above
        <5>2. \A f \in Frames : Answers(f, t)' => <<Yes(f), Pixel(f)>> \in HeaderAnswers(t)'
          BY DEF HeaderAnswers, Yes, Pixel
        <5>3. <<Yes(frame), Pixel(frame)>> \in HeaderAnswers(t)'
          BY <3>1, <5>1, <5>2
        <5> QED
          BY <4>1, <4>2, <5>3
      <4>3. CASE frame = NoFrame
        <5>1. ~had[t]
          BY <2>4, <3>3, <4>3, OpenLink DEF Talking
        <5> QED
          BY <3>1, <4>1, <4>3, <5>1 DEF HeaderAnswers, No
      <4> QED
        BY <4>2, <4>3
    <3>4. session'[s] = "read" /\ authenticated'[s] /\ UNCHANGED requests
      BY <1>1, <1>2 DEF IInv, TypeOK, Grabbers
    <3>5. \A t \in Threads : pc[t] = "header" => (had[t] => frame # NoFrame)
      BY <2>4, OpenLink DEF Talking
    <3> HIDE DEF q
    <3> QED
      BY <3>1, <3>2, <3>3, <3>4, <3>5 DEF Talking
  <2> HIDE DEF q
  <2> QED
    BY <1>1, <1>2, <2>1, <2>2, <2>3, <2>4, SessionKeeps
<1>3. CASE /\ link[s] # "open" /\ requests' = [requests EXCEPT ![s] = <<>>]
           /\ EndSession(s) /\ UNCHANGED replies
  BY <1>1, <1>3, EndKeeps
<1> QED
  BY <1>2, <1>3 DEF Serve, Yes, Pixel, No

LEMMA ReadEofKeeps ==
    ASSUME IInv, NEW s \in Sessions, ReadEof(s)
    PROVE  IInv'
<1>1. requests' = [requests EXCEPT ![s] = <<>>]
  BY DEF ReadEof, IInv, TypeOK
<1> QED
  BY <1>1, EndKeeps DEF ReadEof

\* A frame of the desktop is a frame.
LEMMA DesktopIsFrame == IInv => desktop # NoFrame
BY NoneAssumption DEF IInv, Ordered, NoFrame

\* What a step that only publishes, or takes screenshots, leaves of the connections.
LEMMA TalkingGoesOn ==
    ASSUME IInv, UNCHANGED <<hook, stream, authenticated>>,
           \A c \in Sessions : session[c] = "read" <=> session'[c] = "read",
           frame # NoFrame => frame' # NoFrame,
           \A v \in Nat : Above(v) => Above(v)'
    PROVE  \A c \in Sessions : connection' = c => Talking(c)'
<1> SUFFICES ASSUME NEW c \in Sessions, connection' = c PROVE Talking(c)'
  OBVIOUS
<1>1. UNCHANGED <<lock, pc, reply, asked, had, connection, replies, requests, link, authenticated>>
  BY DEF hook, stream
<1>2. Talking(c)
  BY <1>1 DEF IInv
<1> QED
  BY <1>1, <1>2, TalkingStays

LEMMA GrabKeeps ==
    ASSUME IInv, NEW g \in Grabbers, Grab(g)
    PROVE  IInv'
<1>1. /\ session[g] = "grab" /\ kwin = NoSession
      /\ UNCHANGED <<hook, stream, running, token, onRequest, frame, authenticated, desktop>>
  BY DEF Grab
<1>2. \A h \in Grabbers : session[h] # "grabbed"
  BY <1>1, NoneAssumption DEF IInv, Serving, Grabbers
<1>3. onRequest /\ running /\ (g # Main => g \in Sessions /\ authenticated[g])
  BY <1>1 DEF IInv, Serving, Grabbers
<1>4. \/ /\ kwin' = g
         /\ session' = [session EXCEPT ![g] = "grabbed"]
         /\ grabbed' = [grabbed EXCEPT ![g] = desktop]
      \/ /\ g # Main
         /\ session' = [session EXCEPT ![g] = "serve"]
         /\ UNCHANGED <<kwin, grabbed>>
  BY DEF Grab, Grabbed
<1>5. /\ \A h \in Grabbers \ {g} : session'[h] = session[h]
      /\ \/ session'[g] = "grabbed" /\ kwin' = g /\ grabbed'[g] = desktop
         \/ session'[g] = "serve" /\ g # Main
      /\ \A h \in Grabbers : grabbed'[h] \in {grabbed[h], desktop}
  <2>1. session \in [Grabbers -> {"none", "read", "grab", "grabbed", "serve"}] /\ grabbed \in [Grabbers -> Frames]
    BY DEF IInv, TypeOK
  <2> QED
    BY <1>4, <2>1
<1>6. TypeOK'
  <2>1. session' \in [Grabbers -> {"none", "read", "grab", "grabbed", "serve"}] /\ grabbed' \in [Grabbers -> Frames]
    BY <1>4 DEF IInv, TypeOK
  <2>2. kwin' \in Grabbers \cup {NoSession}
    BY <1>4 DEF IInv, TypeOK
  <2> QED
    BY <1>1, <2>1, <2>2 DEF IInv, TypeOK, hook, stream
<1>7. Locking'
  BY <1>1 DEF IInv, Locking, hook
<1>8. \A v \in Nat : Above(v) => Above(v)'
  BY <1>1, <1>2, <1>5, NothingOlder, NumbersTyped DEF IInv
<1>9. Serving'
  <2>1. UNCHANGED <<connection, valid, link, requests, replies, running, token, onRequest, frame,
                    authenticated, desktop>>
    BY <1>1 DEF hook, stream
  <2>2. desktop.version >= frame.version /\ desktop # NoFrame
    BY DesktopIsFrame DEF IInv, Ordered
  <2>3. \A r \in Sessions :
          /\ r \in Grabbers
          /\ session'[r] # "none" <=> session[r] # "none"
          /\ session'[r] \in {"grab", "grabbed", "serve"} => session[r] \in {"grab", "grabbed", "serve"}
    BY <1>1, <1>5 DEF Grabbers
  <2>4. \A h \in Grabbers :
          /\ session'[h] # "none" => session[h] # "none"
          /\ session'[h] \in {"grab", "grabbed"} => session[h] \in {"grab", "grabbed"}
          /\ session'[h] = "grabbed" => kwin' = h /\ grabbed'[h] = desktop
    BY <1>1, <1>2, <1>5
  <2>5. session'[Main] \in {"none", "grab", "grabbed"}
    BY <1>5 DEF IInv, Serving, Grabbers
  <2> QED
    BY <2>1, <2>2, <2>3, <2>4, <2>5 DEF IInv, Serving
<1>10. Ordered'
  <2>1. \A h \in Grabbers : desktop'.version >= grabbed'[h].version
    BY <1>1, <1>5, NumbersTyped DEF IInv, Ordered
  <2> QED
    BY <1>1, <1>8, <2>1, NumbersTyped DEF IInv, Ordered, hook
<1>11. \A c \in Sessions : connection' = c => Talking(c)'
  <2>1. \A c \in Sessions : session[c] = "read" <=> session'[c] = "read"
    BY <1>1, <1>5 DEF Grabbers
  <2> QED
    BY <1>1, <1>8, <2>1, TalkingGoesOn
<1>12. Drawn'
  BY <1>1 DEF IInv, Drawn, hook
<1> QED
  BY <1>6, <1>7, <1>9, <1>10, <1>11, <1>12 DEF IInv

LEMMA PublishGrabKeeps ==
    ASSUME IInv, NEW g \in Grabbers, PublishGrab(g)
    PROVE  IInv'
<1>1. /\ session[g] = "grabbed" /\ frame' = grabbed[g] /\ kwin' = NoSession
      /\ grabbed' = [grabbed EXCEPT ![g] = NoFrame]
      /\ session' = [session EXCEPT ![g] = IF g = Main THEN "none" ELSE "serve"]
      /\ UNCHANGED <<hook, stream, running, token, onRequest, authenticated, desktop>>
  BY DEF PublishGrab, Grabbed
<1>2. /\ \A h \in Grabbers : session[h] = "grabbed" => h = g
      /\ grabbed[g] # NoFrame /\ onRequest /\ running
      /\ g # Main => g \in Sessions /\ authenticated[g]
  BY <1>1 DEF IInv, Serving, Grabbers
<1>3. /\ \A h \in Grabbers \ {g} : session'[h] = session[h] /\ grabbed'[h] = grabbed[h]
      /\ session'[g] = (IF g = Main THEN "none" ELSE "serve") /\ grabbed'[g] = NoFrame
  BY <1>1 DEF IInv, TypeOK
<1>4. \A h \in Grabbers : session'[h] # "grabbed"
  BY <1>2, <1>3
<1>5. TypeOK'
  <2>1. NoFrame \in Frames
    BY VersionAssumption DEF Frames, NoFrame
  <2>2. session' \in [Grabbers -> {"none", "read", "grab", "grabbed", "serve"}]
    BY <1>1 DEF IInv, TypeOK
  <2>3. grabbed' \in [Grabbers -> Frames] /\ frame' \in Frames
    BY <1>1, <2>1 DEF IInv, TypeOK
  <2> QED
    BY <1>1, <2>2, <2>3 DEF IInv, TypeOK, hook, stream
<1>6. Locking'
  BY <1>1 DEF IInv, Locking, hook
<1>7. \A v \in Nat : Above(v) => Above(v)'
  BY <1>1, <1>4, NothingOlder, NumbersTyped DEF IInv
<1>8. Serving'
  <2>1. UNCHANGED <<connection, valid, link, requests, replies, running, token, onRequest, authenticated>>
    BY <1>1 DEF hook, stream
  <2>2. \A r \in Sessions :
          /\ r \in Grabbers /\ (r = g => g # Main)
          /\ session'[r] # "none" <=> session[r] # "none"
          /\ session'[r] \in {"grab", "grabbed", "serve"} => session[r] \in {"grab", "grabbed", "serve"}
    BY <1>1, <1>3, NoneAssumption DEF Grabbers
  <2>3. \A h \in Grabbers :
          /\ session'[h] # "none" => session[h] # "none"
          /\ session'[h] \in {"grab", "grabbed"} => session[h] \in {"grab", "grabbed"}
    BY <1>1, <1>3
  <2>4. session'[Main] \in {"none", "grab", "grabbed"}
    BY <1>3 DEF IInv, Serving, Grabbers
  <2> QED
    BY <1>2, <1>4, <2>1, <2>2, <2>3, <2>4 DEF IInv, Serving
<1>9. Ordered'
  <2>1. \A h \in Grabbers : desktop'.version >= grabbed'[h].version
    BY <1>1, <1>3, NumbersTyped DEF IInv, Ordered, NoFrame
  <2> QED
    BY <1>1, <1>7, <2>1, NumbersTyped DEF IInv, Ordered, hook
<1>10. \A c \in Sessions : connection' = c => Talking(c)'
  <2>1. \A c \in Sessions : session[c] = "read" <=> session'[c] = "read"
    BY <1>1, <1>3 DEF Grabbers
  <2> QED
    BY <1>1, <1>2, <1>7, <2>1, TalkingGoesOn
<1>11. Drawn'
  BY <1>1 DEF IInv, Drawn, hook
<1> QED
  BY <1>5, <1>6, <1>8, <1>9, <1>10, <1>11 DEF IInv

LEMMA PublishSampleKeeps ==
    ASSUME IInv, PublishSample
    PROVE  IInv'
<1>1. /\ running /\ ~onRequest /\ frame' = desktop
      /\ UNCHANGED <<hook, stream, running, token, onRequest, kwin, session, authenticated, grabbed, desktop>>
  BY DEF PublishSample
<1>2. \A g \in Grabbers : session[g] # "grabbed"
  BY <1>1 DEF IInv, Serving
<1>3. TypeOK'
  BY <1>1 DEF IInv, TypeOK, hook, stream
<1>4. Locking'
  BY <1>1 DEF IInv, Locking, hook
<1>5. \A v \in Nat : Above(v) => Above(v)'
  BY <1>1, <1>2, NothingOlder, NumbersTyped DEF IInv
<1>6. Serving'
  BY <1>1, <1>2 DEF IInv, Serving, hook, stream
<1>7. Ordered'
  BY <1>1, <1>5, NumbersTyped DEF IInv, Ordered, hook
<1>8. \A c \in Sessions : connection' = c => Talking(c)'
  BY <1>1, <1>5, TalkingGoesOn, DesktopIsFrame
<1>9. Drawn'
  BY <1>1 DEF IInv, Drawn, hook
<1> QED
  BY <1>3, <1>4, <1>6, <1>7, <1>8, <1>9 DEF IInv

LEMMA HelperExitKeeps ==
    ASSUME IInv, HelperExit
    PROVE  IInv'
<1>1. /\ running' = FALSE /\ token' = NoToken /\ onRequest' = FALSE /\ frame' = NoFrame
      /\ kwin' = NoSession /\ session' = [g \in Grabbers |-> "none"]
      /\ authenticated' = [s \in Sessions |-> FALSE]
      /\ grabbed' = [g \in Grabbers |-> NoFrame] /\ requests' = [s \in Sessions |-> <<>>]
      /\ link' = [s \in Sessions |-> IF link[s] \in {"open", "shut"} THEN "shut" ELSE "none"]
      /\ UNCHANGED <<hook, desktop>>
  BY DEF HelperExit
<1>2. PICK n \in 0..2 :
        replies' = [s \in Sessions |-> IF n < Len(replies[s]) THEN SubSeq(replies[s], 1, n) ELSE replies[s]]
  BY DEF HelperExit
<1>3. TypeOK'
  <2>1. \A s \in Sessions : replies[s] \in Seq(Replies)
    BY DEF IInv, TypeOK
  <2>2. \A q \in Seq(Replies) : n < Len(q) => SubSeq(q, 1, n) \in Seq(Replies)
    <3> TAKE q \in Seq(Replies)
    <3> SUFFICES ASSUME n < Len(q) PROVE \A i \in 1..n : q[i] \in Replies
      BY SubSeqProperties
    <3>1. \A i \in 1..n : i \in 1..Len(q)
      BY LenProperties
    <3> QED
      BY <3>1, ElementOfSeq
  <2>3. replies' \in [Sessions -> Seq(Replies)]
    BY <1>2, <2>1, <2>2
  <2>4. NoFrame \in Frames
    BY VersionAssumption DEF Frames, NoFrame
  <2>5. requests' \in [Sessions -> Seq({"auth", "frame"})]
    <3>1. <<>> \in Seq({"auth", "frame"})
      OBVIOUS
    <3> QED
      BY <1>1, <3>1
  <2> QED
    BY <1>1, <2>3, <2>4, <2>5 DEF IInv, TypeOK, hook
<1>4. Locking'
  BY <1>1 DEF IInv, Locking, hook
<1>5. Serving'
  <2>1. \A s \in Sessions : link[s] \in {"none", "abandoned"} => replies'[s] = <<>>
    <3> SUFFICES ASSUME NEW s \in Sessions, link[s] \in {"none", "abandoned"} PROVE replies'[s] = <<>>
      OBVIOUS
    <3>1. replies[s] = <<>> /\ Len(<<>>) = 0
      BY DEF IInv, Serving
    <3> QED
      BY <1>2, <3>1
  <2>2. \A s \in Sessions : link'[s] = (IF link[s] \in {"open", "shut"} THEN "shut" ELSE "none")
                            /\ (link'[s] = "none" => link[s] \in {"none", "abandoned"})
    BY <1>1 DEF IInv, TypeOK
  <2>3. /\ UNCHANGED <<connection, valid>> /\ Main \in Grabbers /\ Sessions \subseteq Grabbers
        /\ \A s \in Sessions : requests'[s] = <<>> /\ ~authenticated'[s]
        /\ \A g \in Grabbers : session'[g] = "none"
    BY <1>1 DEF hook, Grabbers
  <2> QED
    BY <1>1, <2>1, <2>2, <2>3 DEF IInv, Serving
<1>6. \A g \in Grabbers : session'[g] # "grabbed" /\ grabbed'[g] = NoFrame
  BY <1>1
<1>7. \A v \in Nat : Above(v) => Above(v)'
  BY <1>1, <1>6, NothingOlder, NumbersTyped DEF IInv
<1>8. Ordered'
  <2>1. NoFrame.version = 0 /\ desktop'.version >= 0
    BY <1>1, NumbersTyped DEF NoFrame, IInv
  <2> QED
    BY <1>1, <1>6, <1>7, <2>1, NumbersTyped DEF IInv, Ordered, hook
<1>9. \A c \in Sessions : connection' = c => Talking(c)'
  <2> SUFFICES ASSUME NEW c \in Sessions, connection' = c PROVE Talking(c)'
    OBVIOUS
  <2>1. Talking(c) /\ UNCHANGED <<lock, pc, reply, asked, had>>
    BY <1>1 DEF IInv, hook
  <2>2. link'[c] # "open"
    BY <1>1
  <2>3. replies'[c] = (IF n < Len(replies[c]) THEN SubSeq(replies[c], 1, n) ELSE replies[c])
    BY <1>2
  <2>4. replies[c] = <<>> => replies'[c] = <<>>
    <3>1. Len(<<>>) = 0
      OBVIOUS
    <3> QED
      BY <2>3, <3>1
  <2>5. \A t \in Threads :
          /\ replies[c] \in AuthAnswers => replies'[c] \in AuthAnswers
          /\ replies[c] \in HeaderAnswers(t) => replies'[c] \in HeaderAnswers(t)
          /\ replies[c] \in PixelAnswers(t) => replies'[c] \in PixelAnswers(t)
    BY <2>3, Cut
  <2>6. \A t \in Threads :
          HeaderAnswers(t) \subseteq HeaderAnswers(t)' /\ PixelAnswers(t) \subseteq PixelAnswers(t)'
    BY <1>7, <2>1, AnswersStay
  <2>7. UNCHANGED AuthAnswers
    BY DEF AuthAnswers, Auth
  <2> QED
    BY <2>1, <2>2, <2>4, <2>5, <2>6, <2>7 DEF Talking, Waiting
<1>10. Drawn'
  BY <1>1 DEF IInv, Drawn, hook
<1> QED
  BY <1>3, <1>4, <1>5, <1>8, <1>9, <1>10 DEF IInv

LEMMA HelperStartKeeps ==
    ASSUME IInv, HelperStart
    PROVE  IInv'
<1>1. /\ ~running /\ running' = TRUE /\ token' \in Tokens \cup {NoToken} /\ onRequest' \in BOOLEAN
      /\ session' = [session EXCEPT ![Main] = IF onRequest' THEN "grab" ELSE "none"]
      /\ UNCHANGED <<hook, stream, frame, kwin, authenticated, grabbed, desktop>>
  BY DEF HelperStart
<1>2. /\ \A g \in Grabbers : session[g] = "none"
      /\ frame = NoFrame /\ \A s \in Sessions : ~authenticated[s]
  BY <1>1 DEF IInv, TypeOK, Serving
<1>3. /\ \A s \in Sessions : session'[s] = "none"
      /\ session'[Main] = (IF onRequest' THEN "grab" ELSE "none")
  BY <1>1, <1>2, NoneAssumption DEF IInv, TypeOK, Grabbers
<1>4. \A g \in Grabbers : session'[g] # "none" => g = Main /\ session'[g] = "grab" /\ onRequest'
  BY <1>3 DEF Grabbers
<1>5. TypeOK'
  <2>1. session' \in [Grabbers -> {"none", "read", "grab", "grabbed", "serve"}]
    BY <1>1 DEF IInv, TypeOK
  <2> QED
    BY <1>1, <2>1 DEF IInv, TypeOK, hook, stream
<1>6. Locking'
  BY <1>1 DEF IInv, Locking, hook
<1>7. Serving'
  BY <1>1, <1>2, <1>3, <1>4 DEF IInv, Serving, hook, stream, Grabbers
<1>8. \A v \in Nat : Above(v) => Above(v)'
  BY <1>1, <1>4, NothingOlder, NumbersTyped DEF IInv
<1>9. Ordered'
  BY <1>1, <1>8, NumbersTyped DEF IInv, Ordered, hook
<1>10. \A c \in Sessions : connection' = c => Talking(c)'
  <2>1. \A c \in Sessions : session[c] = "read" <=> session'[c] = "read"
    BY <1>2, <1>3 DEF Grabbers
  <2> QED
    BY <1>1, <1>8, <2>1, TalkingGoesOn
<1>11. Drawn'
  BY <1>1 DEF IInv, Drawn, hook
<1> QED
  BY <1>5, <1>6, <1>7, <1>9, <1>10, <1>11 DEF IInv

LEMMA RedrawKeeps ==
    ASSUME IInv, Redraw
    PROVE  IInv'
<1>1. PICK size \in Sizes :
        /\ desktop.version < MaxVersion
        /\ desktop' = [version |-> desktop.version + 1, size |-> size]
        /\ UNCHANGED <<hook, stream, helper>>
  BY DEF Redraw
<1>2. UNCHANGED <<running, token, onRequest, frame, kwin, session, authenticated, grabbed>>
  BY <1>1 DEF helper
<1>3. desktop'.version = desktop.version + 1 /\ desktop'.size \in Sizes /\ desktop' \in Frames
  BY <1>1, NumbersTyped, VersionAssumption DEF IInv, Frames
<1>4. TypeOK'
  BY <1>1, <1>3 DEF IInv, TypeOK, hook, stream, helper
<1>5. Locking'
  BY <1>1 DEF IInv, Locking, hook
<1>6. Serving'
  BY <1>1 DEF IInv, Serving, hook, stream, helper
<1>7. \A v \in Nat : Above(v) => Above(v)'
  BY <1>2, <1>3, NothingOlder, NumbersTyped DEF IInv
<1>8. Ordered'
  BY <1>1, <1>2, <1>3, <1>7, NumbersTyped DEF IInv, Ordered, hook
<1>9. \A c \in Sessions : connection' = c => Talking(c)'
  BY <1>1, <1>2, <1>7, TalkingGoesOn
<1>10. Drawn'
  BY <1>1 DEF IInv, Drawn, hook
<1> QED
  BY <1>4, <1>5, <1>6, <1>8, <1>9, <1>10 DEF IInv

LEMMA StutterKeeps ==
    ASSUME IInv, UNCHANGED vars
    PROVE  IInv'
<1>1. UNCHANGED <<hook, stream, running, token, onRequest, frame, kwin, session, authenticated,
                  grabbed, desktop>>
  BY DEF vars, helper
<1>2. TypeOK' /\ Locking' /\ Serving' /\ Drawn'
  BY <1>1 DEF IInv, TypeOK, Locking, Serving, Drawn, hook, stream
<1>3. \A v \in Nat : Above(v) => Above(v)'
  BY <1>1, NothingTouched
<1>4. Ordered'
  BY <1>1, <1>3, NumbersTyped DEF IInv, Ordered, hook
<1>5. \A c \in Sessions : connection' = c => Talking(c)'
  BY <1>1, <1>3, TalkingGoesOn
<1> QED
  BY <1>2, <1>4, <1>5 DEF IInv

-----------------------------------------------------------------------------

LEMMA InitHolds == Init => IInv
<1> SUFFICES ASSUME Init PROVE IInv
  OBVIOUS
<1>1. TypeOK
  <2>1. NoFrame \in Frames /\ desktop \in Frames
    BY VersionAssumption, SizeAssumption DEF Init, Frames, NoFrame
  <2>2. <<>> \in Seq({"auth", "frame"}) /\ <<>> \in Seq(Replies)
    OBVIOUS
  <2>3. /\ requests \in [Sessions -> Seq({"auth", "frame"})] /\ replies \in [Sessions -> Seq(Replies)]
        /\ got \in [Threads -> Frames] /\ grabbed \in [Grabbers -> Frames]
    BY <2>1, <2>2 DEF Init
  <2>4. 0 \in 0..MaxVersion
    BY VersionAssumption
  <2> QED
    BY <2>1, <2>3, <2>4 DEF Init, TypeOK
<1>2. Locking
  BY NoneAssumption DEF Init, Locking, Inside
<1>3. Serving
  BY NoneAssumption DEF Init, Serving, Grabbers
<1>4. \A g \in Grabbers : session[g] # "grabbed" /\ grabbed[g] = NoFrame
  BY DEF Init
<1>5. Ordered
  BY <1>4, SizeAssumption DEF Init, Ordered, Above, NoFrame
<1>6. \A c \in Sessions : connection # c
  BY NoneAssumption DEF Init
<1>7. Drawn
  BY DEF Init, Drawn
<1> QED
  BY <1>1, <1>2, <1>3, <1>5, <1>6, <1>7 DEF IInv

LEMMA NextKeeps ==
    ASSUME IInv, [Next]_vars
    PROVE  IInv'
<1>1. CASE \E t \in Threads : Call(t) \/ ThreadStep(t)
  BY <1>1, CallKeeps, ConnectKeeps, AuthReplyKeeps, SendKeeps, HeaderKeeps, PixelsKeeps, TimeoutKeeps,
     ReturnKeeps DEF ThreadStep
<1>2. CASE \E s \in Sessions : SessionStep(s)
  BY <1>2, ReadAuthKeeps, ReadRequestKeeps, ServeKeeps, ReadEofKeeps DEF SessionStep
<1>3. CASE \E g \in Grabbers : Grab(g) \/ PublishGrab(g)
  BY <1>3, GrabKeeps, PublishGrabKeeps
<1>4. CASE HostCleanup \/ PublishSample \/ HelperExit \/ HelperStart \/ Redraw
  BY <1>4, HostCleanupKeeps, PublishSampleKeeps, HelperExitKeeps, HelperStartKeeps, RedrawKeeps
<1>5. CASE UNCHANGED vars
  BY <1>5, StutterKeeps
<1> QED
  BY <1>1, <1>2, <1>3, <1>4, <1>5 DEF Next

(***************************************************************************)
(* Threads, connections and frames stay in the invariant: whatever UU's    *)
(* threads (wayland_capture_hook.c:111-332), the helper's sessions         *)
(* (wayland_capture_helper.cpp:1210-1304) and the compositor do.           *)
(***************************************************************************)
THEOREM Invariance == Spec => []IInv
<1>1. Init => IInv
  BY InitHolds
<1>2. IInv /\ [Next]_vars => IInv'
  BY NextKeeps
<1> QED
  BY <1>1, <1>2, PTL DEF Spec

(***************************************************************************)
(* Every variable keeps its type: no thread leaves request_frame's steps,  *)
(* and no message is of a kind that the other side cannot read.            *)
(***************************************************************************)
THEOREM TypeCorrect == Spec => []TypeOK
<1>1. IInv => TypeOK
  BY DEF IInv
<1> QED
  BY <1>1, Invariance, PTL

(***************************************************************************)
(* UU draws whole frames: StretchDIBits gets pixels of the size that the   *)
(* header announced (wayland_capture_hook.c:240-305), because header and   *)
(* pixels were read under one lock (wayland_capture_helper.cpp:1281-1293). *)
(***************************************************************************)
THEOREM FramesWhole == Spec => []FrameWhole
<1>1. IInv => FrameWhole
  BY DEF IInv, Drawn, FrameWhole
<1> QED
  BY <1>1, Invariance, PTL

(***************************************************************************)
(* No frame that UU draws is older than what was published, or received,   *)
(* when it was asked for: kwin_capture_mutex keeps screenshots in order,   *)
(* and a failed request costs the connection (the label fail).             *)
(***************************************************************************)
THEOREM FramesFresh == Spec => []FrameFresh
<1>1. IInv => FrameFresh
  BY DEF IInv, Drawn, FrameFresh
<1> QED
  BY <1>1, Invariance, PTL

(***************************************************************************)
(* A request is answered with status 1 only if the helper had no frame     *)
(* when it was sent (wayland_capture_helper.cpp:1275-1278).                *)
(***************************************************************************)
THEOREM LastFrameIsServed == Spec => []LastFrameServed
<1>1. IInv => LastFrameServed
  <2> SUFFICES ASSUME IInv, NEW t \in Threads, pc[t] = "header", Incoming # <<>>, ~Head(Incoming).ok
               PROVE  ~had[t]
    BY DEF LastFrameServed
  <2>1. connection \in Sessions /\ Talking(connection)
    BY DEF IInv, TypeOK, Locking, Inside
  <2>2. replies[connection] \in HeaderAnswers(t)
    BY <2>1 DEF Talking
  <2> QED
    BY <2>2, HeaderTaken DEF Incoming
<1> QED
  BY <1>1, Invariance, PTL

(***************************************************************************)
(* The connection that waits for the next BitBlt carries nothing of the    *)
(* last one, and is authenticated (wayland_capture_hook.c:188-237).        *)
(***************************************************************************)
THEOREM ConnectionIsClean == Spec => []ConnectionClean
<1>1. IInv => ConnectionClean
  <2> SUFFICES ASSUME IInv, lock = NoThread, connection # NoSession PROVE ConnectionClean!2
    BY DEF ConnectionClean
  <2>1. connection \in Sessions /\ Talking(connection)
    BY DEF IInv, TypeOK
  <2>2. authenticated[connection] => token \in {NoToken, HookToken}
    BY <2>1 DEF IInv, Serving
  <2> QED
    BY <2>1, <2>2 DEF Talking, Waiting
<1> QED
  BY <1>1, Invariance, PTL

=============================================================================
