---------------------------- MODULE DockerImagesProofs ----------------------------
(***************************************************************************)
(* Proofs about DockerImages for every set of scripts, any number of key   *)
(* pairs, and any number of faults.                                        *)
(***************************************************************************)
EXTENDS DockerImagesInv, SequenceTheorems, TLAPS

-------------------------------------------------------------------------------
\* What the lemmas below go through.

\* The next-state relation, action by action (start_kgdb.py, docker_runner.py,
\* debugger.py).
LEMMA Steps ==
    ASSUME NEW P,
           \A m \in Modes : Begin(m) => P,
           Construct => P, WritePrivate => P, WritePublic => P, HandleGdbChange => P,
           CheckExisting => P, BuildBase => P, BuildImage => P, RunContainer => P,
           Done \/ End => P, Stop => P, LoseKeys => P, Edit => P,
           UNCHANGED vars => P,
           [Next]_vars
    PROVE  P
BY DEF Next, Process

\* What a mode plans are runners, and updating the base image
\* (start_kgdb.py:63-125).
LEMMA PlansType ==
    ASSUME NEW m \in Modes
    PROVE  Plans(m) \subseteq Seq(Runners \cup {"base"})
<1> DEFINE R == Runners \cup {"base"}
<1>1. Builds \subseteq Seq(R)
  <2>1. <<>> \in Seq(R) /\ <<"kbuilder">> \in Seq(R) /\ <<"rootfs">> \in Seq(R)
    BY DEF Runners
  <2>2. ASSUME NEW x \in Builds PROVE x \in Seq(R)
    <3>1. PICK b \in {<<>>, <<"kbuilder">>}, f \in {<<>>, <<"rootfs">>} : x = b \o f
        BY DEF Builds
    <3>2. b \in Seq(R) /\ f \in Seq(R)
        BY <2>1
    <3> QED
        BY <3>1, <3>2, ConcatProperties
  <2> QED
    BY <2>2
<1>2. ASSUME NEW b \in Builds
      PROVE  b \o <<"debuggee", "debugger">> \in Seq(R) /\ b \o <<"debuggee">> \in Seq(R)
    BY <1>1, ConcatProperties DEF Runners
<1>3. \A r \in Runners : <<r>> \in Seq(R)
    OBVIOUS
<1>4. /\ <<>> \in Seq(R)
      /\ <<"debuggee", "debugger">> \in Seq(R)
      /\ <<"base", "kbuilder", "rootfs", "debuggee", "debugger">> \in Seq(R)
    BY DEF Runners
<1>5. CASE m = "session"
    BY <1>2, <1>5 DEF Plans
<1>6. CASE m = "ctf"
    BY <1>4, <1>6 DEF Plans
<1>7. CASE m = "partial"
    BY <1>2, <1>3, <1>4, <1>7 DEF Plans, Runners
<1>8. CASE m = "update"
    BY <1>3, <1>4, <1>8 DEF Plans
<1> QED
    BY <1>5, <1>6, <1>7, <1>8 DEF Modes

\* The runner at work is one of them, and so are those left when it is done.
LEMMA QueueType ==
    ASSUME queue \in Seq(Runners \cup {"base"}), queue # <<>>
    PROVE  Runner \in Runners \cup {"base"} /\ Tail(queue) \in Seq(Runners \cup {"base"})
BY DEF Runner

-------------------------------------------------------------------------------
\* Types.

\* The initial states have the right types.
LEMMA InitType == Init => TypeOK
<1> SUFFICES ASSUME Init PROVE TypeOK
    OBVIOUS
<1>1. Values
    BY ImagesAssumption DEF Init, Values
<1>2. Flags
    BY DEF Init, Flags
<1> QED
    BY <1>1, <1>2 DEF TypeOK

\* Every step keeps every variable that is no flag in its type.
LEMMA NextValues == Values /\ [Next]_vars => Values'
<1> SUFFICES ASSUME Values, [Next]_vars PROVE Values'
    OBVIOUS
<1> USE ImagesAssumption DEF Values, keys, images, plan, At, Goto, Proceed, Exit, Fault
<1>1. ASSUME NEW m \in Modes, Begin(m) PROVE Values'
    BY <1>1, PlansType DEF Begin, Modes
<1>2. Construct => Values'
    BY DEF Construct
<1>3. WritePrivate => Values'
    BY DEF WritePrivate
<1>4. WritePublic => Values'
    BY DEF WritePublic
<1>5. HandleGdbChange => Values'
    BY DEF HandleGdbChange
<1>6. CheckExisting => Values'
    BY DEF CheckExisting, ToBuild
<1>7. ASSUME BuildBase PROVE Values'
  <2>1. Tail(queue) \in Seq(Runners \cup {"base"})
    BY <1>7, QueueType DEF BuildBase
  <2>2. queue' \in Seq(Runners \cup {"base"}) /\ pc' \in {"idle", "next", "build", "run"}
    BY <1>7, <2>1 DEF BuildBase
  <2>3. base' \in 0 .. MaxKeys /\ faults' \in 0 .. MaxFaults
    BY <1>7 DEF BuildBase
  <2> QED
    BY <1>7, <2>2, <2>3 DEF BuildBase
<1>8. ASSUME BuildImage PROVE Values'
  <2>1. Tail(queue) \in Seq(Runners \cup {"base"})
    BY <1>8, QueueType DEF BuildImage
  <2>2. queue' \in Seq(Runners \cup {"base"}) /\ pc' \in {"idle", "next", "build", "run"}
    BY <1>8, <2>1 DEF BuildImage
  <2>3. image' \in [Runners -> 0 .. MaxKeys] /\ faults' \in 0 .. MaxFaults
    BY <1>8 DEF BuildImage
  <2>4. baked' \in Scripts \cup {NoScript}
    BY <1>8 DEF BuildImage
  <2> QED
    BY <1>8, <2>2, <2>3, <2>4 DEF BuildImage
<1>9. ASSUME RunContainer PROVE Values'
  <2>1. Tail(queue) \in Seq(Runners \cup {"base"})
    BY <1>9, QueueType DEF RunContainer
  <2>2. queue' \in Seq(Runners \cup {"base"}) /\ pc' \in {"idle", "next"}
    <3>1. <<>> \in Seq(Runners \cup {"base"})
        OBVIOUS
    <3>2. \/ queue' = Tail(queue) /\ pc' = "next"
          \/ queue' = <<>> /\ pc' = "idle"
        BY <1>9 DEF RunContainer
    <3> QED
        BY <2>1, <3>1, <3>2
  <2>3. code' \in {"none", "0", "1", "-1", "-2", "killed"}
    BY <1>9 DEF RunContainer
  <2> QED
    BY <1>9, <2>2, <2>3 DEF RunContainer
<1>10. ASSUME Done \/ End PROVE Values'
  <2>1. CASE Done
    BY <2>1 DEF Done
  <2>2. CASE End
    BY <2>2 DEF End
  <2> QED
    BY <1>10, <2>1, <2>2
<1>11. Stop => Values'
    BY DEF Stop
<1>12. LoseKeys => Values'
    BY DEF LoseKeys
<1>13. Edit => Values'
    BY DEF Edit
<1>14. UNCHANGED vars => Values'
    BY DEF vars
<1> QED
    BY Steps, <1>1, <1>2, <1>3, <1>4, <1>5, <1>6, <1>7, <1>8, <1>9, <1>10, <1>11,
       <1>12, <1>13, <1>14

\* Every step keeps the flags Boolean.
LEMMA NextFlags == Flags /\ [Next]_vars => Flags'
<1> SUFFICES ASSUME Flags, [Next]_vars PROVE Flags'
    OBVIOUS
<1> USE DEF Flags
<1>1. ASSUME NEW m \in Modes, Begin(m) PROVE Flags'
    BY <1>1 DEF Begin
<1>2. Construct => Flags'
    BY DEF Construct
<1>3. WritePrivate => Flags'
    BY DEF WritePrivate
<1>4. WritePublic => Flags'
    BY DEF WritePublic
<1>5. HandleGdbChange => Flags'
    BY DEF HandleGdbChange
<1>6. CheckExisting => Flags'
    BY DEF CheckExisting
<1>7. BuildBase => Flags'
    BY DEF BuildBase
<1>8. BuildImage => Flags'
    BY DEF BuildImage
<1>9. RunContainer => Flags'
    BY DEF RunContainer
<1>10. Done \/ End => Flags'
    BY DEF Done, End
<1>11. Stop => Flags'
    BY DEF Stop
<1>12. LoseKeys => Flags'
    BY DEF LoseKeys
<1>13. Edit => Flags'
    BY DEF Edit
<1>14. UNCHANGED vars => Flags'
    BY DEF vars
<1> QED
    BY Steps, <1>1, <1>2, <1>3, <1>4, <1>5, <1>6, <1>7, <1>8, <1>9, <1>10, <1>11,
       <1>12, <1>13, <1>14

\* A step of DockerRunner.run is only reached with a runner it is made for.
LEMMA NextPlaces == Values /\ Places /\ [Next]_vars => Places'
<1> SUFFICES ASSUME Values, Places, [Next]_vars PROVE Places'
    OBVIOUS
<1> USE DEF Places, Values, keys, images, plan, Runner, At, Goto, Proceed, Exit, Fault
<1>1. ASSUME NEW m \in Modes, Begin(m) PROVE Places'
    BY <1>1 DEF Begin
<1>2. Construct => Places'
    BY QueueType DEF Construct, Runners
<1>3. WritePrivate => Places'
    BY DEF WritePrivate
<1>4. WritePublic => Places'
    BY DEF WritePublic
<1>5. HandleGdbChange => Places'
    BY DEF HandleGdbChange
<1>6. CheckExisting => Places'
    BY DEF CheckExisting, ToBuild
<1>7. BuildBase => Places'
    BY QueueType DEF BuildBase
<1>8. BuildImage => Places'
    BY DEF BuildImage
<1>9. RunContainer => Places'
    BY DEF RunContainer
<1>10. Done \/ End => Places'
    BY DEF Done, End
<1>11. Stop => Places'
    BY DEF Stop
<1>12. LoseKeys => Places'
    BY DEF LoseKeys
<1>13. Edit => Places'
    BY DEF Edit
<1>14. UNCHANGED vars => Places'
    BY DEF vars
<1> QED
    BY Steps, <1>1, <1>2, <1>3, <1>4, <1>5, <1>6, <1>7, <1>8, <1>9, <1>10, <1>11,
       <1>12, <1>13, <1>14

\* What is built is built on a base image, which is never removed.
LEMMA NextBased == Values /\ Places /\ Based /\ [Next]_vars => Based'
<1> SUFFICES ASSUME Values, Places, Based, [Next]_vars PROVE Based'
    OBVIOUS
<1> USE DEF Based, Values, keys, images, plan, Runner, At, Goto, Proceed, Exit, Fault
<1>1. ASSUME NEW m \in Modes, Begin(m) PROVE Based'
    BY <1>1 DEF Begin
<1>2. Construct => Based'
    BY DEF Construct
<1>3. WritePrivate => Based'
    BY DEF WritePrivate
<1>4. WritePublic => Based'
    BY DEF WritePublic
<1>5. HandleGdbChange => Based'
    BY DEF HandleGdbChange
<1>6. CheckExisting => Based'
    BY DEF CheckExisting
<1>7. BuildBase => Based'
    BY DEF BuildBase, CanBuildBase
<1>8. BuildImage => Based'
    BY DEF BuildImage, CanBuild, Places
<1>9. RunContainer => Based'
    BY DEF RunContainer
<1>10. Done \/ End => Based'
    BY DEF Done, End
<1>11. Stop => Based'
    BY DEF Stop
<1>12. LoseKeys => Based'
    BY DEF LoseKeys
<1>13. Edit => Based'
    BY DEF Edit
<1>14. UNCHANGED vars => Based'
    BY DEF vars
<1> QED
    BY Steps, <1>1, <1>2, <1>3, <1>4, <1>5, <1>6, <1>7, <1>8, <1>9, <1>10, <1>11,
       <1>12, <1>13, <1>14

\* The hash follows the script and the image the hash (debugger.py:66-83).
LEMMA NextHashed == Values /\ Places /\ Based /\ faults = 0 /\ faults' = 0 /\ Hashed /\ [Next]_vars => Hashed'
<1> SUFFICES ASSUME Values, Places, Based, faults = 0, faults' = 0, Hashed, [Next]_vars PROVE Hashed'
    OBVIOUS
<1> USE DEF Hashed, Rebuilding, Places, Values, keys, images, plan, Runner, At, Goto, Proceed, Exit, Fault
<1>1. ASSUME NEW m \in Modes, Begin(m) PROVE Hashed'
    BY <1>1 DEF Begin
<1>2. Construct => Hashed'
    BY DEF Construct
<1>3. WritePrivate => Hashed'
    BY DEF WritePrivate
<1>4. WritePublic => Hashed'
    BY DEF WritePublic
<1>5. ASSUME HandleGdbChange PROVE Hashed'
  <2>1. hist' = script /\ script' = script /\ script \in Scripts
    BY <1>5 DEF HandleGdbChange
  <2>2. image["debugger"] # 0 => baked = hist /\ hist \in Scripts
    BY <1>5 DEF HandleGdbChange
  <2>3. image["debugger"] # 0 /\ ~forced' => baked' = hist'
    BY <1>5, <2>2, ImagesAssumption DEF HandleGdbChange
  <2>4. At("check")' /\ image' = image /\ Runner' = Runner /\ Runner = "debugger"
    BY <1>5 DEF HandleGdbChange
  <2> QED
    BY <2>1, <2>3, <2>4
<1>6. CheckExisting => Hashed'
    BY DEF CheckExisting, ToBuild
<1>7. BuildBase => Hashed'
    BY DEF BuildBase
<1>8. BuildImage => Hashed'
    BY DEF BuildImage, CanBuild, Based, Runners
<1>9. RunContainer => Hashed'
    BY DEF RunContainer
<1>10. Done \/ End => Hashed'
    BY DEF Done, End
<1>11. Stop => Hashed'
    BY DEF Stop
<1>12. LoseKeys => Hashed'
    BY DEF LoseKeys
<1>13. Edit => Hashed'
    BY DEF Edit
<1>14. UNCHANGED vars => Hashed'
    BY DEF vars
<1> QED
    BY Steps, <1>1, <1>2, <1>3, <1>4, <1>5, <1>6, <1>7, <1>8, <1>9, <1>10, <1>11,
       <1>12, <1>13, <1>14

\* The key pair is made once, before any image (docker_runner.py:39-47).
LEMMA NextOnePair == Values /\ Places /\ Based /\ faults = 0 /\ faults' = 0 /\ OnePair /\ [Next]_vars => OnePair'
<1> SUFFICES ASSUME Values, Places, Based, faults = 0, faults' = 0, OnePair, [Next]_vars PROVE OnePair'
    OBVIOUS
<1> USE DEF OnePair, Places, Values, keys, images, plan, Runner, At, Goto, Proceed, Exit, Fault
<1>1. ASSUME NEW m \in Modes, Begin(m) PROVE OnePair'
    BY <1>1 DEF Begin
<1>2. Construct => OnePair'
    BY DEF Construct
<1>3. WritePrivate => OnePair'
    BY DEF WritePrivate
<1>4. WritePublic => OnePair'
    BY DEF WritePublic
<1>5. HandleGdbChange => OnePair'
    BY DEF HandleGdbChange
<1>6. CheckExisting => OnePair'
    BY DEF CheckExisting, ToBuild
<1>7. BuildBase => OnePair'
    BY DEF BuildBase, CanBuildBase
<1>8. BuildImage => OnePair'
    BY DEF BuildImage, CanBuild
<1>9. RunContainer => OnePair'
    BY DEF RunContainer
<1>10. Done \/ End => OnePair'
    BY DEF Done, End
<1>11. Stop => OnePair'
    BY DEF Stop
<1>12. LoseKeys => OnePair'
    BY DEF LoseKeys
<1>13. Edit => OnePair'
    BY DEF Edit
<1>14. UNCHANGED vars => OnePair'
    BY DEF vars
<1> QED
    BY Steps, <1>1, <1>2, <1>3, <1>4, <1>5, <1>6, <1>7, <1>8, <1>9, <1>10, <1>11,
       <1>12, <1>13, <1>14

\* Building an image builds its base first (docker_runner.py:112-126).
LEMMA NextAvailable == Values /\ Places /\ Based /\ faults = 0 /\ faults' = 0 /\ OnePair /\ Available /\ [Next]_vars => Available'
<1> SUFFICES ASSUME Values, Places, Based, faults = 0, faults' = 0, OnePair, Available, [Next]_vars PROVE Available'
    OBVIOUS
<1> USE DEF OnePair, Available, Places, Values, keys, images, plan, Runner, At, Goto, Proceed, Exit, Fault
<1>1. ASSUME NEW m \in Modes, Begin(m) PROVE Available'
    BY <1>1 DEF Begin
<1>2. Construct => Available'
    BY DEF Construct
<1>3. WritePrivate => Available'
    BY DEF WritePrivate
<1>4. WritePublic => Available'
    BY DEF WritePublic
<1>5. HandleGdbChange => Available'
    BY DEF HandleGdbChange
<1>6. CheckExisting => Available'
    BY DEF CheckExisting, ToBuild
<1>7. BuildBase => Available'
    BY DEF BuildBase, CanBuildBase
<1>8. BuildImage => Available'
    BY DEF BuildImage, CanBuild
<1>9. RunContainer => Available'
    BY DEF RunContainer
<1>10. Done \/ End => Available'
    BY DEF Done, End
<1>11. Stop => Available'
    BY DEF Stop
<1>12. LoseKeys => Available'
    BY DEF LoseKeys
<1>13. Edit => Available'
    BY DEF Edit
<1>14. UNCHANGED vars => Available'
    BY DEF vars
<1> QED
    BY Steps, <1>1, <1>2, <1>3, <1>4, <1>5, <1>6, <1>7, <1>8, <1>9, <1>10, <1>11,
       <1>12, <1>13, <1>14

-------------------------------------------------------------------------------
\* Failed builds.

\* Only -u 1 plans the builder elsewhere than first, and only it the base image
\* (start_kgdb.py:64-103,218-234).
LEMMA PlansOrder ==
    ASSUME NEW m \in Modes, NEW q \in Plans(m)
    PROVE  /\ \A i \in 2 .. Len(q) : q[i] # "base" /\ (m # "update" => q[i] # "kbuilder")
           /\ m # "update" /\ q # <<>> => q[1] # "base"
<1> DEFINE R == Runners \cup {"base"}
           Fine(s) == /\ \A i \in 2 .. Len(s) : s[i] \notin {"base", "kbuilder"}
                      /\ s # <<>> => s[1] # "base"
<1>1. Fine(<<>>)
    OBVIOUS
<1>2. ASSUME NEW r \in Runners PROVE Fine(<<r>>)
    BY DEF Runners
<1>3. Fine(<<"debuggee", "debugger">>)
    OBVIOUS
<1>4. ASSUME NEW b \in Builds, NEW t \in {<<"debuggee", "debugger">>, <<"debuggee">>}
      PROVE  Fine(b \o t)
  <2>1. PICK k \in {<<>>, <<"kbuilder">>}, f \in {<<>>, <<"rootfs">>} : b = k \o f
      BY DEF Builds
  <2>2. k \in Seq(R) /\ f \in Seq(R) /\ t \in Seq(R)
    <3>1. <<>> \in Seq(R) /\ <<"kbuilder">> \in Seq(R) /\ <<"rootfs">> \in Seq(R)
        BY DEF Runners
    <3>2. <<"debuggee", "debugger">> \in Seq(R) /\ <<"debuggee">> \in Seq(R)
        BY DEF Runners
    <3> QED
        BY <3>1, <3>2
  <2>3. b \in Seq(R) /\ Len(b) = Len(k) + Len(f)
        /\ \A i \in 1 .. Len(b) : b[i] = IF i <= Len(k) THEN k[i] ELSE f[i - Len(k)]
      BY <2>1, <2>2, ConcatProperties
  <2>4. Len(b \o t) = Len(b) + Len(t)
        /\ \A i \in 1 .. Len(b \o t) : (b \o t)[i] = IF i <= Len(b) THEN b[i] ELSE t[i - Len(b)]
      BY <2>2, <2>3, ConcatProperties
  <2>5. Len(k) \in 0 .. 1 /\ \A i \in 1 .. Len(k) : k[i] = "kbuilder"
      BY <2>1
  <2>6. Len(f) \in 0 .. 1 /\ \A i \in 1 .. Len(f) : f[i] = "rootfs"
      BY <2>1
  <2>7. Len(t) \in 1 .. 2 /\ \A i \in 1 .. Len(t) : t[i] \in {"debuggee", "debugger"}
      BY <2>2
  <2>8. ASSUME NEW i \in 1 .. Len(b \o t)
        PROVE  (b \o t)[i] # "base" /\ (i > 1 => (b \o t)[i] # "kbuilder")
    <3>1. CASE i <= Len(k)
        BY <2>3, <2>4, <2>5, <2>6, <3>1
    <3>2. CASE i > Len(k) /\ i <= Len(b)
        BY <2>3, <2>4, <2>5, <2>6, <3>2
    <3>3. CASE i > Len(b)
        BY <2>3, <2>4, <2>5, <2>6, <2>7, <3>3
    <3> QED
        BY <2>3, <2>5, <2>6, <3>1, <3>2, <3>3
  <2>9. Len(b \o t) \in Nat /\ (b \o t # <<>> => 1 \in 1 .. Len(b \o t))
      BY <2>3, <2>4, <2>5, <2>6, <2>7
  <2> QED
      BY <2>8, <2>9
<1>5. CASE m = "session"
    BY <1>4, <1>5 DEF Plans
<1>6. CASE m = "ctf"
    BY <1>3, <1>6 DEF Plans
<1>7. CASE m = "partial"
    BY <1>1, <1>2, <1>4, <1>7 DEF Plans, Runners
<1>8. CASE m = "update"
  <2>1. CASE q = <<"base", "kbuilder", "rootfs", "debuggee", "debugger">>
      BY <1>8, <2>1
  <2>2. CASE q = <<>> \/ \E r \in Runners : q = <<r>>
      BY <1>8, <2>2
  <2> QED
      BY <1>8, <2>1, <2>2 DEF Plans
<1> QED
    BY <1>5, <1>6, <1>7, <1>8 DEF Modes

\* What is left when the first runner is done.
LEMMA LeftOver ==
    ASSUME Values, queue # <<>>, Proceed, \A i \in 2 .. Len(queue) : Later(i)
    PROVE  \A i \in 1 .. Len(queue') : Later(i)'
<1>1. queue' = Tail(queue) /\ mode' = mode /\ queue \in Seq(Runners \cup {"base"})
    BY DEF Proceed, Values
<1>2. Len(queue') = Len(queue) - 1 /\ \A i \in 1 .. Len(queue') : queue'[i] = queue[i + 1]
    BY <1>1
<1>3. ASSUME NEW i \in 1 .. Len(queue') PROVE Later(i)'
  <2>1. i + 1 \in 2 .. Len(queue) /\ queue'[i] = queue[i + 1]
      BY <1>1, <1>2
  <2> QED
      BY <1>1, <2>1 DEF Later
<1> QED
    BY <1>3

\* A step with the same plan leaves the order as it is, and one that ends a
\* runner or the process keeps it.
LEMMA KeptOrder ==
    ASSUME Values, Planned, UNCHANGED plan \/ (queue # <<>> /\ Proceed) \/ (\E c \in {"0", "1", "-1", "-2", "killed"} : Exit(c))
    PROVE  /\ \A i \in 2 .. Len(queue') : Later(i)'
           /\ mode' # "update" /\ queue' # <<>> => Runner' # "base"
<1>1. CASE UNCHANGED plan
    BY <1>1 DEF Planned, Later, plan, Runner
<1>2. CASE queue # <<>> /\ Proceed
  <2>1. \A i \in 1 .. Len(queue') : Later(i)'
      BY <1>2, LeftOver DEF Planned
  <2>2. Len(queue') \in Nat /\ (queue' # <<>> => 1 \in 1 .. Len(queue') /\ Runner' = queue'[1])
      BY <1>2 DEF Proceed, Values, Runner
  <2> QED
      BY <2>1, <2>2 DEF Later
<1>3. CASE \E c \in {"0", "1", "-1", "-2", "killed"} : Exit(c)
    BY <1>3 DEF Exit
<1> QED
    BY <1>1, <1>2, <1>3

\* Whatever the process does, the builder and the base image come first
\* (start_kgdb.py:64-103,218-234, kernel_builder.py:30).
LEMMA NextPlanned == Values /\ Places /\ Planned /\ [Next]_vars => Planned'
<1> SUFFICES ASSUME Values, Places, Planned, [Next]_vars PROVE Planned'
    OBVIOUS
<1> DEFINE Order == /\ \A i \in 2 .. Len(queue) : Later(i)
                    /\ mode # "update" /\ queue # <<>> => Runner # "base"
           Now == /\ mode = "update" /\ pc = "base" => Runner = "base"
                  /\ pc \in {"keypair", "check", "base", "build", "run"} /\ Runner = "kbuilder"
                         => private # 0
<1>0. Order' /\ Now' => Planned'
    BY DEF Planned, Later
<1>1. ASSUME NEW m \in Modes, Begin(m) PROVE Planned'
  <2>1. mode' = m /\ queue' \in Plans(m) /\ pc' = "next"
      BY <1>1 DEF Begin
  <2>2. queue' # <<>> => Runner' = queue'[1]
      BY DEF Runner
  <2>3. Order'
      BY <2>1, <2>2, PlansOrder DEF Later
  <2> QED
      BY <1>0, <2>1, <2>3
<1>2. Construct => Planned'
  <2> SUFFICES ASSUME Construct PROVE Planned'
      OBVIOUS
  <2>1. UNCHANGED plan
      BY DEF Construct, Goto
  <2>2. Now'
      BY <2>1 DEF Construct, Goto, At, Runner, plan, keys, Planned
  <2> QED
      BY <1>0, <2>1, <2>2, KeptOrder
<1>3. WritePrivate \/ WritePublic \/ HandleGdbChange => Planned'
  <2> SUFFICES ASSUME WritePrivate \/ WritePublic \/ HandleGdbChange PROVE Planned'
      OBVIOUS
  <2>1. UNCHANGED plan
      BY DEF WritePrivate, WritePublic, HandleGdbChange, Goto
  <2>2. Now'
    <3>1. CASE WritePrivate
        BY <2>1, <3>1 DEF WritePrivate, Goto, Values
    <3>2. CASE WritePublic
        BY <3>2 DEF WritePublic, Goto, At, Runner, plan, Planned
    <3>3. CASE HandleGdbChange
        BY <3>3 DEF HandleGdbChange, Goto, At, Runner, plan, Places
    <3> QED
        BY <3>1, <3>2, <3>3
  <2> QED
      BY <1>0, <2>1, <2>2, KeptOrder
<1>4. CheckExisting => Planned'
  <2> SUFFICES ASSUME CheckExisting PROVE Planned'
      OBVIOUS
  <2>1. UNCHANGED plan /\ UNCHANGED keys
      BY DEF CheckExisting, Goto
  <2>2. Now'
      BY <2>1 DEF CheckExisting, ToBuild, Goto, At, Runner, plan, keys, Planned
  <2> QED
      BY <1>0, <2>1, <2>2, KeptOrder
<1>5. BuildBase => Planned'
  <2> SUFFICES ASSUME BuildBase PROVE Planned'
      OBVIOUS
  <2>1. (queue # <<>> /\ Proceed /\ pc' = "next") \/ (UNCHANGED plan /\ pc' = "build")
      BY DEF BuildBase, At, Goto, Proceed
  <2>2. Now'
      BY <2>1 DEF BuildBase, At, Runner, plan, keys, Planned
  <2> QED
      BY <1>0, <2>1, <2>2, KeptOrder
<1>6. BuildImage => Planned'
  <2> SUFFICES ASSUME BuildImage PROVE Planned'
      OBVIOUS
  <2>1. (queue # <<>> /\ Proceed /\ pc' = "next") \/ (UNCHANGED plan /\ pc' = "run")
      BY DEF BuildImage, At, Goto, Proceed
  <2>2. Now'
      BY <2>1 DEF BuildImage, At, Runner, plan, keys, Planned
  <2> QED
      BY <1>0, <2>1, <2>2, KeptOrder
<1>7. RunContainer => Planned'
  <2> SUFFICES ASSUME RunContainer PROVE Planned'
      OBVIOUS
  <2>1. \/ queue # <<>> /\ Proceed /\ pc' = "next"
        \/ \E c \in {"0", "1", "-1", "-2", "killed"} : Exit(c) /\ pc' = "idle"
      BY DEF RunContainer, At, Exit, Proceed
  <2> QED
      BY <1>0, <2>1, KeptOrder
<1>8. Done => Planned'
  <2> SUFFICES ASSUME Done PROVE Planned'
      OBVIOUS
  <2>1. UNCHANGED plan /\ pc' = "up"
      BY DEF Done
  <2> QED
      BY <1>0, <2>1, KeptOrder
<1>9. End \/ Stop => Planned'
  <2> SUFFICES ASSUME End \/ Stop PROVE Planned'
      OBVIOUS
  <2>1. \E c \in {"0", "1", "-1", "-2", "killed"} : Exit(c) /\ pc' = "idle"
      BY DEF End, Stop, Exit
  <2> QED
      BY <1>0, <2>1, KeptOrder
<1>10. LoseKeys => Planned'
  <2> SUFFICES ASSUME LoseKeys PROVE Planned'
      OBVIOUS
  <2>1. UNCHANGED plan /\ pc' = "idle"
      BY DEF LoseKeys
  <2> QED
      BY <1>0, <2>1, KeptOrder
<1>11. Edit \/ UNCHANGED vars => Planned'
  <2> SUFFICES ASSUME Edit \/ UNCHANGED vars PROVE Planned'
      OBVIOUS
  <2>1. UNCHANGED <<plan, pc, keys>>
      BY DEF Edit, vars
  <2>2. Now'
      BY <2>1 DEF plan, keys, Runner, Planned
  <2> QED
      BY <1>0, <2>1, <2>2, KeptOrder
<1> QED
    BY Steps, <1>1, <1>2, <1>3, <1>4, <1>5, <1>6, <1>7, <1>8, <1>9, <1>10, <1>11

\* A process in which a build has failed does not get a base image any more:
\* the key pair it lacked, or the base image, would have had to come before
\* (docker_runner.py:112-126, kernel_builder.py:30).
LEMMA NextFailing ==
    /\ Values /\ Flags /\ Places /\ Planned /\ faults = 0 /\ faults' = 0
    /\ OnePair /\ Available /\ Failing /\ [Next]_vars
    => Failing'
<1> SUFFICES ASSUME Values, Flags, Places, Planned, faults = 0, faults' = 0,
                    OnePair, Available, Failing, [Next]_vars
             PROVE  Failing'
    OBVIOUS
<1> DEFINE Rest == \A i \in 1 .. Len(queue) : Later(i)
<1>a. ASSUME queue # <<>> PROVE 1 \in 1 .. Len(queue) /\ Runner = queue[1]
    BY <1>a DEF Values, Runner
<1>b. ASSUME UNCHANGED plan, Rest PROVE Rest'
    BY <1>b DEF Later, plan
<1>c. ASSUME queue # <<>>, Proceed PROVE Rest'
    BY <1>c, LeftOver DEF Planned
<1>d. ASSUME UNCHANGED <<plan, failed, base, public>>, pc # "idle" PROVE Failing'
    BY <1>b, <1>d DEF Failing, plan
<1>e. ~Fault("build")
    BY DEF Fault
<1>1. ASSUME NEW m \in Modes, Begin(m) PROVE Failing'
    BY <1>1 DEF Begin, Failing
<1>2. Construct \/ HandleGdbChange \/ CheckExisting \/ Done => Failing'
  <2> SUFFICES ASSUME Construct \/ HandleGdbChange \/ CheckExisting \/ Done PROVE Failing'
      OBVIOUS
  <2>1. UNCHANGED <<plan, failed, base, public>> /\ pc # "idle"
      BY DEF Construct, HandleGdbChange, CheckExisting, Done, Goto, At, keys, images
  <2> QED
      BY <1>d, <2>1
<1>3. WritePrivate => Failing'
  <2> SUFFICES ASSUME WritePrivate PROVE Failing'
      OBVIOUS
  <2>1. UNCHANGED <<plan, failed, base, public>> /\ pc # "idle"
      BY DEF WritePrivate, Goto, At, images
  <2> QED
      BY <1>d, <2>1
<1>4. WritePublic => Failing'
  <2> SUFFICES ASSUME WritePublic, failed PROVE Failing'
      BY DEF WritePublic, Failing
  <2>1. pc = "keypair" /\ queue # <<>> /\ Runner = "kbuilder"
      BY DEF WritePublic, At, Places
  <2>2. mode = "update"
      BY <1>a, <2>1 DEF Failing, Later
  <2>3. UNCHANGED <<plan, failed, base>>
      BY DEF WritePublic, Goto, images
  <2> QED
      BY <1>b, <2>1, <2>2, <2>3 DEF Failing, plan
<1>5. BuildBase => Failing'
  <2> SUFFICES ASSUME BuildBase, failed' PROVE Failing'
      BY DEF Failing
  <2>1. At("base") /\ pc = "base" /\ queue # <<>> /\ UNCHANGED <<mode, public, private>>
      BY DEF BuildBase, At, Goto, Proceed, plan, keys
  <2>2. (Runner = "base" /\ Proceed) \/ (Runner # "base" /\ UNCHANGED plan)
      BY DEF BuildBase, Goto
  <2>3. public = 0 /\ base = 0 /\ base' = 0
    <3>1. CASE failed
      <4>1. base = 0 /\ Rest /\ (mode # "update" => public = 0)
          BY <2>1, <3>1 DEF Failing
      <4>2. mode # "update"
          BY <1>a, <2>1, <4>1 DEF Planned, Later
      <4> QED
          BY <4>1, <4>2 DEF BuildBase, CanBuildBase, Fault
    <3>2. CASE ~failed
      <4>1. failed' # failed
          BY <3>2
      <4>2. public = 0 /\ base' = base
          BY <1>e, <4>1 DEF BuildBase, CanBuildBase
      <4> QED
          BY <2>1, <4>2 DEF OnePair
    <3> QED
        BY <3>1, <3>2
  <2>4. Rest'
    <3>1. CASE Runner = "base" /\ Proceed
        BY <1>c, <2>1, <3>1
    <3>2. CASE Runner # "base" /\ UNCHANGED plan
      <4>1. mode # "update" /\ private = 0
          BY <2>1, <2>3, <3>2 DEF Planned, OnePair
      <4>2. Runner # "kbuilder"
          BY <2>1, <4>1 DEF Planned
      <4>3. Later(1)
          BY <1>a, <2>1, <3>2, <4>2 DEF Later
      <4>4. Rest
          BY <4>3 DEF Planned, Values
      <4> QED
          BY <1>b, <3>2, <4>4
    <3> QED
        BY <2>2, <3>1, <3>2
  <2> QED
      BY <2>1, <2>3, <2>4 DEF Failing
<1>6. BuildImage => Failing'
  <2> SUFFICES ASSUME BuildImage, failed' PROVE Failing'
      BY DEF Failing
  <2>1. pc = "build" /\ queue # <<>> /\ UNCHANGED <<mode, public, base>>
      BY DEF BuildImage, At, Goto, Proceed, plan, keys
  <2>2. (mode = "update" /\ Proceed) \/ (mode # "update" /\ UNCHANGED plan)
      BY DEF BuildImage, Goto
  <2>3. base = 0
    <3>1. CASE failed
        BY <2>1, <3>1 DEF Failing
    <3>2. CASE ~failed
      <4>1. failed' # failed
          BY <3>2
      <4> QED
          BY <1>e, <4>1 DEF BuildImage, CanBuild
    <3> QED
        BY <3>1, <3>2
  <2>4. mode # "update" => public = 0 /\ private = 0
      BY <2>1, <2>3 DEF Available, OnePair
  <2>5. Rest'
    <3>1. CASE mode = "update" /\ Proceed
        BY <1>c, <2>1, <3>1
    <3>2. CASE mode # "update" /\ UNCHANGED plan
      <4>1. Runner \notin {"base", "kbuilder"}
          BY <2>1, <2>4, <3>2 DEF Planned
      <4>2. Later(1)
          BY <1>a, <2>1, <4>1 DEF Later
      <4>3. Rest
          BY <4>2 DEF Planned, Values
      <4> QED
          BY <1>b, <3>2, <4>3
    <3> QED
        BY <2>2, <3>1, <3>2
  <2> QED
      BY <2>1, <2>3, <2>4, <2>5 DEF Failing
<1>7. RunContainer => Failing'
  <2> SUFFICES ASSUME RunContainer PROVE Failing'
      OBVIOUS
  <2>1. pc = "run" /\ queue # <<>> /\ UNCHANGED <<failed, base, public>>
      BY DEF RunContainer, At, keys, images
  <2>2. (Proceed /\ mode' = mode) \/ pc' = "idle"
      BY DEF RunContainer, Proceed, Exit
  <2> QED
      BY <1>c, <2>1, <2>2 DEF Failing
<1>8. End \/ Stop \/ LoseKeys => Failing'
    BY DEF End, Stop, LoseKeys, Exit, Failing
<1>9. Edit \/ UNCHANGED vars => Failing'
  <2> SUFFICES ASSUME Edit \/ UNCHANGED vars PROVE Failing'
      OBVIOUS
  <2>1. UNCHANGED <<plan, failed, base, public, pc>>
      BY DEF Edit, vars, keys, images
  <2> QED
      BY <1>b, <2>1 DEF Failing, plan
<1> QED
    BY Steps, <1>1, <1>2, <1>3, <1>4, <1>5, <1>6, <1>7, <1>8, <1>9

-------------------------------------------------------------------------------
\* The theorems.

\* The inductive invariant holds at the start.
LEMMA InitInv == Init => IInv
<1> SUFFICES ASSUME Init PROVE IInv
    OBVIOUS
<1>1. Places /\ Based
    BY DEF Init, Places, Based
<1>2. Hashed /\ OnePair /\ Available
    BY DEF Init, Hashed, OnePair, Available, Rebuilding, At, Runners
<1>3. Planned /\ Failing
    BY DEF Init, Planned, Failing
<1> QED
    BY <1>1, <1>2, <1>3, InitType DEF IInv

\* Faults are counted and never forgotten.
LEMMA FaultsStay == Values /\ [Next]_vars /\ faults' = 0 => faults = 0
<1> SUFFICES ASSUME Values, [Next]_vars, faults' = 0 PROVE faults = 0
    OBVIOUS
<1> USE DEF Values, Fault
<1>1. ASSUME NEW m \in Modes, Begin(m) PROVE faults = 0
    BY <1>1 DEF Begin
<1>2. BuildBase \/ BuildImage \/ Stop \/ LoseKeys \/ Edit => faults = 0
    BY DEF BuildBase, BuildImage, Stop, LoseKeys, Edit
<1>3. Construct \/ WritePrivate \/ WritePublic \/ HandleGdbChange => faults = 0
    BY DEF Construct, WritePrivate, WritePublic, HandleGdbChange
<1>4. CheckExisting \/ RunContainer \/ Done \/ End => faults = 0
    BY DEF CheckExisting, RunContainer, Done, End
<1>5. UNCHANGED vars => faults = 0
    BY DEF vars
<1> QED
    BY Steps, <1>1, <1>2, <1>3, <1>4, <1>5

\* Every step preserves it.
LEMMA NextInv == IInv /\ [Next]_vars => IInv'
<1> SUFFICES ASSUME IInv, [Next]_vars PROVE IInv'
    OBVIOUS
<1>1. Values /\ Flags /\ Places /\ Based /\ Planned
    BY DEF IInv, TypeOK
<1>2. Values' /\ Flags' /\ Places' /\ Based' /\ Planned'
    BY <1>1, NextValues, NextFlags, NextPlaces, NextBased, NextPlanned
<1>3. ASSUME faults' = 0 PROVE Hashed' /\ OnePair' /\ Available' /\ Failing'
  <2>1. faults = 0 /\ Hashed /\ OnePair /\ Available /\ Failing
    BY <1>1, <1>3, FaultsStay DEF IInv
  <2> QED
    BY <1>1, <1>3, <2>1, NextHashed, NextOnePair, NextAvailable, NextFailing
<1> QED
    BY <1>2, <1>3 DEF IInv, TypeOK

\* The inductive invariant of images, keys and .gdb_hist holds in every
\* reachable state, whatever goes wrong and however often (docker_runner.py).
THEOREM ImagesInvariance == Spec => []IInv
BY InitInv, NextInv, PTL DEF Spec

\* Every variable keeps its type, whatever is planned and in what order.
THEOREM ImagesTypes == Spec => []TypeOK
<1>1. IInv => TypeOK
    BY DEF IInv
<1> QED
    BY <1>1, ImagesInvariance, PTL

\* As long as nothing goes wrong in a process, the debugger runs with the
\* gdb_script of the moment, whatever its contents were before and whatever
\* modes and prompts came (debugger.py:66-83, docker_runner.py:151-163).
THEOREM CurrentScript == Spec => []ScriptFollowsEdits
<1>1. ASSUME IInv PROVE ScriptFollowsEdits
  <2>1. SUFFICES ASSUME faults = 0, At("run"), Runner = "debugger", image["debugger"] # 0
                 PROVE  baked = script
    BY DEF ScriptFollowsEdits, ScriptIsCurrent
  <2>2. hist = script
    BY <1>1, <2>1 DEF IInv, Hashed, At
  <2>3. baked = hist
    BY <1>1, <2>1 DEF IInv, Hashed, Rebuilding, At
  <2> QED
    BY <2>2, <2>3
<1> QED
    BY <1>1, ImagesInvariance, PTL

\* With no build failing and the key pair never lost, what is run has an image
\* and the builder one it can log in to (docker_runner.py:112-126).
THEOREM ImagesAvailable == Spec => []AllCanRun
<1>1. ASSUME IInv PROVE AllCanRun
  <2>1. SUFFICES ASSUME At("run"), faults = 0, private # 0
                 PROVE  image[Runner] # 0 /\ (Runner = "kbuilder" => CanLogIn)
    BY DEF AllCanRun
  <2>2. image[Runner] # 0
    BY <1>1, <2>1 DEF IInv, Available, At
  <2>3. Runner = "kbuilder" => image["kbuilder"] \in {0, base} /\ base \in {0, private}
    BY <1>1, <2>1 DEF IInv, OnePair, Runners
  <2> QED
    BY <2>2, <2>3 DEF CanLogIn
<1> QED
    BY <1>1, ImagesInvariance, PTL

\* As long as nothing goes wrong outside and there is a base image, a process
\* that comes to its end has built all it set out to build, and "Success!" is
\* true (start_kgdb.py:236).
THEOREM TrueSuccess == Spec => []BuildsWhatItReports
<1>1. ASSUME IInv PROVE BuildsWhatItReports
    BY <1>1 DEF IInv, Failing, BuildsWhatItReports
<1> QED
    BY <1>1, ImagesInvariance, PTL
==================================================================================
