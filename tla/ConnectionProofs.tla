---------------------------- MODULE ConnectionProofs ----------------------------
(***************************************************************************)
(* Theorems about Connection, for every set of command lines, every answer *)
(* of the user, every redirect and every width of the integers.            *)
(***************************************************************************)
EXTENDS ConnectionInvariant, TLAPS

-----------------------------------------------------------------------------
(* The steps of the commands *)

(* In the order o, the step s comes before the step t. *)
Before(o, s, t) ==
  \A j \in DOMAIN o : o[j] = t => \E i \in DOMAIN o : i < j /\ o[i] = s

(* From the step s on there are only steps of the set. *)
OnlyFrom(o, s, set) == \A i, j \in DOMAIN o : o[j] = s /\ j <= i => o[i] \in set

WhilePassword == {"password", "client", "body", "query", "headers", "build"}

WhileBody == {"body", "query", "headers", "build"}

(* Every command takes each step once, resolves its settings before it asks   *)
(* for a password and after it has read the size, and makes its client then.  *)
LEMMA OrderFacts ==
  ASSUME NEW c \in Commands
  PROVE  /\ \E n \in Nat : DOMAIN Order(c) = 1 .. n
         /\ \A i, j \in DOMAIN Order(c) : Order(c)[i] = Order(c)[j] => i = j
         /\ {"resolve", "password", "client"} \subseteq {Order(c)[i] : i \in DOMAIN Order(c)}
         /\ Before(Order(c), "resolve", "password")
         /\ Before(Order(c), "password", "client")
         /\ c # "run" => Before(Order(c), "size", "resolve")
         /\ c = "run" => Before(Order(c), "dryRun", "password")
         /\ c = "request" => Before(Order(c), "client", "body")
         /\ OnlyFrom(Order(c), "password", WhilePassword)
         /\ c = "request" => OnlyFrom(Order(c), "body", WhileBody)
<1> USE DEF Before, OnlyFrom, WhilePassword, WhileBody
<1>1. CASE c = "request" BY <1>1 DEF Order
<1>2. CASE c = "set"
  <2>1. /\ DOMAIN Order(c) = 1 .. 12
        /\ Order(c)[6] = "size" /\ Order(c)[7] = "resolve"
        /\ Order(c)[10] = "password" /\ Order(c)[11] = "client" /\ Order(c)[12] = "build"
    BY <1>2 DEF Order
  <2>2. \A i, j \in DOMAIN Order(c) : Order(c)[i] = Order(c)[j] => i = j
    BY <1>2 DEF Order
  <2>3. /\ Before(Order(c), "resolve", "password")
        /\ Before(Order(c), "password", "client")
        /\ Before(Order(c), "size", "resolve")
    <3> DEFINE o == Order(c)
    <3> HIDE DEF o
    <3> QED BY <2>1, <2>2 DEF o
  <2>4. OnlyFrom(Order(c), "password", WhilePassword)
    <3> DEFINE o == Order(c)
    <3> HIDE DEF o
    <3> QED BY <2>1, <2>2 DEF o
  <2> HIDE DEF Before, OnlyFrom
  <2>5. \E n \in Nat : DOMAIN Order(c) = 1 .. n BY <2>1
  <2>6. {"resolve", "password", "client"} \subseteq {Order(c)[i] : i \in DOMAIN Order(c)}
    BY <2>1
  <2> QED BY <1>2, <2>2, <2>3, <2>4, <2>5, <2>6
<1>3. CASE c = "reapply" BY <1>3 DEF Order
<1>4. CASE c = "run" BY <1>4 DEF Order
<1> QED BY <1>1, <1>2, <1>3, <1>4 DEF Commands

-----------------------------------------------------------------------------
(* Sizes *)

(* A number already in the range of int64 is what it wraps to. *)
LEMMA WrapInRange ==
  ASSUME NEW x \in 0 .. MaxInt
  PROVE  Wrap(x) = x
<1>1. x \in Int /\ MaxInt \in Int /\ 0 <= x /\ x <= MaxInt
  BY SizesAssumption
<1> DEFINE m == 2 * (MaxInt + 1)
           y == x + MaxInt + 1
<1>2. m \in Nat /\ m > 0 /\ y \in Nat /\ y < m
  BY <1>1
<1>3. y % m = y
  <2> HIDE DEF m, y
  <2> QED BY <1>2
<1> QED BY <1>1, <1>3 DEF Wrap

(* The units are positive and grow. *)
LEMMA UnitFacts ==
  /\ Units \subseteq Nat \ {0}
  /\ 1 <= Kilo /\ Kilo <= Kilo * Kilo /\ Kilo * Kilo <= Kilo * Kilo * Kilo
<1>1. Kilo \in Nat /\ Kilo >= 1 BY SizesAssumption
<1> DEFINE m == Kilo * Kilo
           g == m * Kilo
<1>2. m \in Nat /\ m >= Kilo BY <1>1
<1>3. g \in Nat /\ g >= m
  <2> HIDE DEF m
  <2> QED BY <1>1, <1>2
<1> QED BY <1>1, <1>2, <1>3 DEF Units

(* The test before the multiplication is the test of the product. *)
LEMMA DivisionTellsOverflow ==
  ASSUME NEW d \in Nat, NEW u \in Nat \ {0}
  PROVE  d * u <= MaxInt <=> d <= MaxInt \div u
<1> DEFINE q == MaxInt \div u
<1>1. q \in Nat /\ q * u <= MaxInt /\ MaxInt < (q + 1) * u
  BY SizesAssumption
<1> HIDE DEF q
<1>2. ASSUME d <= q PROVE d * u <= q * u BY <1>1, <1>2
<1>3. ASSUME ~(d <= q) PROVE (q + 1) * u <= d * u
  <2>1. q + 1 <= d BY <1>1, <1>3
  <2> QED BY <1>1, <2>1
<1>4. d * u \in Nat /\ q * u \in Nat /\ (q + 1) * u \in Nat /\ MaxInt \in Nat
  BY <1>1, SizesAssumption
<1> QED BY <1>1, <1>2, <1>3, <1>4 DEF q

(* ParseSize is exact where the size is an int64, and refuses it elsewhere. *)
LEMMA ParseSizeIsExact ==
  ASSUME NEW t \in SizeText
  PROVE  /\ ParseSize(t) = IF t.digits >= 0 /\ t.digits * t.unit <= MaxInt
                             THEN t.digits * t.unit ELSE OutOfRange
         /\ ParseSize(t) \in Int
<1> DEFINE d == t.digits
           u == t.unit
<1>1. d \in Nat \cup {-1} /\ u \in Nat \ {0} /\ MaxInt \in Nat
  BY UnitFacts, SizesAssumption DEF SizeText
<1>2. CASE d < 0 BY <1>1, <1>2 DEF ParseSize, OutOfRange
<1>3. CASE d >= 0
  <2>1. d \in Nat BY <1>1, <1>3
  <2>2. d * u \in Nat /\ d * u >= d BY <1>1, <2>1
  <2>3. d * u <= MaxInt <=> d <= MaxInt \div u
    BY <1>1, <2>1, DivisionTellsOverflow
  <2>4. MaxInt \div u \in Int BY <1>1
  <2>5. CASE d * u <= MaxInt
    <3>1. Wrap(d * u) = d * u BY <1>1, <2>2, <2>5, WrapInRange
    <3>2. ~(d < 0 \/ d > MaxInt \/ d > MaxInt \div u)
      <4> HIDE DEF d, u
      <4> QED BY <1>1, <2>1, <2>2, <2>3, <2>4, <2>5
    <3>3. ParseSize(t) = d * u BY <3>1, <3>2 DEF ParseSize
    <3> QED BY <1>3, <2>2, <2>5, <3>3
  <2>6. CASE ~(d * u <= MaxInt)
    <3>1. d > MaxInt \div u
      <4> HIDE DEF d, u
      <4> QED BY <2>1, <2>3, <2>4, <2>6
    <3> QED BY <2>6, <3>1 DEF ParseSize, OutOfRange
  <2> QED BY <2>5, <2>6
<1> QED BY <1>1, <1>2, <1>3

(* What FormatSize prints is read back as the same size. *)
LEMMA FormattedIsReadBack ==
  ASSUME NEW n \in 0 .. MaxInt
  PROVE  ParseSize(FormatSize(n)) = n
<1>1. n \in Nat /\ n <= MaxInt /\ MaxInt \in Nat BY SizesAssumption
<1> DEFINE fits == {u \in Units : n >= u /\ n % u = 0}
           unit == IF fits = {} THEN 1 ELSE CHOOSE u \in fits : \A v \in fits : v <= u
<1>2. fits # {} => \E u \in fits : \A v \in fits : v <= u
  <2>1. Kilo \in Nat /\ Kilo * Kilo \in Nat /\ Kilo * Kilo * Kilo \in Nat
    BY SizesAssumption
  <2> DEFINE m == Kilo * Kilo
             g == Kilo * Kilo * Kilo
  <2>2. fits \subseteq {1, Kilo, m, g} BY DEF Units
  <2>3. 1 <= Kilo /\ Kilo <= m /\ m <= g BY UnitFacts
  <2>4. m \in Nat /\ g \in Nat BY <2>1
  <2> HIDE DEF m, g, fits
  <2>5. CASE g \in fits BY <2>1, <2>2, <2>3, <2>4, <2>5
  <2>6. CASE g \notin fits /\ m \in fits BY <2>1, <2>2, <2>3, <2>4, <2>6
  <2>7. CASE g \notin fits /\ m \notin fits /\ Kilo \in fits
    BY <2>1, <2>2, <2>3, <2>4, <2>7
  <2>8. CASE g \notin fits /\ m \notin fits /\ Kilo \notin fits
    <3>1. \A v \in fits : v = 1 BY <2>2, <2>8
    <3> QED BY <3>1
  <2> QED BY <2>5, <2>6, <2>7, <2>8
<1>3. fits # {} => unit \in fits
  <2> HIDE DEF fits
  <2> QED BY <1>2
<1>4. unit \in Units /\ n % unit = 0
  <2>1. CASE fits = {} BY <1>1, <2>1 DEF Units
  <2>2. CASE fits # {} BY <1>3, <2>2
  <2> QED BY <2>1, <2>2
<1> HIDE DEF unit, fits
<1>5. unit \in Nat \ {0} BY <1>4, UnitFacts
<1> DEFINE d == n \div unit
<1>6. d \in Nat /\ d * unit = n BY <1>1, <1>4, <1>5
<1>7. FormatSize(n) = [digits |-> d, unit |-> unit] BY DEF FormatSize, fits, unit
<1> HIDE DEF d
<1>8. FormatSize(n) \in SizeText BY <1>4, <1>6, <1>7 DEF SizeText
<1>9. FormatSize(n).digits = d /\ FormatSize(n).unit = unit BY <1>7
<1> QED BY <1>1, <1>6, <1>8, <1>9, ParseSizeIsExact

-----------------------------------------------------------------------------
(* Settings *)

(* The default size is a size. *)
LEMMA SizeIsText == ASSUME Input(in) PROVE Size \in SizeText
<1>1. Unset # in.size => in.size \in SizeText BY DEF Input
<1> QED BY <1>1, DefaultSizeAssumption DEF Size

(* The setting that docs/cli.md promises is the one that config.Resolve and    *)
(* ResolvePassword look for.                                                  *)
LEMMA PreferredIs ==
  ASSUME Input(in), NEW k \in ConfigKeys \ {"maxBodyBuffer"}
  PROVE  Preferred(k) =
           IF in.flags[k] # Unset THEN in.flags[k]
           ELSE IF k \in EnvKeys /\ Given(in.file[k]) THEN in.file[k]
           ELSE IF k \in EnvKeys /\ Given(in.env[k]) THEN in.env[k]
           ELSE Defaults[k]
<1> DEFINE variable(layer) == IF k \in EnvKeys /\ layer[k] # Empty THEN layer[k] ELSE Unset
           said == <<in.flags[k], variable(in.file), variable(in.env), Defaults[k]>>
           First(i) == said[i] # Unset /\ \A j \in 1 .. i - 1 : said[j] = Unset
           n == CHOOSE i \in 1 .. 4 : First(i)
<1>1. Defaults[k] # Unset
  <2>1. Unset # Empty /\ Unset \notin Int /\ Unset \notin BOOLEAN BY ValuesAssumption
  <2>2. 0 # Unset BY <2>1
  <2>3. FALSE # Unset BY <2>1, Zenon
  <2>4. CASE k = "insecure"
    <3>1. Defaults[k] = FALSE BY <2>4, Zenon DEF Defaults
    <3> QED BY <2>3, <3>1, Zenon
  <2>5. CASE k # "insecure"
    BY <2>1, <2>2, <2>5 DEF Defaults, ConfigKeys
  <2> QED BY <2>4, <2>5
<1>2. /\ said[1] = in.flags[k] /\ said[2] = variable(in.file)
      /\ said[3] = variable(in.env) /\ said[4] = Defaults[k]
  OBVIOUS
<1>3. Preferred(k) = said[n] BY DEF Preferred
<1>4. /\ variable(in.file) # Unset <=> k \in EnvKeys /\ Given(in.file[k])
      /\ variable(in.file) # Unset => variable(in.file) = in.file[k]
      /\ variable(in.env) # Unset <=> k \in EnvKeys /\ Given(in.env[k])
      /\ variable(in.env) # Unset => variable(in.env) = in.env[k]
  BY DEF Given
<1> HIDE DEF said, variable
<1>5. \E i \in 1 .. 4 : First(i)
  <2>1. CASE said[1] # Unset BY <2>1
  <2>2. CASE said[1] = Unset /\ said[2] # Unset BY <2>2
  <2>3. CASE said[1] = Unset /\ said[2] = Unset /\ said[3] # Unset BY <2>3
  <2>4. CASE said[1] = Unset /\ said[2] = Unset /\ said[3] = Unset
    BY <1>1, <1>2, <2>4
  <2> QED BY <2>1, <2>2, <2>3, <2>4
<1>6. n \in 1 .. 4 /\ First(n) BY <1>5
<1> HIDE DEF n
<1>7. CASE n = 1 BY <1>2, <1>3, <1>6, <1>7
<1>8. CASE n = 2
  <2>1. said[1] = Unset BY <1>6, <1>8
  <2> QED BY <1>2, <1>3, <1>4, <1>6, <1>8, <2>1
<1>9. CASE n = 3
  <2>1. said[1] = Unset /\ said[2] = Unset BY <1>6, <1>9
  <2> QED BY <1>2, <1>3, <1>4, <1>6, <1>9, <2>1
<1>10. CASE n = 4
  <2>1. said[1] = Unset /\ said[2] = Unset /\ said[3] = Unset BY <1>6, <1>10
  <2> QED BY <1>2, <1>3, <1>4, <1>10, <2>1
<1> QED BY <1>6, <1>7, <1>8, <1>9, <1>10

(* What config.Resolve chooses, setting by setting. *)
LEMMA ChosenIsPreferred ==
  ASSUME Input(in)
  PROVE  /\ DOMAIN Chosen = ConfigKeys
         /\ \A k \in ConfigKeys \ {"maxBodyBuffer", "endpoint"} : Chosen[k] = Preferred(k)
         /\ Chosen.endpoint = IF Preferred("endpoint") = Empty THEN DefaultEndpoint
                              ELSE Preferred("endpoint")
         /\ Chosen.maxBodyBuffer = IF Flags.maxBodyBuffer # Unset THEN Flags.maxBodyBuffer
                                   ELSE ParseSize(DefaultSize)
<1> DEFINE cfg1 == ApplyEnv(Defaults, Env)
           cfg2 == ApplyFlags(cfg1, Flags)
<1>1. DOMAIN cfg2 = ConfigKeys BY DEF ApplyEnv, ApplyFlags, ConfigKeys
<1>2. ASSUME NEW k \in ConfigKeys \ {"maxBodyBuffer"} PROVE cfg2[k] = Preferred(k)
  <2>1. Flags[k] = in.flags[k] BY DEF Flags
  <2>2. k \in EnvKeys => Env[k] = IF Given(in.file[k]) THEN in.file[k] ELSE in.env[k]
    BY DEF Env, LayeredEnv
  <2>3. cfg1[k] = IF k \in EnvKeys /\ LookupEnv(Env, k) # Unset THEN LookupEnv(Env, k)
                  ELSE Defaults[k]
    BY DEF ApplyEnv, ConfigKeys
  <2>4. cfg1[k] = IF k \in EnvKeys /\ Given(Env[k]) THEN Env[k] ELSE Defaults[k]
    BY <2>3 DEF LookupEnv, Given
  <2>5. cfg2[k] = IF in.flags[k] # Unset THEN in.flags[k] ELSE cfg1[k]
    BY <2>1 DEF ApplyFlags, ApplyEnv, ConfigKeys
  <2> HIDE DEF cfg1, cfg2
  <2> QED BY <2>2, <2>4, <2>5, PreferredIs
<1>3. cfg2.maxBodyBuffer = IF Flags.maxBodyBuffer # Unset THEN Flags.maxBodyBuffer
                           ELSE ParseSize(DefaultSize)
  BY DEF ApplyFlags, ApplyEnv, Defaults, EnvKeys
<1>4. Chosen = [cfg2 EXCEPT !.endpoint = IF @ = Empty THEN DefaultEndpoint ELSE @]
  BY DEF Chosen, Resolved
<1>5. {"endpoint", "maxBodyBuffer"} \subseteq ConfigKeys BY DEF ConfigKeys, Defaults
<1> HIDE DEF cfg2
<1> QED BY <1>1, <1>2, <1>3, <1>4, <1>5

(* A password is needed where none was given for a user who was. *)
LEMMA NeedsPasswordIs ==
  ASSUME Input(in)
  PROVE  NeedsPassword(Chosen) <=> Preferred("password") = Empty /\ Preferred("username") # Empty
BY ChosenIsPreferred DEF NeedsPassword, ConfigKeys, Defaults


-----------------------------------------------------------------------------
(* The steps behind *)

(* A command line is one of the given ones, and its steps are numbered. *)
LEMMA InputFacts ==
  ASSUME Shape
  PROVE  /\ Input(in) /\ in.command \in Commands
         /\ \E n \in Nat : DOMAIN Order(in.command) = 1 .. n
         /\ at \in Nat \ {0}
BY InputsAssumption, OrderFacts DEF Shape, Input

(* With the step at hand goes behind what comes before it. *)
LEMMA BehindBefore ==
  ASSUME Shape, NEW s, NEW t, Before(Order(in.command), s, t), Reached(t)
  PROVE  Behind(s)
<1>1. \E n \in Nat : DOMAIN Order(in.command) = 1 .. n BY InputFacts
<1>2. PICK j \in DOMAIN Order(in.command) : j <= at /\ Order(in.command)[j] = t
  BY <1>1, InputFacts DEF Reached, Behind, Step
<1>3. PICK i \in DOMAIN Order(in.command) : i < j /\ Order(in.command)[i] = s
  BY <1>2 DEF Before
<1> QED BY <1>1, <1>2, <1>3, InputFacts DEF Behind

(* A step at hand is not behind. *)
LEMMA AtHandIsNotBehind ==
  ASSUME Shape, at \in DOMAIN Order(in.command)
  PROVE  ~Behind(Step)
<1>1. \A i, j \in DOMAIN Order(in.command) :
        Order(in.command)[i] = Order(in.command)[j] => i = j
  BY InputFacts, OrderFacts
<1>2. \E n \in Nat : DOMAIN Order(in.command) = 1 .. n BY InputFacts
<1> QED BY <1>1, <1>2 DEF Behind, Step

(* Going on puts the step at hand behind, and no other. *)
LEMMA BehindAfter ==
  ASSUME Shape, at \in DOMAIN Order(in.command), at' = at + 1, in' = in, NEW s
  PROVE  Behind(s)' <=> Behind(s) \/ Step = s
<1>1. \E n \in Nat : DOMAIN Order(in.command) = 1 .. n BY InputFacts
<1>2. at \in Nat BY InputFacts
<1>3. Behind(s)' <=> \E i \in DOMAIN Order(in.command) : i < at + 1 /\ Order(in.command)[i] = s
  BY DEF Behind
<1>4. \A i \in DOMAIN Order(in.command) : i < at + 1 <=> i < at \/ i = at
  BY <1>1, <1>2
<1> QED BY <1>3, <1>4 DEF Behind, Step

(* Without a step, the same are behind. *)
LEMMA BehindStays ==
  ASSUME UNCHANGED <<in, at>>, NEW s
  PROVE  Behind(s)' <=> Behind(s)
BY DEF Behind

(* When the command sends, all its steps are behind. *)
LEMMA AllBehind ==
  ASSUME Shape, at \notin DOMAIN Order(in.command), NEW i \in DOMAIN Order(in.command)
  PROVE  Behind(Order(in.command)[i])
<1>1. \E n \in Nat : DOMAIN Order(in.command) = 1 .. n BY InputFacts
<1>2. i < at BY <1>1, InputFacts
<1> QED BY <1>2 DEF Behind

(* What the command line says does not change. *)
LEMMA InputStays ==
  ASSUME in' = in
  PROVE  /\ Chosen' = Chosen /\ Size' = Size /\ BodyLen' = BodyLen
         /\ ResolveFails(Flags, Env)' = ResolveFails(Flags, Env)
<1>1. Flags' = Flags /\ Env' = Env BY DEF Flags, Env
<1> QED BY <1>1 DEF Chosen, Size, BodyLen

(* A step goes on in its order, takes an answer, or leaves the order alone. *)
LEMMA Moves ==
  ASSUME [Next]_vars
  PROVE  in' = in /\ (Pass \/ Answer \/ UNCHANGED <<at, cfg>>)
BY DEF Next, Command, Signal, Deadline, Exited, Refuse, DryRun, Pass, Ask, Answer,
       AnswerFails, Prepared, Attempt, Send, Redirect, Retry, Return, Interrupted,
       EndContext, vars, sending

-----------------------------------------------------------------------------
(* The invariant *)

(* Before the first step the invariant holds. *)
LEMMA InvInit == Init => Inv
<1> SUFFICES ASSUME Init PROVE Inv OBVIOUS
<1>1. Shape BY DEF Init, Shape, Sending
<1>2. \E n \in Nat : DOMAIN Order(in.command) = 1 .. n BY <1>1, InputFacts
<1>3. \A s : ~Behind(s) BY <1>2 DEF Init, Behind
<1>4. exit # 124 BY NoValueAssumption DEF Init
<1> QED
  BY <1>1, <1>3, <1>4
  DEF Init, Inv, SettingsFollow, AskedInStep, AskedWithReason, NothingRefusedBehind,
      RefusedAtHand, DeadlineWasSet, NothingOnTheWire, HeaderIsClean, ReaderIsFresh,
      CredentialsStayAtHome, EveryRequestIsWhole

(* A command keeps its line, and what it sends comes after its steps. *)
LEMMA ShapeNext == ASSUME Inv, [Next]_vars PROVE Shape'
<1>1. Shape BY DEF Inv
<1>2. in' = in BY Moves
<1>3. CASE Pass
  BY <1>1, <1>2, <1>3, InputFacts DEF Pass, Shape, Sending, Preparing
<1>4. CASE Answer
  BY <1>1, <1>2, <1>4, InputFacts DEF Answer, Shape, Sending
<1>5. CASE Prepared
  BY <1>1, <1>5 DEF Prepared, Shape, Sending
<1>6. CASE ~Pass /\ ~Answer /\ ~Prepared
  BY <1>1, <1>6
  DEF Shape, Sending, Next, Command, Signal, Deadline, Exited, Refuse, DryRun, Ask,
      AnswerFails, Attempt, Send, Redirect, Retry, Return, Interrupted,
      EndContext, Exit, Preparing, vars, sending
<1> QED BY <1>3, <1>4, <1>5, <1>6


(* The step that is answered is the one that asked. *)
LEMMA AnswerGoesOn ==
  ASSUME Inv, Answer
  PROVE  /\ at \in DOMAIN Order(in.command) /\ at' = at + 1
         /\ phase = "prompt" => Step = "password" /\ NeedsPassword(cfg)
                                /\ \E text \in Typed : cfg' = [cfg EXCEPT !.password = text]
         /\ phase = "stdin" => Step = "body" /\ cfg' = cfg
BY DEF Inv, AskedInStep, Answer, Needs

(* Until the password is asked for, the settings are the chosen ones. *)
LEMMA NeedsBefore ==
  ASSUME Inv, Behind("resolve"), ~Behind("password")
  PROVE  cfg.password = Chosen.password /\ NeedsPassword(cfg) = NeedsPassword(Chosen)
BY DEF Inv, SettingsFollow, NeedsPassword, ConfigKeys, Defaults

(* The settings follow what was chosen and typed. *)
LEMMA SettingsNext == ASSUME Inv, [Next]_vars PROVE SettingsFollow'
<1>1. Shape /\ SettingsFollow BY DEF Inv
<1>2. in' = in /\ Chosen' = Chosen BY Moves, InputStays
<1>3. Before(Order(in.command), "resolve", "password") BY <1>1, InputFacts, OrderFacts
<1>4. CASE UNCHANGED <<at, cfg>>
  BY <1>1, <1>2, <1>4, BehindStays DEF SettingsFollow
<1>5. CASE Pass
  <2>1. /\ at \in DOMAIN Order(in.command) /\ at' = at + 1
        /\ cfg' = IF Step = "resolve" THEN Chosen ELSE cfg
        /\ ~Needs("prompt")
    BY <1>5 DEF Pass, Preparing, Chosen
  <2>2. \A step : Behind(step)' <=> Behind(step) \/ Step = step
    BY <1>1, <1>2, <2>1, BehindAfter
  <2>3. ~Behind(Step) BY <1>1, <2>1, AtHandIsNotBehind
  <2>4. Reached("password") => Behind("resolve") BY <1>1, <1>3, BehindBefore
  <2>5. CASE Step = "resolve"
    <3>1. ~Behind("password")' BY <2>1, <2>2, <2>3, <2>4, <2>5 DEF Reached
    <3>2. DOMAIN Chosen = ConfigKeys BY <1>1, InputFacts, ChosenIsPreferred
    <3> QED BY <1>2, <2>1, <2>5, <3>1, <3>2 DEF SettingsFollow
  <2>6. CASE Step = "password"
    <3>1. Behind("resolve") /\ ~Behind("password") BY <2>1, <2>3, <2>4, <2>6 DEF Reached
    <3>2. ~NeedsPassword(Chosen) BY <2>1, <2>6, <3>1, NeedsBefore DEF Needs
    <3> QED BY <1>1, <1>2, <2>1, <2>6, <3>1, <3>2 DEF SettingsFollow
  <2>7. CASE Step # "resolve" /\ Step # "password"
    <3>1. /\ Behind("resolve")' <=> Behind("resolve")
          /\ Behind("password")' <=> Behind("password")
      BY <2>2, <2>7
    <3> QED BY <1>1, <1>2, <2>1, <2>7, <3>1 DEF SettingsFollow
  <2> QED BY <2>5, <2>6, <2>7
<1>6. CASE Answer
  <2>1. at \in DOMAIN Order(in.command) /\ at' = at + 1 BY <1>6, AnswerGoesOn
  <2>2. \A step : Behind(step)' <=> Behind(step) \/ Step = step
    BY <1>1, <1>2, <2>1, BehindAfter
  <2>3. ~Behind(Step) BY <1>1, <2>1, AtHandIsNotBehind
  <2>4. CASE phase = "stdin"
    <3>1. Step = "body" /\ cfg' = cfg BY <1>6, <2>4, AnswerGoesOn
    <3>2. /\ Behind("resolve")' <=> Behind("resolve")
          /\ Behind("password")' <=> Behind("password")
      BY <2>2, <3>1
    <3> QED BY <1>1, <1>2, <3>1, <3>2 DEF SettingsFollow
  <2>5. CASE phase = "prompt"
    <3>1. Step = "password" BY <1>6, <2>5, AnswerGoesOn
    <3>2. PICK text \in Typed : cfg' = [cfg EXCEPT !.password = text]
      BY <1>6, <2>5, AnswerGoesOn
    <3>3. Behind("resolve")
      BY <1>1, <1>3, <2>1, <3>1, BehindBefore DEF Reached
    <3>4. ~Behind("password") BY <2>3, <3>1
    <3>5. NeedsPassword(Chosen)
      BY <1>6, <2>5, <3>3, <3>4, AnswerGoesOn, NeedsBefore
    <3>6. /\ DOMAIN cfg' = ConfigKeys /\ cfg'.password \in Typed
          /\ \A k \in ConfigKeys \ {"password"} : cfg'[k] = Chosen[k]
      BY <1>1, <3>2, <3>3 DEF SettingsFollow, ConfigKeys, Defaults
    <3>7. Behind("password")' BY <2>2, <3>1
    <3> QED BY <1>2, <3>5, <3>6, <3>7 DEF SettingsFollow
  <2> QED BY <1>6, <2>4, <2>5 DEF Answer
<1> QED BY <1>4, <1>5, <1>6, Moves

(* Who asks is at the step that needs it. *)
LEMMA AskedInStepNext == ASSUME Inv, [Next]_vars PROVE AskedInStep'
<1>1. in' = in BY Moves
<1>2. CASE Ask
  BY <1>2 DEF Ask, AskedInStep, Preparing, Needs, Step, Refused, Size, Flags, Env
<1>3. CASE ~Ask /\ phase' \in {"prompt", "stdin"}
  <2>1. UNCHANGED <<in, at, cfg, phase>>
    BY <1>3
    DEF Next, Command, Signal, Deadline, Exited, Refuse, DryRun, Pass, Answer,
        AnswerFails, Prepared, Attempt, Send, Redirect, Retry, Return, Interrupted,
        EndContext, Exit, Preparing, vars, sending
  <2> QED BY <2>1 DEF Inv, AskedInStep, Needs, Step, Refused, Size, Flags, Env
<1> QED BY <1>2, <1>3 DEF AskedInStep


(* What was reached stays reached. *)
LEMMA ReachedStays ==
  ASSUME Inv, [Next]_vars, NEW s, Reached(s)
  PROVE  Reached(s)'
<1>1. Shape /\ in' = in BY Moves DEF Inv
<1>2. CASE UNCHANGED at
  BY <1>1, <1>2 DEF Reached, Behind, Step
<1>3. CASE at \in DOMAIN Order(in.command) /\ at' = at + 1
  <2>1. Behind(s)' BY <1>1, <1>3, BehindAfter DEF Reached
  <2> QED BY <2>1 DEF Reached
<1>4. Pass => at \in DOMAIN Order(in.command) /\ at' = at + 1 BY DEF Pass, Preparing
<1> QED BY <1>2, <1>3, <1>4, Moves, AnswerGoesOn

(* Who was asked was asked for a reason. *)
LEMMA AskedWithReasonNext == ASSUME Inv, [Next]_vars PROVE AskedWithReason'
<1>1. Shape /\ AskedWithReason BY DEF Inv
<1>2. in' = in /\ Chosen' = Chosen BY Moves, InputStays
<1>3. CASE asked' = asked
  BY <1>1, <1>2, <1>3, ReachedStays DEF AskedWithReason
<1>4. CASE Ask
  <2>1. PICK what \in {"prompt", "stdin"} : Needs(what) /\ asked' = asked \cup {what}
    BY <1>4 DEF Ask
  <2>2. at \in DOMAIN Order(in.command) /\ ~Refused BY <1>4 DEF Ask, Preparing
  <2>3. Reached(Step) BY <2>2 DEF Reached
  <2>4. CASE what = "stdin"
    <3>1. Reached("body") BY <2>1, <2>3, <2>4 DEF Needs
    <3> QED BY <1>1, <1>2, <2>1, <2>4, <3>1, ReachedStays DEF AskedWithReason
  <2>5. CASE what = "prompt"
    <3>1. Step = "password" /\ NeedsPassword(cfg) BY <2>1, <2>5 DEF Needs
    <3>2. Behind("resolve")
      BY <1>1, <2>3, <3>1, InputFacts, OrderFacts, BehindBefore
    <3>3. ~Behind("password") BY <1>1, <2>2, <3>1, AtHandIsNotBehind
    <3>4. NeedsPassword(Chosen) BY <3>1, <3>2, <3>3, NeedsBefore
    <3>5. "password" \notin in.faults /\ in.tty BY <2>2, <3>1 DEF Refused
    <3>6. Reached("password")' BY <2>3, <3>1, ReachedStays
    <3> QED
      BY <1>1, <1>2, <2>1, <2>5, <3>4, <3>5, <3>6, ReachedStays DEF AskedWithReason
  <2> QED BY <2>4, <2>5
<1>5. ~Ask => asked' = asked
  BY DEF Next, Command, Signal, Deadline, Exited, Refuse, DryRun, Pass, Answer,
         AnswerFails, Prepared, Attempt, Send, Redirect, Retry, Return, Interrupted,
         EndContext, vars, sending
<1> QED BY <1>3, <1>4, <1>5

(* What is behind was not refused. *)
LEMMA NothingRefusedNext == ASSUME Inv, [Next]_vars PROVE NothingRefusedBehind'
<1>1. Shape /\ NothingRefusedBehind /\ SettingsFollow BY DEF Inv
<1>2. /\ in' = in /\ Size' = Size
      /\ ResolveFails(Flags, Env)' = ResolveFails(Flags, Env)
  BY Moves, InputStays
<1>3. CASE UNCHANGED <<at, cfg>>
  BY <1>1, <1>2, <1>3, BehindStays DEF NothingRefusedBehind
<1>4. ASSUME at \in DOMAIN Order(in.command), at' = at + 1, ~Refused,
             Step = "dryRun" => ~in.dryRun,
             Behind("client") \/ Step = "client" => ClientFails(cfg') = ClientFails(cfg)
      PROVE  NothingRefusedBehind'
  <2>1. \A step : Behind(step)' <=> Behind(step) \/ Step = step
    BY <1>1, <1>2, <1>4, BehindAfter
  <2>2. ASSUME NEW step \in in.faults PROVE ~Behind(step)'
    <3>1. Step # step BY <1>4 DEF Refused
    <3> QED BY <1>1, <2>1, <3>1 DEF NothingRefusedBehind
  <2>3. Behind("size")' => ParseSize(Size) # OutOfRange
    BY <1>1, <1>4, <2>1 DEF NothingRefusedBehind, Refused
  <2>4. Behind("dryRun")' => ~in.dryRun
    BY <1>1, <1>4, <2>1 DEF NothingRefusedBehind
  <2>5. Behind("resolve")' => ~ResolveFails(Flags, Env)
    BY <1>1, <1>4, <2>1 DEF NothingRefusedBehind, Refused
  <2>6. Behind("client")' => ~ClientFails(cfg')
    BY <1>1, <1>4, <2>1 DEF NothingRefusedBehind, Refused
  <2> QED BY <1>2, <2>2, <2>3, <2>4, <2>5, <2>6 DEF NothingRefusedBehind
<1>5. CASE Pass
  <2>1. /\ at \in DOMAIN Order(in.command) /\ at' = at + 1 /\ ~Refused
        /\ Step = "dryRun" => ~in.dryRun
        /\ Step # "resolve" => cfg' = cfg
    BY <1>5 DEF Pass, Preparing
  <2>2. ASSUME Behind("client") \/ Step = "client" PROVE Step # "resolve"
    <3>1. Reached("client") BY <2>1, <2>2 DEF Reached
    <3>2. Behind("password")
      BY <1>1, <3>1, InputFacts, OrderFacts, BehindBefore
    <3>3. Behind("resolve")
      BY <1>1, <3>2, InputFacts, OrderFacts, BehindBefore DEF Reached
    <3> QED BY <1>1, <2>1, <3>3, AtHandIsNotBehind
  <2> QED BY <1>4, <2>1, <2>2
<1>6. CASE Answer
  <2>1. at \in DOMAIN Order(in.command) /\ at' = at + 1 BY <1>6, AnswerGoesOn
  <2>2. ~Refused BY <1>6 DEF Answer, Inv, AskedInStep
  <2>3. CASE phase = "stdin"
    <3>1. Step = "body" /\ cfg' = cfg BY <1>6, <2>3, AnswerGoesOn
    <3> QED BY <1>4, <2>1, <2>2, <3>1
  <2>4. CASE phase = "prompt"
    <3>1. Step = "password" BY <1>6, <2>4, AnswerGoesOn
    <3>2. ~Behind("password") BY <1>1, <2>1, <3>1, AtHandIsNotBehind
    <3>3. ~Behind("client")
      BY <1>1, <3>2, InputFacts, OrderFacts, BehindBefore DEF Reached
    <3> QED BY <1>4, <2>1, <2>2, <3>1, <3>3
  <2> QED BY <1>6, <2>3, <2>4 DEF Answer
<1> QED BY <1>3, <1>5, <1>6, Moves

(* A command that ends at its size or its settings was refused them. *)
LEMMA RefusedAtHandNext == ASSUME Inv, [Next]_vars PROVE RefusedAtHand'
<1>1. Shape /\ in' = in BY Moves DEF Inv
<1> SUFFICES ASSUME phase' = "exited", at' \in DOMAIN Order(in.command),
                    Step' \in {"size", "resolve"}
             PROVE  Refused'
  BY <1>1 DEF RefusedAtHand
<1>2. UNCHANGED <<at, cfg>>
      /\ (Refuse \/ DryRun \/ AnswerFails \/ Return \/ Interrupted \/ phase = "exited")
  BY DEF Next, Command, Signal, Deadline, Exited, Refuse, DryRun, Pass, Ask, Answer,
         AnswerFails, Prepared, Attempt, Send, Redirect, Retry, Return, Interrupted,
         EndContext, Preparing, vars, sending
<1>3. at \in DOMAIN Order(in.command) /\ Step \in {"size", "resolve"}
  BY <1>1, <1>2 DEF Step
<1>4. Refused
  <2>1. CASE Refuse BY <2>1 DEF Refuse
  <2>2. CASE DryRun BY <1>3, <2>2 DEF DryRun
  <2>3. CASE AnswerFails BY <1>3, <2>3 DEF AnswerFails, Inv, AskedInStep, Needs
  <2>4. CASE Return \/ Interrupted
    BY <1>1, <1>3, <2>4 DEF Return, Interrupted, Shape, Sending
  <2>5. CASE phase = "exited" BY <1>3, <2>5 DEF Inv, RefusedAtHand
  <2> QED BY <1>2, <2>1, <2>2, <2>3, <2>4, <2>5
<1> QED BY <1>1, <1>2, <1>4 DEF Refused, Step, Size, Flags, Env


(* A deadline was asked for, and only it ends a command with 124. *)
LEMMA DeadlineNext == ASSUME Inv, [Next]_vars PROVE DeadlineWasSet'
<1>1. Shape /\ DeadlineWasSet /\ SettingsFollow BY DEF Inv
<1>2. in' = in BY Moves
<1>3. ASSUME Behind("resolve"), cfg.timeout > 0
      PROVE  Behind("resolve")' /\ cfg'.timeout > 0
  <2>1. CASE UNCHANGED <<at, cfg>> BY <1>2, <1>3, <2>1, BehindStays
  <2>2. CASE Pass
    <3>1. at \in DOMAIN Order(in.command) /\ at' = at + 1 BY <2>2 DEF Pass, Preparing
    <3>2. Step # "resolve" BY <1>1, <1>3, <3>1, AtHandIsNotBehind
    <3>3. cfg' = cfg BY <2>2, <3>2 DEF Pass
    <3> QED BY <1>1, <1>2, <1>3, <3>1, <3>3, BehindAfter
  <2>3. CASE Answer
    <3>1. at \in DOMAIN Order(in.command) /\ at' = at + 1 BY <2>3, AnswerGoesOn
    <3>2. cfg'.timeout = cfg.timeout
      BY <1>1, <1>3, <2>3 DEF Answer, SettingsFollow, ConfigKeys, Defaults
    <3> QED BY <1>1, <1>2, <1>3, <3>1, <3>2, BehindAfter
  <2> QED BY <2>1, <2>2, <2>3, Moves
<1>4. Deadline => Behind("resolve") /\ cfg.timeout > 0
  <2>1. \E i \in DOMAIN Order(in.command) : Order(in.command)[i] = "password"
    BY <1>1, InputFacts, OrderFacts
  <2>2. Before(Order(in.command), "resolve", "password") BY <1>1, InputFacts, OrderFacts
  <2>3. Sending => Behind("password") BY <1>1, <2>1, AllBehind DEF Shape
  <2>4. Sending => Behind("resolve") BY <1>1, <2>2, <2>3, BehindBefore DEF Reached
  <2> QED BY <2>4 DEF Deadline, Sending
<1>5. ctx' = "deadline" => Deadline \/ ctx = "deadline"
  BY DEF Next, Command, Signal, Deadline, Exited, Refuse, DryRun, Pass, Ask, Answer,
         AnswerFails, Prepared, Attempt, Send, Redirect, Retry, Return, Interrupted,
         EndContext, vars, sending
<1>6. ctx' = "deadline" => Behind("resolve")' /\ cfg'.timeout > 0
  BY <1>1, <1>3, <1>4, <1>5 DEF DeadlineWasSet
<1>7. exit' = 124 => ctx' = "deadline"
  BY <1>1
  DEF DeadlineWasSet, Next, Command, Signal, Deadline, Exited, Refuse, DryRun, Pass, Ask,
      Answer, AnswerFails, Prepared, Attempt, Send, Redirect, Retry, Return, Interrupted,
      EndContext, Exit, vars, sending
<1> QED BY <1>6, <1>7 DEF DeadlineWasSet

(* Nothing is on the wire before all is prepared. *)
LEMMA WireNext == ASSUME Inv, [Next]_vars PROVE NothingOnTheWire'
BY DEF Inv, NothingOnTheWire, Next, Command, Signal, Deadline, Exited, Refuse, DryRun, Pass,
       Ask, Answer, AnswerFails, Prepared, Attempt, Send, Redirect, Retry, Return,
       Interrupted, EndContext, Exit, Preparing, vars, sending

(* The reader of a request about to be sent has all of the body. *)
LEMMA ReaderNext == ASSUME Inv, [Next]_vars PROVE ReaderIsFresh'
<1>1. BodyLen' = BodyLen BY Moves, InputStays
<1> QED
  BY <1>1
  DEF Inv, ReaderIsFresh, Fresh, Next, Command, Signal, Deadline, Exited, Refuse, DryRun,
      Pass, Ask, Answer, AnswerFails, Prepared, Attempt, Send, Redirect, Retry, Return,
      Interrupted, EndContext, Exit, Preparing, vars, sending

(* What goes to the transport goes to the endpoint or after a redirect, with  *)
(* the headers of the request as it was built or with less.                   *)
LEMMA HeaderNext == ASSUME Inv, [Next]_vars PROVE HeaderIsClean'
<1>1. HeaderIsClean BY DEF Inv
<1>2. CASE Attempt BY <1>2 DEF Attempt, Built, HeaderIsClean
<1>3. CASE Redirect BY <1>1, <1>3 DEF Redirect, HeaderIsClean
<1>4. CASE ~Attempt /\ ~Redirect
  <2>1. held' = held
    BY <1>4
    DEF Next, Command, Signal, Deadline, Exited, Refuse, DryRun, Pass, Ask, Answer,
        AnswerFails, Prepared, Send, Retry, Return, Interrupted, EndContext, vars, sending
  <2>2. phase' = "send" => UNCHANGED <<phase, to, cfg>>
    BY <1>4
    DEF Next, Command, Signal, Deadline, Exited, Refuse, DryRun, Pass, Ask, Answer,
        AnswerFails, Prepared, Send, Retry, Return, Interrupted, EndContext, Exit,
        Preparing, vars, sending
  <2> QED BY <1>1, <2>1, <2>2 DEF HeaderIsClean
<1> QED BY <1>2, <1>3, <1>4

(* An endpoint that a client was made for is a URL with a scheme. *)
LEMMA EndpointFacts ==
  ASSUME Inv, Sending
  PROVE  cfg.endpoint \in URL /\ cfg.endpoint.scheme # "none"
<1>1. Shape /\ SettingsFollow /\ NothingRefusedBehind BY DEF Inv
<1>2. Input(in) BY <1>1, InputFacts
<1>3. /\ \E i \in DOMAIN Order(in.command) : Order(in.command)[i] = "client"
      /\ \E i \in DOMAIN Order(in.command) : Order(in.command)[i] = "resolve"
  BY <1>1, InputFacts, OrderFacts
<1>4. Behind("client") /\ Behind("resolve") BY <1>1, <1>3, AllBehind DEF Shape
<1>5. "endpoint" \in ConfigKeys /\ "endpoint" \in EnvKeys /\ Defaults.endpoint = Empty
  BY DEF ConfigKeys, Defaults, EnvKeys
<1>6. cfg.endpoint = Chosen.endpoint BY <1>1, <1>4, <1>5 DEF SettingsFollow
<1>7. Preferred("endpoint") \in URL \cup {Empty}
  BY <1>2, <1>5, PreferredIs DEF Input, Given
<1>8. Chosen.endpoint \in URL BY <1>2, <1>7, ChosenIsPreferred, AddressesAssumption
<1> QED BY <1>1, <1>4, <1>6, <1>8 DEF NothingRefusedBehind, ClientFails

(* The origin comparison of the transport, spelled out for URLs with a scheme. *)
LEMMA SameOrigin ==
  ASSUME NEW u \in URL, NEW v \in URL, u.scheme # "none", v.scheme # "none"
  PROVE  Origin(u) = Origin(v) <=>
           /\ u.scheme = v.scheme /\ Fold[u.host] = Fold[v.host]
           /\ \/ u.port = v.port
              \/ {u.port, v.port} \subseteq {IF u.scheme = "https" THEN 443 ELSE 80, NoPort}
<1>1. /\ u.scheme \in {"http", "https"} /\ v.scheme \in {"http", "https"}
      /\ u.port \in Nat /\ v.port \in Nat
  BY DEF URL
<1>2. \A x \in URL : x.scheme # "none" =>
        EffectivePort(x) = IF x.port # NoPort THEN x.port
                           ELSE IF x.scheme = "https" THEN 443 ELSE 80
  BY DEF EffectivePort, DefaultPort, URL
<1>3. Origin(u) = Origin(v) <=>
        u.scheme = v.scheme /\ Fold[u.host] = Fold[v.host] /\ EffectivePort(u) = EffectivePort(v)
  BY DEF Origin
<1> QED BY <1>1, <1>2, <1>3 DEF NoPort

(* While there is a request on the wire the settings stay. *)
LEMMA SettingsOfTheWire ==
  ASSUME Inv, [Next]_vars, wire # NoRequest
  PROVE  cfg' = cfg
BY Moves DEF Inv, NothingOnTheWire, Pass, Answer, Preparing

(* The wire changes when a request is sent. *)
LEMMA OnlySendWrites == ASSUME [Next]_vars, ~Send PROVE wire' = wire
BY DEF Next, Command, Signal, Deadline, Exited, Refuse, DryRun, Pass, Ask, Answer,
       AnswerFails, Prepared, Attempt, Redirect, Retry, Return, Interrupted, EndContext,
       vars, sending

(* Whatever request comes from redirects and retries, the transport decides   *)
(* anew, and nothing but the transport puts credentials on.                   *)
LEMMA CredentialsNext == ASSUME Inv, [Next]_vars PROVE CredentialsStayAtHome'
<1>1. CASE Send
  <2> DEFINE authorization == IF Authenticates(cfg, to) THEN "basic" ELSE held
  <2>1. /\ wire' = [to |-> to, keeps |-> keeps, body |-> unread,
                    authorization |-> authorization]
        /\ cfg' = cfg /\ phase = "send"
    BY <1>1 DEF Send
  <2>2. wire'.to = to /\ wire'.authorization = authorization BY <2>1
  <2>3. held # "basic" /\ to \in Targets \cup {cfg.endpoint}
    BY <2>1 DEF Inv, HeaderIsClean
  <2>4. cfg.endpoint \in URL /\ cfg.endpoint.scheme # "none"
    BY <2>1, EndpointFacts DEF Sending
  <2>5. to \in URL /\ to.scheme # "none" BY <2>3, <2>4, AddressesAssumption
  <2>6. authorization = "basic" <=> Authenticates(cfg, to) BY <2>3
  <2>7. Authenticates(cfg, to) <=>
          /\ cfg.username # Empty /\ cfg.password # Empty
          /\ to.scheme = cfg.endpoint.scheme /\ Fold[to.host] = Fold[cfg.endpoint.host]
          /\ \/ to.port = cfg.endpoint.port
             \/ {to.port, cfg.endpoint.port}
                  \subseteq {IF to.scheme = "https" THEN 443 ELSE 80, NoPort}
    BY <2>4, <2>5, SameOrigin DEF Authenticates
  <2> HIDE DEF authorization
  <2> QED BY <2>1, <2>2, <2>6, <2>7 DEF CredentialsStayAtHome
<1>2. CASE ~Send /\ wire # NoRequest
  BY <1>2, OnlySendWrites, SettingsOfTheWire DEF Inv, CredentialsStayAtHome
<1>3. CASE ~Send /\ wire = NoRequest
  BY <1>3, OnlySendWrites DEF CredentialsStayAtHome
<1> QED BY <1>1, <1>2, <1>3

(* Each request carries the reader it was given. *)
LEMMA WholeNext == ASSUME Inv, [Next]_vars PROVE EveryRequestIsWhole'
<1>1. BodyLen' = BodyLen BY Moves, InputStays
<1>2. CASE Send
  <2>1. wire'.keeps = keeps /\ wire'.body = unread BY <1>2 DEF Send
  <2> QED BY <1>1, <1>2, <2>1 DEF Inv, ReaderIsFresh, EveryRequestIsWhole, Send
<1>3. CASE ~Send
  BY <1>1, <1>3, OnlySendWrites DEF Inv, EveryRequestIsWhole
<1> QED BY <1>2, <1>3

(* The invariant holds in every reachable state. *)
THEOREM Invariance == Spec => []Inv
<1>1. Inv /\ [Next]_vars => Inv'
  BY ShapeNext, SettingsNext, AskedInStepNext, AskedWithReasonNext, NothingRefusedNext,
     RefusedAtHandNext, DeadlineNext, WireNext, HeaderNext, ReaderNext, CredentialsNext, WholeNext
  DEF Inv
<1> QED BY <1>1, InvInit, PTL DEF Spec

-----------------------------------------------------------------------------
(* What follows *)

(* Whatever chain of redirects and retries, and whatever of the headers goes  *)
(* along it, credentials are on each request to the endpoint's own origin and *)
(* on no other (client.go:186-202, request.go:31).                            *)
THEOREM CredentialsCorrect == Spec => []CredentialsStayAtHome
<1>1. Inv => CredentialsStayAtHome BY DEF Inv
<1> QED BY <1>1, Invariance, PTL

(* Every request that keeps its body carries all of it, however much of it an *)
(* earlier one has read (request.go:73-82).                                   *)
THEOREM WholeCorrect == Spec => []EveryRequestIsWhole
<1>1. Inv => EveryRequestIsWhole BY DEF Inv
<1> QED BY <1>1, Invariance, PTL


(* A command that sends has its settings resolved and its password settled. *)
LEMMA SendingHasSettings ==
  ASSUME Inv, Sending
  PROVE  /\ Behind("password") /\ Behind("resolve")
         /\ in.command # "run" => Behind("size")
<1>1. Shape BY DEF Inv
<1>2. Behind("password") BY <1>1, InputFacts, OrderFacts, AllBehind DEF Inv, Shape
<1>3. Behind("resolve")
  BY <1>1, <1>2, InputFacts, OrderFacts, BehindBefore DEF Reached
<1>4. in.command # "run" => Behind("size")
  BY <1>1, <1>3, InputFacts, OrderFacts, BehindBefore DEF Reached
<1> QED BY <1>2, <1>3, <1>4

(* The invariant settles which layer every setting of a request is from. *)
LEMMA InvResolves == Inv => ResolvedByPrecedence
<1> SUFFICES ASSUME Inv PROVE ResolvedByPrecedence OBVIOUS
<1>1. Input(in) BY InputFacts DEF Inv
<1>2. Behind("resolve") =>
        /\ \A k \in ConfigKeys \ {"password"} : cfg[k] = Chosen[k]
        /\ IF Behind("password") /\ NeedsPassword(Chosen)
             THEN cfg.password \in Typed ELSE cfg.password = Chosen.password
  BY DEF Inv, SettingsFollow
<1>3. {"endpoint", "username", "password", "timeout", "caCert", "insecure"} \subseteq ConfigKeys
  BY DEF ConfigKeys, Defaults
<1>4. \A k \in {"username", "password", "timeout", "caCert", "insecure"} :
        Chosen[k] = Preferred(k)
  BY <1>1, <1>3, ChosenIsPreferred
<1>5. Chosen.endpoint = IF Preferred("endpoint") = Empty THEN DefaultEndpoint
                        ELSE Preferred("endpoint")
  BY <1>1, ChosenIsPreferred
<1>6. ASSUME Sending
      PROVE  /\ \A k \in {"username", "timeout", "caCert", "insecure"} : cfg[k] = Preferred(k)
             /\ cfg.endpoint = Chosen.endpoint
             /\ IF NeedsPassword(Chosen) THEN cfg.password \in Typed
                ELSE cfg.password = Preferred("password")
  BY <1>2, <1>3, <1>4, <1>6, SendingHasSettings
<1>7. exit = 124 => Preferred("timeout") > 0
  BY <1>2, <1>3, <1>4 DEF Inv, DeadlineWasSet
<1>8. ASSUME phase = "exited", at \in DOMAIN Order(in.command), Step = "resolve"
      PROVE  \/ "resolve" \in in.faults
             \/ IF Given(in.file.timeout) THEN in.file.timeout = Malformed
                ELSE in.env.timeout = Malformed
             \/ Preferred("timeout") < 0
  <2>1. Refused BY <1>8 DEF Inv, RefusedAtHand
  <2>2. "resolve" \in in.faults \/ ResolveFails(Flags, Env) BY <1>8, <2>1 DEF Refused
  <2>3. CASE LookupEnv(Env, "timeout") = Malformed
    <3>1. Env.timeout = Malformed
      BY <2>3, ValuesAssumption DEF LookupEnv
    <3> QED BY <3>1 DEF Env, LayeredEnv, EnvKeys
  <2>4. CASE LookupEnv(Env, "timeout") # Malformed /\ ResolveFails(Flags, Env)
    <3>1. Chosen.timeout < 0 BY <2>4 DEF ResolveFails, Chosen
    <3> QED BY <1>4, <3>1
  <2> QED BY <2>2, <2>3, <2>4
<1>9. Sending => \/ in.flags.endpoint = Empty /\ Given(Env.endpoint)
                 \/ cfg.endpoint = IF Preferred("endpoint") = Empty THEN DefaultEndpoint
                                   ELSE Preferred("endpoint")
  BY <1>5, <1>6
<1>10. Sending => IF Preferred("password") = Empty /\ Preferred("username") # Empty
                    THEN cfg.password \in Typed
                    ELSE cfg.password = Preferred("password")
  BY <1>1, <1>6, NeedsPasswordIs
<1> QED BY <1>6, <1>7, <1>8, <1>9, <1>10 DEF ResolvedByPrecedence

(* Requests are sent with the settings of docs/cli.md:136-153, for every       *)
(* combination of flags, env file and environment.                            *)
THEOREM PrecedenceCorrect == Spec => []ResolvedByPrecedence
BY InvResolves, Invariance, PTL

(* A size in bytes is not negative. *)
LEMMA SizeTextFacts ==
  ASSUME NEW t \in SizeText
  PROVE  /\ t.digits \in Int /\ t.digits * t.unit \in Int
         /\ t.digits >= 0 => t.digits * t.unit >= 0
<1> DEFINE d == t.digits
           u == t.unit
<1>1. d \in Nat \cup {-1} /\ u \in Nat \ {0} BY UnitFacts DEF SizeText
<1> HIDE DEF d, u
<1>2. d \in Int /\ d * u \in Int /\ (d >= 0 => d * u >= 0) BY <1>1
<1> QED BY <1>2 DEF d, u

(* What ParseSize makes of the size of the command line. *)
LEMMA SizeIs ==
  ASSUME Input(in)
  PROVE  /\ ParseSize(Size) = IF Size.digits >= 0 /\ Size.digits * Size.unit <= MaxInt
                                THEN Size.digits * Size.unit ELSE OutOfRange
         /\ Size.digits \in Int /\ Size.digits * Size.unit \in Int
         /\ in.size = Unset => Size.digits >= 0 /\ Size.digits * Size.unit <= MaxInt
         /\ Chosen.maxBodyBuffer = ParseSize(Size)
<1>1. Size \in SizeText BY SizeIsText
<1>2. Size.digits \in Int /\ Size.digits * Size.unit \in Int BY <1>1, SizeTextFacts
<1>3. ParseSize(Size) # Unset BY <1>1, ParseSizeIsExact, ValuesAssumption
<1>4. Flags.maxBodyBuffer = IF in.size = Unset THEN Unset ELSE ParseSize(in.size)
  BY DEF Flags, ConfigKeys, Defaults
<1>5. Chosen.maxBodyBuffer = ParseSize(Size)
  BY <1>3, <1>4, ChosenIsPreferred DEF Size
<1> QED BY <1>1, <1>2, <1>5, ParseSizeIsExact, DefaultSizeAssumption DEF Size

(* The invariant makes the sizes exact. *)
LEMMA InvSizes == Inv => SizesAreExact
<1> SUFFICES ASSUME Inv PROVE SizesAreExact OBVIOUS
<1>1. Input(in) BY InputFacts DEF Inv
<1> DEFINE exact == Size.digits * Size.unit
           fits == Size.digits >= 0 /\ exact <= MaxInt
<1>2. ParseSize(Size) = IF fits THEN exact ELSE OutOfRange BY <1>1, SizeIs
<1>3. exact \in Int /\ Size.digits \in Int /\ MaxInt \in Nat
  BY <1>1, SizeIs, SizesAssumption
<1>4. ASSUME Sending PROVE cfg.maxBodyBuffer = exact /\ ParseSize(FormatSize(exact)) = exact
  <2>1. fits
    <3>1. CASE in.size = Unset BY <1>1, <3>1, SizeIs
    <3>2. CASE in.size # Unset
      <4>1. Behind("size") BY <1>1, <1>4, <3>2, SendingHasSettings DEF Input
      <4> QED BY <1>2, <4>1 DEF Inv, NothingRefusedBehind
    <3> QED BY <3>1, <3>2
  <2>2. cfg.maxBodyBuffer = Chosen.maxBodyBuffer
    BY <1>4, SendingHasSettings DEF Inv, SettingsFollow, ConfigKeys, Defaults
  <2>3. exact \in 0 .. MaxInt
    <3>1. Size \in SizeText BY <1>1, SizeIsText
    <3>2. exact >= 0 BY <2>1, <3>1, SizeTextFacts
    <3> QED BY <1>3, <2>1, <3>2
  <2> QED BY <1>1, <1>2, <2>1, <2>2, <2>3, SizeIs, FormattedIsReadBack
<1>5. ASSUME phase = "exited", at \in DOMAIN Order(in.command), Step = "size"
      PROVE  "size" \in in.faults \/ Size.digits < 0 \/ exact > MaxInt
  <2>1. Refused BY <1>5 DEF Inv, RefusedAtHand
  <2>2. "size" \in in.faults \/ ParseSize(Size) = OutOfRange BY <1>5, <2>1 DEF Refused
  <2>3. ASSUME fits PROVE ParseSize(Size) # OutOfRange
    <3>1. Size \in SizeText BY <1>1, SizeIsText
    <3>2. exact >= 0 BY <2>3, <3>1, SizeTextFacts
    <3> HIDE DEF exact
    <3> QED BY <1>2, <1>3, <2>3, <3>2 DEF OutOfRange
  <2> HIDE DEF exact
  <2> QED BY <1>3, <2>2, <2>3
<1> QED BY <1>4, <1>5 DEF SizesAreExact

(* No size is taken for another one: it counts as it says or is refused, and  *)
(* is read back from what FormatSize prints (config.go:160-211).              *)
THEOREM SizesCorrect == Spec => []SizesAreExact
BY InvSizes, Invariance, PTL


(* A timeout that resolves is a number, and not negative. *)
LEMMA TimeoutCounts ==
  ASSUME Input(in), ~ResolveFails(Flags, Env)
  PROVE  LookupEnv(Env, "timeout") # Malformed /\ Preferred("timeout") >= 0
<1>1. LookupEnv(Env, "timeout") # Malformed /\ ~(Chosen.timeout < 0)
  BY DEF ResolveFails, Chosen
<1>2. "timeout" \in ConfigKeys \ {"maxBodyBuffer", "endpoint"} /\ "timeout" \in EnvKeys
      /\ Defaults.timeout = 0
  BY DEF ConfigKeys, Defaults, EnvKeys
<1>3. Env.timeout = IF Given(in.file.timeout) THEN in.file.timeout ELSE in.env.timeout
  BY <1>2 DEF Env, LayeredEnv
<1>4. Given(Env.timeout) => Env.timeout # Malformed BY <1>1 DEF LookupEnv
<1>5. /\ Given(in.file.timeout) => in.file.timeout \in Int
      /\ ~Given(in.file.timeout) /\ Given(in.env.timeout) => in.env.timeout \in Int
      /\ in.flags.timeout # Unset => in.flags.timeout \in Int
  BY <1>3, <1>4 DEF Input, Given
<1>6. Preferred("timeout") \in Int BY <1>2, <1>5, PreferredIs
<1>7. Chosen.timeout = Preferred("timeout") BY <1>2, ChosenIsPreferred
<1> QED BY <1>1, <1>6, <1>7

(* By the time a password is needed, all that comes before it is sound. *)
LEMMA SoundBefore ==
  ASSUME Inv, Reached("password")
  PROVE  /\ in.faults \cap {Order(in.command)[i] : i \in DOMAIN Order(in.command)}
              \subseteq WhilePassword
         /\ Size.digits >= 0 /\ Size.digits * Size.unit <= MaxInt
         /\ LookupEnv(Env, "timeout") # Malformed /\ Preferred("timeout") >= 0
         /\ in.command = "run" => ~in.dryRun
<1>1. Shape /\ NothingRefusedBehind BY DEF Inv
<1>2. Input(in) BY <1>1, InputFacts
<1>3. Behind("resolve") BY <1>1, InputFacts, OrderFacts, BehindBefore
<1>4. ASSUME NEW i \in DOMAIN Order(in.command), Order(in.command)[i] \in in.faults
      PROVE  Order(in.command)[i] \in WhilePassword
  <2>1. ~(i < at) BY <1>1, <1>4 DEF NothingRefusedBehind, Behind
  <2>2. \E n \in Nat : DOMAIN Order(in.command) = 1 .. n BY <1>1, InputFacts
  <2>3. PICK j \in DOMAIN Order(in.command) : j <= at /\ Order(in.command)[j] = "password"
    BY <1>1, <2>2, InputFacts DEF Reached, Behind, Step
  <2>4. j <= i BY <1>1, <2>1, <2>2, <2>3, InputFacts
  <2>5. OnlyFrom(Order(in.command), "password", WhilePassword)
    BY <1>1, InputFacts, OrderFacts
  <2> QED BY <1>4, <2>3, <2>4, <2>5 DEF OnlyFrom
<1>5. Size.digits >= 0 /\ Size.digits * Size.unit <= MaxInt
  <2>1. CASE in.size = Unset BY <1>2, <2>1, SizeIs
  <2>2. CASE in.size # Unset
    <3>1. in.command # "run" BY <1>2, <2>2 DEF Input
    <3>2. Behind("size")
      BY <1>1, <1>3, <3>1, InputFacts, OrderFacts, BehindBefore DEF Reached
    <3>3. ParseSize(Size) # OutOfRange BY <1>1, <3>2 DEF NothingRefusedBehind
    <3> QED BY <1>2, <3>3, SizeIs
  <2> QED BY <2>1, <2>2
<1>6. LookupEnv(Env, "timeout") # Malformed /\ Preferred("timeout") >= 0
  BY <1>1, <1>2, <1>3, TimeoutCounts DEF NothingRefusedBehind
<1>7. in.command = "run" => ~in.dryRun
  BY <1>1, InputFacts, OrderFacts, BehindBefore DEF NothingRefusedBehind
<1> QED BY <1>4, <1>5, <1>6, <1>7

(* The invariant says why anything is asked. *)
LEMMA InvAsks == Inv => NothingIsAskedInVain
<1> SUFFICES ASSUME Inv PROVE NothingIsAskedInVain OBVIOUS
<1>1. Shape /\ AskedWithReason /\ NothingRefusedBehind BY DEF Inv
<1>2. Input(in) BY <1>1, InputFacts
<1>3. ASSUME "prompt" \in asked
      PROVE  /\ Reached("password") /\ "password" \notin in.faults /\ in.tty
             /\ Preferred("password") = Empty /\ Preferred("username") # Empty
  BY <1>1, <1>2, <1>3, NeedsPasswordIs DEF AskedWithReason
<1>4. ASSUME "stdin" \in asked, in.command = "request"
      PROVE  Reached("password") /\ "client" \notin in.faults /\ ~ClientFails(cfg)
  <2>1. Behind("client")
    BY <1>1, <1>4, InputFacts, OrderFacts, BehindBefore DEF AskedWithReason
  <2>2. Behind("password")
    BY <1>1, <2>1, InputFacts, OrderFacts, BehindBefore DEF Reached
  <2> QED BY <1>1, <2>1, <2>2 DEF Reached, NothingRefusedBehind
<1> QED BY <1>3, <1>4, SoundBefore DEF NothingIsAskedInVain, WhilePassword

(* Whatever is wrong with the command line, its settings or its files: who is *)
(* asked for a password is asked by a command that still needs it             *)
(* (request.go:261-262).                                                      *)
THEOREM AskedCorrect == Spec => []NothingIsAskedInVain
BY InvAsks, Invariance, PTL


=============================================================================
