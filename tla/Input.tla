------------------------------- MODULE Input -------------------------------
(***************************************************************************)
(* EventHandler (eventhandler.h, eventhandler.cpp): update pulls what the  *)
(* provider has queued (MemEventProvider of abstracteventprovider.h) and   *)
(* keeps, per client the events come from, the keys, the mouse, the typed  *)
(* text and whether to quit.  Events with a client come as bytes           *)
(* (Event::serialize, deserialize of abstracteventprovider.cpp).           *)
(***************************************************************************)
EXTENDS Scancodes, Buffer, Lists, FiniteSets

CONSTANTS InputEvent,    \* events: client, type and code, the scancode or position
          MaxInputEvents \* bound: events in all

\* Event::Type; the client of an event that has none.
KeyDown == 0
KeyUp == 1
MouseMotion == 2
Quit == 3
Nobody == Nullopt

\* Ids, scancodes and positions have two bytes.
ASSUME InputAssumption ==
  /\ MaxInputEvents \in Nat
  /\ InputEvent \subseteq
       [client : Nobody .. Top, type : KeyDown .. Quit, code : 0 .. Top]
  /\ \A e \in InputEvent :
       e.type \in {KeyDown, KeyUp} => e.code \in Scancode \/ e.code >= ScancodesCount

VARIABLES provided,  \* MemEventProvider's m_queue
          m_clients, \* client -> ClientEventHandler, for those an event came from
          sent,      \* history: the events queued, as they were before
          handledAt, \* history: how many were at the last update, and before it
          pulled     \* history: client -> the text pulled

inputVars == <<provided, m_clients, sent, handledAt, pulled>>

BufferSize == ScancodesCount

ClientEventHandler ==
  [m_holdedKeys |-> {}, m_singlePressedKeys |-> {}, m_mousePosition |-> 0,
   m_exitFlag |-> FALSE, m_textBuffer |-> <<>>, m_keyboardEnabled |-> TRUE]

InitInput ==
  /\ provided = <<>>
  /\ m_clients = << >>
  /\ sent = <<>>
  /\ handledAt = <<0, 0>>
  /\ pulled = << >>

-----------------------------------------------------------------------------
\* Event::serialize: Quit has no code.
serialize(e) ==
  writeWithLoss(e.client) \o write(e.type, 1)
    \o IF e.type = Quit THEN <<>> ELSE write(e.code, 2)

\* Event::deserialize: nothing, of too few bytes.
deserialize(bytes) ==
  LET client == readWithLoss(Reader(bytes, 0))
      type == readPrimitive(client, 1)
      code == IF type.value = Quit THEN [type EXCEPT !.value = 0]
              ELSE readPrimitive(type, 2)
  IN IF client.ok /\ type.ok /\ code.ok
       THEN {[client |-> client.value, type |-> type.value, code |-> code.value]}
       ELSE {}

\* KeyDown: every key but the left shift is text, with the keyboard disabled too.
pressed(h, k) ==
  IF k >= BufferSize THEN h
  ELSE [h EXCEPT
    !.m_holdedKeys = @ \cup {k},
    !.m_singlePressedKeys = @ \cup {k},
    !.m_textBuffer = IF k = ScancodeLShift THEN @
      ELSE Append(@, keySym(k, ScancodeLShift \in h.m_holdedKeys))]

\* Slip: a key that is released was not pressed.
handleEvent_released(h, e) ==
  CASE e.type = KeyDown -> pressed(h, e.code)
    [] e.type = KeyUp -> [h EXCEPT
         !.m_holdedKeys = @ \ {e.code}, !.m_singlePressedKeys = @ \ {e.code}]
    [] e.type = MouseMotion -> [h EXCEPT !.m_mousePosition = e.code]
    [] e.type = Quit -> [h EXCEPT !.m_exitFlag = TRUE]

\* ClientEventHandler::handleEvent.
handleEvent(h, e) ==
  CASE e.type = KeyDown -> pressed(h, e.code)
    [] e.type = KeyUp -> [h EXCEPT !.m_holdedKeys = @ \ {e.code}]
    [] e.type = MouseMotion -> [h EXCEPT !.m_mousePosition = e.code]
    [] e.type = Quit -> [h EXCEPT !.m_exitFlag = TRUE]

\* m_clients[e.clientId()]: a client's first event makes its handler, with the
\* keyboard enabled whatever was disabled before.
dispatch(clients, e) ==
  [c \in DOMAIN clients \cup {e.client} |->
     LET h == IF c \in DOMAIN clients THEN clients[c] ELSE ClientEventHandler
     IN IF c = e.client THEN handleEvent(h, e) ELSE h]

\* The loop of update over the events provided.
dispatchAll(clients, events) ==
  LET after[i \in 0 .. Len(events)] ==
        IF i = 0 THEN clients ELSE dispatch(after[i - 1], events[i])
  IN after[Len(events)]

\* EventHandler::update.
update ==
  LET cleared == [c \in DOMAIN m_clients |->
                    [m_clients[c] EXCEPT !.m_singlePressedKeys = {}]]
  IN /\ m_clients' = dispatchAll(cleared, provided)
     /\ provided' = <<>>
     /\ handledAt' = <<Len(sent), handledAt[1]>>
     /\ pulled' = [c \in DOMAIN m_clients' |->
                     IF c \in DOMAIN pulled THEN pulled[c] ELSE <<>>]
     /\ UNCHANGED sent

\* An event of the program's own, or one that comes from a client.
pushEvent(e) ==
  /\ Len(sent) < MaxInputEvents
  /\ \E d \in IF e.client = Nobody THEN {e} ELSE deserialize(serialize(e)) :
       provided' = Append(provided, d)
  /\ sent' = Append(sent, e)
  /\ UNCHANGED <<m_clients, handledAt, pulled>>

\* Slip: the text stays in the buffer.
takeText_kept(c) ==
  /\ pulled' = [pulled EXCEPT ![c] = @ \o m_clients[c].m_textBuffer]
  /\ UNCHANGED <<provided, m_clients, sent, handledAt>>

\* ClientEventHandler::pullText, with the keyboard enabled.
takeText(c) ==
  /\ pulled' = [pulled EXCEPT ![c] = @ \o m_clients[c].m_textBuffer]
  /\ m_clients' = [m_clients EXCEPT ![c].m_textBuffer = <<>>]
  /\ UNCHANGED <<provided, sent, handledAt>>

HasText(c) == m_clients[c].m_keyboardEnabled /\ m_clients[c].m_textBuffer # <<>>

pullTextOf(c) == c \in DOMAIN m_clients /\ HasText(c) /\ takeText(c)

\* EventHandler::pullText: of the first client that has any, the nobody first.
pullText ==
  \E c \in DOMAIN m_clients :
    /\ HasText(c)
    /\ \A d \in DOMAIN m_clients : d < c => ~HasText(d)
    /\ takeText(c)

\* enableKeyboard and disableKeyboard, of one client or of all there are.
setKeyboard(cs, enabled) ==
  /\ cs # {}
  /\ m_clients' = [c \in DOMAIN m_clients |-> IF c \in cs
       THEN [m_clients[c] EXCEPT !.m_keyboardEnabled = enabled] ELSE m_clients[c]]
  /\ UNCHANGED <<provided, sent, handledAt, pulled>>

\* GameApplication::proceed of an entity: out of focus, it is asked with every
\* client's keyboard disabled and sees nothing; in focus, it sees what there
\* is.  Then all are enabled, those the program had disabled among them.
proceedEntity == setKeyboard(DOMAIN m_clients, TRUE)

NextInput ==
  \/ \E e \in InputEvent : pushEvent(e)
  \/ update
  \/ pullText
  \/ \E c \in DOMAIN m_clients : pullTextOf(c)
  \/ \E c \in DOMAIN m_clients, enabled \in BOOLEAN : setKeyboard({c}, enabled)
  \/ \E enabled \in BOOLEAN : setKeyboard(DOMAIN m_clients, enabled)
  \/ proceedEntity

SpecInput == InitInput /\ [][NextInput]_inputVars

\* What the program asks of the handler.
Enabled == {c \in DOMAIN m_clients : m_clients[c].m_keyboardEnabled}
exitFlag == \E c \in Enabled : m_clients[c].m_exitFlag
keyHolded(k) == k < BufferSize /\ \E c \in Enabled : k \in m_clients[c].m_holdedKeys
keySinglePressed(k) ==
  k < BufferSize /\ \E c \in Enabled : k \in m_clients[c].m_singlePressedKeys

\* EventHandler::mousePosition: the mean of the clients'.
mousePosition ==
  IF DOMAIN m_clients = {} THEN 0
  ELSE LET clients == SetToSeq(DOMAIN m_clients)
           result[i \in 0 .. Len(clients)] ==
             IF i = 0 THEN 0 ELSE result[i - 1] + m_clients[clients[i]].m_mousePosition
       IN result[Len(clients)] \div Len(clients)

-----------------------------------------------------------------------------
\* Whose event it turns out to be: the top id is lost on its way.
owner(e) == IF e.client = Top THEN Nobody ELSE e.client

\* The i-th event sent is c's, is handled, and is a key's.
IsOf(i, c, type) == i <= handledAt[1] /\ owner(sent[i]) = c /\ sent[i].type = type
IsKey(i, c) == IsOf(i, c, KeyDown) /\ sent[i].code < BufferSize

\* The last of c's events up to the i-th that is about key k presses it.
DownAt(i, c, k) ==
  \E j \in 1 .. i :
    /\ IsKey(j, c) /\ sent[j].code = k
    /\ \A l \in j + 1 .. i : ~(IsOf(l, c, KeyUp) /\ sent[l].code = k)

EventKeys == {e.code : e \in {d \in InputEvent : d.type \in {KeyDown, KeyUp}}}

(***************************************************************************)
(* A key is holded from the update that finds it pressed to the one that   *)
(* finds it released, single pressed at every update that finds it pressed *)
(* however soon it is released, and the program is to exit once someone    *)
(* quit: of all clients whose keyboard is enabled.  The mouse is between   *)
(* the clients' mice.                                                      *)
(***************************************************************************)
InputSeen ==
  /\ \A k \in EventKeys :
       /\ keyHolded(k) <=> \E c \in Enabled : DownAt(handledAt[1], c, k)
       /\ keySinglePressed(k) <=>
            \E i \in handledAt[2] + 1 .. handledAt[1], c \in Enabled :
              IsKey(i, c) /\ sent[i].code = k
  /\ exitFlag <=> \E i \in DOMAIN sent, c \in Enabled : IsOf(i, c, Quit)
  /\ DOMAIN m_clients # {} =>
       \E c, d \in DOMAIN m_clients :
         mousePosition \in m_clients[c].m_mousePosition .. m_clients[d].m_mousePosition

InLowerCase ==
  [A |-> "a", B |-> "b", C |-> "c", D |-> "d", E |-> "e", F |-> "f", G |-> "g",
   H |-> "h", I |-> "i", J |-> "j", K |-> "k", L |-> "l", M |-> "m", N |-> "n",
   O |-> "o", P |-> "p", Q |-> "q", R |-> "r", S |-> "s", T |-> "t", U |-> "u",
   V |-> "v", W |-> "w", X |-> "x", Y |-> "y", Z |-> "z"]

\* Of the keys whose name is a character: that one, a letter in its case.  Not
\* of U with shift, which types T (eventhandler.cpp:188).
TypesItsName(char, k, upper) ==
  /\ k \in LetterCodes /\ ~upper => char = InLowerCase[LetterNames[k - 3]]
  /\ k \in LetterCodes \ {ScancodeU} /\ upper => char = LetterNames[k - 3]
  /\ k \in DigitCodes /\ ~upper => char = DigitNames[k - 29]

(***************************************************************************)
(* The text pulled from a client and what is still in its buffer have one  *)
(* character for each key its user pressed, in order, whatever was pulled  *)
(* from whom and however often the keyboard was disabled in between; that  *)
(* of a letter is the letter its key is named, in upper case while the     *)
(* left shift was down, but for U in upper case, and that of a digit       *)
(* without shift the digit.  Of other keys only the place is said.         *)
(***************************************************************************)
TextIsTyped ==
  \A c \in DOMAIN m_clients :
    LET text == pulled[c] \o m_clients[c].m_textBuffer
        typing == Select([i \in 1 .. handledAt[1] |-> i],
                    {i \in DOMAIN sent : IsKey(i, c) /\ sent[i].code # ScancodeLShift})
    IN /\ Len(text) = Len(typing)
       /\ \A n \in DOMAIN typing :
            TypesItsName(text[n], sent[typing[n]].code,
                         DownAt(typing[n], c, ScancodeLShift))
=============================================================================
