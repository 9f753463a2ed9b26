------------------------------- MODULE Office -------------------------------
(***************************************************************************)
(* The modules that keep a practice and the platform running: money,       *)
(* messages, notices, the calendar and the legal side.                     *)
(* Each instance is a desk, and a behaviour stays at the desk it begins    *)
(* at: the desks share no step, so what is said of the office is said of   *)
(* each of them as if it stood alone.  The module extended is at the first *)
(* desk, with its own constants and variables; v1 to v5 are the variables  *)
(* of the module at any other desk.                                        *)
(***************************************************************************)
EXTENDS PartnerLedger

CONSTANTS
  Nobody, Nothing,                                \* placeholders
  CardIds,                                        \* Cards
  Accounts, ApiKeys, AccountOf, Amounts, PriceIds, \* Prices
  PlanNames, Cycles, PlanAmounts, BuiltIn,        \* Tariff
  Bills, Clients, MaxNumber,                      \* ClientBills
  People, Contacts, Threads, Messages, Sockets,   \* Conversations
  Convos, Window, MaxTurns,                       \* Assistant
  Owners, Devices, MaxUnread,                     \* PushDelivery
  News, Firms, Audience, FirmOf, RoleOf, Staffers, Notes, MaxTold, \* Announcements
  Appointments, Guests, Consultants, Holders, Horizon, Month,      \* Worklist
  Agents, MaxReplies,                             \* Helpdesk
  Types, Asked, Requests, Kinds, MaxTrail,        \* Privacy
  Policies, Versions, Wordings, Readers           \* LegalTexts

VARIABLES desk, v1, v2, v3, v4, v5
atDesk == <<v1, v2, v3, v4, v5>>
officeVars == <<vars, desk, atDesk>>
Away == "away"
Unused == v1 = Away /\ v2 = Away /\ v3 = Away /\ v4 = Away /\ v5 = Away

-----------------------------------------------------------------------------
\* Money: what partners earn and are paid, saved cards, the provider's prices,
\* the platform's plans, and the bills a practice sends.
Wallet == INSTANCE Cards WITH
  held <- v1, charged <- v2, began <- v3, mishap <- v4, asking <- v5,
  NoCard <- Nothing, Single <- {"detach"}
PriceList == INSTANCE Prices WITH
  config <- v1, made <- v2, cached <- v3, pricing <- v4,
  Ids <- PriceIds, NoId <- Nothing, Product <- Nothing, Pinned <- Nobody
PlanList == INSTANCE Tariff WITH
  older <- v1, newer <- v2, setting <- v3,
  Plans <- PlanNames, Amounts <- PlanAmounts, Unset <- Nothing, Keep <- Nobody, Calls <- {"c"}
Billing == INSTANCE ClientBills WITH
  bills <- v1, counter <- v2, notices <- v3, sent <- v4, issuing <- v5

\* Messages and notices: people's threads, a person's talk with the assistant,
\* pushes to devices that change hands, and announcements to the workspaces.
Talk == INSTANCE Conversations WITH
  threads <- v1, messages <- v2, sockets <- v3, talking <- v4,
  NoThread <- Nothing, NoMessage <- Nothing, NoSocket <- Nothing, Alone <- {"read"}
Chats == INSTANCE Assistant WITH
  convos <- v1, asking <- v2, NoConvo <- Nothing, MaxMessages <- MaxTurns
Push == INSTANCE PushDelivery WITH
  feed <- v1, devices <- v2, muted <- v3, access <- v4, pushing <- v5,
  NoOwner <- Nobody, Tasks <- Calls
Bulletin == INSTANCE Announcements WITH
  posts <- v1, open <- v2, told <- v3, walks <- v4, bell <- v5, People <- Audience

\* The calendar, the help desk, consents and requests, and the legal texts.
Calendar == INSTANCE Worklist WITH
  now <- v1, agenda <- v2, mirrored <- v3, lost <- v4, planning <- v5,
  People <- Guests, Owners <- Holders, Alone <- {"create"}
Desk == INSTANCE Helpdesk WITH
  ticket <- v1, said <- v2, replying <- v3,
  NoAgent <- Nobody, MaxMessages <- MaxReplies, Alone <- {"reply", "create"}
Consents == INSTANCE Privacy WITH
  consents <- v1, trail <- v2, requests <- v3, granting <- v4,
  NoType <- Nothing, NoKind <- Nothing, MayFail <- FALSE, Alone <- {}
Policy == INSTANCE LegalTexts WITH
  policies <- v1, accepted <- v2, drafting <- v3,
  Texts <- Wordings, Alone <- {"publish"}

ASSUME DesksAssumption ==
  /\ LedgerAssumption /\ Wallet!CardsAssumption /\ PriceList!PricesAssumption
  /\ PlanList!TariffAssumption /\ Billing!ClientBillsAssumption
  /\ Talk!ConversationsAssumption /\ Chats!AssistantAssumption /\ Push!PushAssumption /\ Bulletin!AnnouncementsAssumption
  /\ Calendar!WorklistAssumption /\ Desk!HelpdeskAssumption
  /\ Consents!PrivacyAssumption /\ Policy!LegalAssumption

-----------------------------------------------------------------------------
AwayFromLedger == Init /\ \A c \in Calls : ledger[c].who = "p1" \* nothing has begun there

OfficeInit ==
  \/ desk = "ledger" /\ Init /\ Unused
  \/ /\ AwayFromLedger
     /\ \/ desk = "wallet" /\ Wallet!Init
        \/ desk = "prices" /\ PriceList!Init /\ v5 = Away
        \/ desk = "plans" /\ PlanList!Init /\ v4 = Away /\ v5 = Away
        \/ desk = "billing" /\ Billing!Init
        \/ desk = "talk" /\ Talk!Init /\ v5 = Away
        \/ desk = "chats" /\ Chats!Init /\ v3 = Away /\ v4 = Away /\ v5 = Away
        \/ desk = "push" /\ Push!Init
        \/ desk = "news" /\ Bulletin!Init
        \/ desk = "calendar" /\ Calendar!Init
        \/ desk = "help" /\ Desk!Init /\ v4 = Away /\ v5 = Away
        \/ desk = "consents" /\ Consents!Init /\ v5 = Away
        \/ desk = "texts" /\ Policy!Init /\ v4 = Away /\ v5 = Away

AtLedger == desk = "ledger" /\ Next /\ UNCHANGED <<desk, atDesk>>
AtWallet == desk = "wallet" /\ Wallet!Next /\ UNCHANGED <<desk, vars>>
AtPrices == desk = "prices" /\ PriceList!Next /\ UNCHANGED <<desk, vars, v5>>
AtPlans == desk = "plans" /\ PlanList!Next /\ UNCHANGED <<desk, vars, v4, v5>>
AtBilling == desk = "billing" /\ Billing!Next /\ UNCHANGED <<desk, vars>>
AtTalk == desk = "talk" /\ Talk!Next /\ UNCHANGED <<desk, vars, v5>>
AtChats == desk = "chats" /\ Chats!Next /\ UNCHANGED <<desk, vars, v3, v4, v5>>
AtPush == desk = "push" /\ Push!Next /\ UNCHANGED <<desk, vars>>
AtNews == desk = "news" /\ Bulletin!Next /\ UNCHANGED <<desk, vars>>
AtCalendar == desk = "calendar" /\ Calendar!Next /\ UNCHANGED <<desk, vars>>
AtHelp == desk = "help" /\ Desk!Next /\ UNCHANGED <<desk, vars, v4, v5>>
AtConsents == desk = "consents" /\ Consents!Next /\ UNCHANGED <<desk, vars, v5>>
AtTexts == desk = "texts" /\ Policy!Next /\ UNCHANGED <<desk, vars, v4, v5>>

OfficeNext == \/ AtLedger \/ AtWallet \/ AtPrices \/ AtPlans \/ AtBilling \/ AtTalk
              \/ AtChats \/ AtPush \/ AtNews \/ AtCalendar \/ AtHelp \/ AtConsents \/ AtTexts

OfficeSpec == OfficeInit /\ [][OfficeNext]_officeVars

-----------------------------------------------------------------------------
\* The properties of the modules, each at its desk; PayoutsHonest, of the first
\* desk, is PartnerLedger's own.

\* Every desk's variables keep their types.
OfficeTyped ==
  /\ TypeOK
  /\ desk = "wallet" => Wallet!TypeOK
  /\ desk = "prices" => PriceList!TypeOK
  /\ desk = "plans" => PlanList!TypeOK
  /\ desk = "billing" => Billing!TypeOK
  /\ desk = "talk" => Talk!TypeOK
  /\ desk = "chats" => Chats!TypeOK
  /\ desk = "push" => Push!TypeOK
  /\ desk = "news" => Bulletin!TypeOK
  /\ desk = "calendar" => Calendar!TypeOK
  /\ desk = "help" => Desk!TypeOK
  /\ desk = "consents" => Consents!TypeOK
  /\ desk = "texts" => Policy!TypeOK

\* With one removal of its own at a time a workspace that had a card to charge has
\* one still, unless another's call took one off, and between calls it is the one
\* named, unless a mishap came between (stripe_service.py:502, 522).
SomethingToCharge == desk = "wallet" => Wallet!SomethingToCharge

\* A subscription is sold at the price pinned or at one of its amount in the account
\* whose key is in force, and a key makes a second price of an amount only when the
\* provider forgot the first too early (stripe_service.py:111, 181).
PriceFits == desk = "prices" => PriceList!PriceFits

\* With one editor at a time a plan's price moves only under an edit of that plan,
\* to the amount the edit named (billing.py:235).
TariffKept == [][desk = "plans" => PlanList!KeepsTariff]_officeVars

\* A client is told once of a bill and pays only what was sent, and no two bills
\* bear one number (billing/router.py:156, 177, 192).
BillsTold == desk = "billing" => Billing!BillsTold

\* The badge of a conversation is what its reader has not read, with readers kept
\* to themselves (messages/service.py:264), only the people of a thread hear what
\* is said in it (realtime.py:78), and what the assistant is shown of a
\* conversation is questions and answers in turn (ai/router.py:123).
ConversationsKept == /\ desk = "talk" => Talk!UnreadExact /\ Talk!HeardByThread
                     /\ desk = "chats" => Chats!PromptAlternates

\* Pushes at once ask for one access token (push.py:221), and an announcement is
\* told once, to its audience and nobody else (announcements.py:78).
NoticesOnce == /\ desk = "push" => Push!AskedOnce
               /\ desk = "news" => Bulletin!ToldOnce

\* The calendar holds an appointment at its hour for as long as it stands, unless
\* a crash cost its mirror (agenda/router.py:48, 89).
CalendarFollows == desk = "calendar" => Calendar!CalendarFollows

\* With one reply at a time, a ticket waits on the customer only after an agent's
\* words (support/service.py:145).
WaitsOnTheOther == desk = "help" => Desk!WaitsOnTheOther

\* While no write fails, a consent is one the history holds (consents.py:19).
ConsentTraced == desk = "consents" => Consents!ConsentTraced

\* With one publication at a time some version of the policy stays live from its
\* first publication on (legal/router.py:273).
AlwaysLive == [][desk = "texts" => Policy!StaysLive]_officeVars
=============================================================================
