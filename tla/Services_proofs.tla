-------------------------- MODULE Services_proofs ---------------------------
(***************************************************************************)
(* All scenes together: what holds of a component holds of the services    *)
(* side by side, since the step of a scene leaves the variables of the     *)
(* others alone.                                                           *)
(***************************************************************************)
EXTENDS Services, ServerScenes_proofs, PageScenes_proofs

\* What holds of each scene while it is the one that moves.
ServicesInv ==
  /\ scene \in Scenes
  /\ scene = "summaries" => WellTyped
  /\ scene = "texts" => TextInv
  /\ scene = "inbox" => ContactInv
  /\ scene = "limits" => LimitsInv
  /\ scene = "moves" => MovesInv
  /\ scene = "seals" => SealInv
  /\ scene = "sheets" => SheetsInv
  /\ scene = "decisions" => DecisionInv
  /\ scene = "totals" => MoneyInv
  /\ scene = "signin" => BrowserInv
  /\ scene = "sessions" => LifeInv
  /\ scene = "lists" => ListsInv
  /\ scene = "deployment" => DeploymentInv
  /\ scene = "migrations" => MigrationInv
  /\ scene = "seeds" => SeedInv
  /\ scene = "notes" => NotesInv
  /\ scene = "profile" => ProfileInv

\* The step of a scene is one of its component, and the scene stays.
LEMMA OneSceneMoves ==
  ASSUME [ServicesNext]_servicesVars
  PROVE  /\ scene' = scene
         /\ scene = "summaries" => [Next]_vars
         /\ scene = "texts" => [Printed!Next]_(Printed!vars)
         /\ scene = "inbox" => [Inbox!Next]_(Inbox!vars)
         /\ scene = "limits" => [Limits!Next]_(Limits!vars)
         /\ scene = "moves" => [Moves!Next]_(Moves!vars)
         /\ scene = "seals" => [Seals!Next]_(Seals!vars)
         /\ scene = "sheets" => [Sheets!Next]_(Sheets!vars)
         /\ scene = "decisions" => [Decided!Next]_(Decided!vars)
         /\ scene = "totals" => [Sums!Next]_(Sums!vars)
         /\ scene = "signin" => [Browser!Next]_(Browser!vars)
         /\ scene = "sessions" => [Lives!Next]_(Lives!vars)
         /\ scene = "lists" => [Lists!Next]_(Lists!vars)
         /\ scene = "deployment" => [Deployment!Next]_(Deployment!vars)
         /\ scene = "migrations" => [Moved!Next]_(Moved!vars)
         /\ scene = "seeds" => [Seeded!Next]_(Seeded!vars)
         /\ scene = "notes" => [Panels!Next]_(Panels!vars)
         /\ scene = "profile" => [Particulars!Next]_(Particulars!vars)
<1>1. CASE ServicesNext
  <2>1. scene' = scene BY <1>1 DEF ServicesNext, SummaryStep, ContactStep, LimitStep, MoveStep, SealStep, SheetStep, TextStep, DecisionStep, TotalStep, BrowserStep,
    SessionStep, ListStep, DeploymentStep, MigrationStep, SeedStep, NoteStep, ProfileStep
  <2>2. scene = "summaries" => Next BY <1>1 DEF ServicesNext, SummaryStep, ContactStep, LimitStep, MoveStep, SealStep, SheetStep, TextStep, DecisionStep, TotalStep, BrowserStep,
    SessionStep, ListStep, DeploymentStep, MigrationStep, SeedStep, NoteStep, ProfileStep
  <2>3. scene = "texts" => Printed!Next BY <1>1 DEF ServicesNext, SummaryStep, ContactStep, LimitStep, MoveStep, SealStep, SheetStep, TextStep, DecisionStep, TotalStep, BrowserStep,
    SessionStep, ListStep, DeploymentStep, MigrationStep, SeedStep, NoteStep, ProfileStep
  <2>4. scene = "inbox" => Inbox!Next BY <1>1 DEF ServicesNext, SummaryStep, ContactStep, LimitStep, MoveStep, SealStep, SheetStep, TextStep, DecisionStep, TotalStep, BrowserStep,
    SessionStep, ListStep, DeploymentStep, MigrationStep, SeedStep, NoteStep, ProfileStep
  <2>5. scene = "limits" => Limits!Next BY <1>1 DEF ServicesNext, SummaryStep, ContactStep, LimitStep, MoveStep, SealStep, SheetStep, TextStep, DecisionStep, TotalStep, BrowserStep,
    SessionStep, ListStep, DeploymentStep, MigrationStep, SeedStep, NoteStep, ProfileStep
  <2>6. scene = "moves" => Moves!Next BY <1>1 DEF ServicesNext, SummaryStep, ContactStep, LimitStep, MoveStep, SealStep, SheetStep, TextStep, DecisionStep, TotalStep, BrowserStep,
    SessionStep, ListStep, DeploymentStep, MigrationStep, SeedStep, NoteStep, ProfileStep
  <2>7. scene = "seals" => Seals!Next BY <1>1 DEF ServicesNext, SummaryStep, ContactStep, LimitStep, MoveStep, SealStep, SheetStep, TextStep, DecisionStep, TotalStep, BrowserStep,
    SessionStep, ListStep, DeploymentStep, MigrationStep, SeedStep, NoteStep, ProfileStep
  <2>8. scene = "sheets" => Sheets!Next BY <1>1 DEF ServicesNext, SummaryStep, ContactStep, LimitStep, MoveStep, SealStep, SheetStep, TextStep, DecisionStep, TotalStep, BrowserStep,
    SessionStep, ListStep, DeploymentStep, MigrationStep, SeedStep, NoteStep, ProfileStep
  <2>9. scene = "decisions" => Decided!Next BY <1>1 DEF ServicesNext, SummaryStep, ContactStep, LimitStep, MoveStep, SealStep, SheetStep, TextStep, DecisionStep, TotalStep, BrowserStep,
    SessionStep, ListStep, DeploymentStep, MigrationStep, SeedStep, NoteStep, ProfileStep
  <2>10. scene = "totals" => Sums!Next BY <1>1 DEF ServicesNext, SummaryStep, ContactStep, LimitStep, MoveStep, SealStep, SheetStep, TextStep, DecisionStep, TotalStep, BrowserStep,
    SessionStep, ListStep, DeploymentStep, MigrationStep, SeedStep, NoteStep, ProfileStep
  <2>11. scene = "signin" => Browser!Next BY <1>1 DEF ServicesNext, SummaryStep, ContactStep, LimitStep, MoveStep, SealStep, SheetStep, TextStep, DecisionStep, TotalStep, BrowserStep,
    SessionStep, ListStep, DeploymentStep, MigrationStep, SeedStep, NoteStep, ProfileStep
  <2>12. scene = "sessions" => Lives!Next BY <1>1 DEF ServicesNext, SummaryStep, ContactStep, LimitStep, MoveStep, SealStep, SheetStep, TextStep, DecisionStep, TotalStep, BrowserStep,
    SessionStep, ListStep, DeploymentStep, MigrationStep, SeedStep, NoteStep, ProfileStep
  <2>13. scene = "lists" => Lists!Next BY <1>1 DEF ServicesNext, SummaryStep, ContactStep, LimitStep, MoveStep, SealStep, SheetStep, TextStep, DecisionStep, TotalStep, BrowserStep,
    SessionStep, ListStep, DeploymentStep, MigrationStep, SeedStep, NoteStep, ProfileStep
  <2>14. scene = "deployment" => Deployment!Next BY <1>1 DEF ServicesNext, SummaryStep, ContactStep, LimitStep, MoveStep, SealStep, SheetStep, TextStep, DecisionStep, TotalStep, BrowserStep,
    SessionStep, ListStep, DeploymentStep, MigrationStep, SeedStep, NoteStep, ProfileStep
  <2>15. scene = "migrations" => Moved!Next BY <1>1 DEF ServicesNext, SummaryStep, ContactStep, LimitStep, MoveStep, SealStep, SheetStep, TextStep, DecisionStep, TotalStep, BrowserStep,
    SessionStep, ListStep, DeploymentStep, MigrationStep, SeedStep, NoteStep, ProfileStep
  <2>16. scene = "seeds" => Seeded!Next BY <1>1 DEF ServicesNext, SummaryStep, ContactStep, LimitStep, MoveStep, SealStep, SheetStep, TextStep, DecisionStep, TotalStep, BrowserStep,
    SessionStep, ListStep, DeploymentStep, MigrationStep, SeedStep, NoteStep, ProfileStep
  <2>17. scene = "notes" => Panels!Next BY <1>1 DEF ServicesNext, SummaryStep, ContactStep, LimitStep, MoveStep, SealStep, SheetStep, TextStep, DecisionStep, TotalStep, BrowserStep,
    SessionStep, ListStep, DeploymentStep, MigrationStep, SeedStep, NoteStep, ProfileStep
  <2>18. scene = "profile" => Particulars!Next BY <1>1 DEF ServicesNext, SummaryStep, ContactStep, LimitStep, MoveStep, SealStep, SheetStep, TextStep, DecisionStep, TotalStep, BrowserStep,
    SessionStep, ListStep, DeploymentStep, MigrationStep, SeedStep, NoteStep, ProfileStep
  <2> QED BY <2>1, <2>2, <2>3, <2>4, <2>5, <2>6, <2>7, <2>8, <2>9, <2>10, <2>11, <2>12, <2>13, <2>14, <2>15, <2>16, <2>17, <2>18
<1>2. CASE UNCHANGED servicesVars
  <2>1. UNCHANGED <<scene, vars>> BY <1>2 DEF servicesVars
  <2>17. UNCHANGED Printed!vars BY <1>2 DEF servicesVars, readerVars, txVars, Printed!vars
  <2>2. UNCHANGED Inbox!vars BY <1>2 DEF servicesVars, tableVars, msgVars, Inbox!vars, Inbox!mailbox, Inbox!handlers, Inbox!office
  <2>3. UNCHANGED Limits!vars BY <1>2 DEF servicesVars, tableVars, rlVars, Limits!vars, Limits!counters, Limits!counts
  <2>4. UNCHANGED Moves!vars BY <1>2 DEF servicesVars, tableVars, adVars, Moves!vars, Moves!accounts, Moves!calls
  <2>5. UNCHANGED Seals!vars BY <1>2 DEF servicesVars, tableVars, ssVars, Seals!vars, Seals!environment, Seals!columns, Seals!rotation
  <2>6. UNCHANGED Sheets!vars BY <1>2 DEF servicesVars, readerVars, pgVars, Sheets!vars
  <2>7. UNCHANGED Decided!vars BY <1>2 DEF servicesVars, readerVars, qdVars, Decided!vars
  <2>8. UNCHANGED Sums!vars BY <1>2 DEF servicesVars, readerVars, moVars, Sums!vars
  <2>9. UNCHANGED Browser!vars BY <1>2 DEF servicesVars, readerVars, siVars, Browser!vars, Browser!cookies
  <2>10. UNCHANGED Lives!vars BY <1>2 DEF servicesVars, readerVars, slVars, Lives!vars
  <2>11. UNCHANGED Lists!vars BY <1>2 DEF servicesVars, readerVars, rqVars, Lists!vars
  <2>12. UNCHANGED Deployment!vars BY <1>2 DEF servicesVars, scriptVars, enVars, Deployment!vars
  <2>13. UNCHANGED Moved!vars BY <1>2 DEF servicesVars, scriptVars, miVars, Moved!vars, Moved!database
  <2>14. UNCHANGED Seeded!vars BY <1>2 DEF servicesVars, scriptVars, sdVars, Seeded!vars, Seeded!database
  <2>15. UNCHANGED Panels!vars BY <1>2 DEF servicesVars, panelVars, noVars, Panels!vars, Panels!panels
  <2>16. UNCHANGED Particulars!vars BY <1>2 DEF servicesVars, panelVars, prVars, Particulars!vars, Particulars!pages
  <2> QED BY <2>1, <2>2, <2>3, <2>4, <2>5, <2>6, <2>7, <2>8, <2>9, <2>10, <2>11, <2>12, <2>13, <2>14, <2>15, <2>16, <2>17
<1> QED BY <1>1, <1>2

\* Each scene starts with its invariant.
LEMMA ServicesStart == ServicesInit => ServicesInv
<1> SUFFICES ASSUME ServicesInit PROVE ServicesInv OBVIOUS
<1>1. scene \in Scenes /\ Init BY DEF ServicesInit
<1>2. scene = "summaries" => WellTyped BY <1>1, InitTyping, ConstantsAreSound
<1>3. scene = "texts" => TextInv
  <2>1. scene = "texts" => Printed!Init BY DEF ServicesInit
  <2> QED BY <2>1, TextInit
<1>4. scene = "inbox" => ContactInv
  <2>1. scene = "inbox" => Inbox!Init BY DEF ServicesInit
  <2>2. Inbox!ContactAssumption BY ConstantsAreSound
  <2> QED BY <2>1, <2>2, ContactInit
<1>5. scene = "limits" => LimitsInv
  <2>1. scene = "limits" => Limits!Init BY DEF ServicesInit
  <2>2. Limits!RateAssumption BY ConstantsAreSound
  <2> QED BY <2>1, <2>2, LimitsInit
<1>6. scene = "moves" => MovesInv
  <2>1. scene = "moves" => Moves!Init BY DEF ServicesInit
  <2> QED BY <2>1, MovesInit
<1>7. scene = "seals" => SealInv
  <2>1. scene = "seals" => Seals!Init BY DEF ServicesInit
  <2>2. Seals!SealAssumption BY ConstantsAreSound
  <2> QED BY <2>1, <2>2, SealInit
<1>8. scene = "sheets" => SheetsInv
  <2>1. scene = "sheets" => Sheets!Init BY DEF ServicesInit
  <2>2. Sheets!SheetsAssumption BY ConstantsAreSound
  <2> QED BY <2>1, <2>2, SheetsInit
<1>9. scene = "decisions" => DecisionInv
  <2>1. scene = "decisions" => Decided!Init BY DEF ServicesInit
  <2>2. Decided!DecisionAssumption BY ConstantsAreSound
  <2> QED BY <2>1, <2>2, DecisionInit
<1>10. scene = "totals" => MoneyInv
  <2>1. scene = "totals" => Sums!Init BY DEF ServicesInit
  <2>2. Sums!MoneyAssumption BY ConstantsAreSound
  <2> QED BY <2>1, <2>2, MoneyInit
<1>11. scene = "signin" => BrowserInv
  <2>1. scene = "signin" => Browser!Init BY DEF ServicesInit
  <2>2. Browser!SignInAssumption BY ConstantsAreSound
  <2> QED BY <2>1, <2>2, BrowserInit
<1>12. scene = "sessions" => LifeInv
  <2>1. scene = "sessions" => Lives!Init BY DEF ServicesInit
  <2>2. Lives!LifeAssumption BY ConstantsAreSound
  <2> QED BY <2>1, <2>2, LifeInit
<1>13. scene = "lists" => ListsInv
  <2>1. scene = "lists" => Lists!Init BY DEF ServicesInit
  <2>2. Lists!ListsAssumption BY ConstantsAreSound
  <2> QED BY <2>1, <2>2, ListsInit
<1>14. scene = "deployment" => DeploymentInv
  <2>1. scene = "deployment" => Deployment!Init BY DEF ServicesInit
  <2> QED BY <2>1, DeploymentInit
<1>15. scene = "migrations" => MigrationInv
  <2>1. scene = "migrations" => Moved!Init BY DEF ServicesInit
  <2> QED BY <2>1, MigrationInit
<1>16. scene = "seeds" => SeedInv
  <2>1. scene = "seeds" => Seeded!Init BY DEF ServicesInit
  <2>2. Seeded!SeedAssumption BY ConstantsAreSound
  <2> QED BY <2>1, <2>2, SeedInit
<1>17. scene = "notes" => NotesInv
  <2>1. scene = "notes" => Panels!Init BY DEF ServicesInit
  <2>2. Panels!NotesAssumption BY ConstantsAreSound
  <2> QED BY <2>1, <2>2, NotesInit
<1>18. scene = "profile" => ProfileInv
  <2>1. scene = "profile" => Particulars!Init BY DEF ServicesInit
  <2>2. Particulars!ProfileAssumption BY ConstantsAreSound
  <2> QED BY <2>1, <2>2, ProfileInit
<1> QED BY <1>1, <1>2, <1>3, <1>4, <1>5, <1>6, <1>7, <1>8, <1>9, <1>10, <1>11, <1>12, <1>13, <1>14, <1>15, <1>16, <1>17, <1>18 DEF ServicesInv

\* Every step of every scene keeps it.
LEMMA ServicesStep == ServicesInv /\ [ServicesNext]_servicesVars => ServicesInv'
<1> SUFFICES ASSUME ServicesInv, [ServicesNext]_servicesVars PROVE ServicesInv' OBVIOUS
<1>1. scene' = scene /\ scene \in Scenes /\ Scenes' = Scenes BY OneSceneMoves DEF ServicesInv, Scenes
<1>2. scene = "summaries" => WellTyped'
  <2>1. scene = "summaries" => WellTyped /\ [Next]_vars BY OneSceneMoves DEF ServicesInv
  <2> QED BY <2>1, StepTyping, ConstantsAreSound
<1>3. scene = "texts" => TextInv'
  <2>1. scene = "texts" => TextInv /\ [Printed!Next]_(Printed!vars) BY OneSceneMoves DEF ServicesInv
  <2>2. Printed!TextAssumption BY ConstantsAreSound
  <2> QED BY <2>1, <2>2, TextStepKeeps
<1>4. scene = "inbox" => ContactInv'
  <2>1. scene = "inbox" => ContactInv /\ [Inbox!Next]_(Inbox!vars) BY OneSceneMoves DEF ServicesInv
  <2>2. Inbox!ContactAssumption BY ConstantsAreSound
  <2> QED BY <2>1, <2>2, ContactStepHolds
<1>5. scene = "limits" => LimitsInv'
  <2>1. scene = "limits" => LimitsInv /\ [Limits!Next]_(Limits!vars) BY OneSceneMoves DEF ServicesInv
  <2>2. Limits!RateAssumption BY ConstantsAreSound
  <2> QED BY <2>1, <2>2, LimitsStep
<1>6. scene = "moves" => MovesInv'
  <2>1. scene = "moves" => MovesInv /\ [Moves!Next]_(Moves!vars) BY OneSceneMoves DEF ServicesInv
  <2> QED BY <2>1, MovesStep
<1>7. scene = "seals" => SealInv'
  <2>1. scene = "seals" => SealInv /\ [Seals!Next]_(Seals!vars) BY OneSceneMoves DEF ServicesInv
  <2>2. Seals!SealAssumption BY ConstantsAreSound
  <2> QED BY <2>1, <2>2, SealStepHolds
<1>8. scene = "sheets" => SheetsInv'
  <2>1. scene = "sheets" => SheetsInv /\ [Sheets!Next]_(Sheets!vars) BY OneSceneMoves DEF ServicesInv
  <2>2. Sheets!SheetsAssumption BY ConstantsAreSound
  <2> QED BY <2>1, <2>2, SheetsStep
<1>9. scene = "decisions" => DecisionInv'
  <2>1. scene = "decisions" => DecisionInv /\ [Decided!Next]_(Decided!vars) BY OneSceneMoves DEF ServicesInv
  <2>2. Decided!DecisionAssumption BY ConstantsAreSound
  <2> QED BY <2>1, <2>2, DecisionStepHolds
<1>10. scene = "totals" => MoneyInv'
  <2>1. scene = "totals" => MoneyInv /\ [Sums!Next]_(Sums!vars) BY OneSceneMoves DEF ServicesInv
  <2>2. Sums!MoneyAssumption BY ConstantsAreSound
  <2> QED BY <2>1, <2>2, MoneyStep
<1>11. scene = "signin" => BrowserInv'
  <2>1. scene = "signin" => BrowserInv /\ [Browser!Next]_(Browser!vars) BY OneSceneMoves DEF ServicesInv
  <2>2. Browser!SignInAssumption BY ConstantsAreSound
  <2> QED BY <2>1, <2>2, BrowserStepHolds
<1>12. scene = "sessions" => LifeInv'
  <2>1. scene = "sessions" => LifeInv /\ [Lives!Next]_(Lives!vars) BY OneSceneMoves DEF ServicesInv
  <2>2. Lives!LifeAssumption BY ConstantsAreSound
  <2> QED BY <2>1, <2>2, LifeStep
<1>13. scene = "lists" => ListsInv'
  <2>1. scene = "lists" => ListsInv /\ [Lists!Next]_(Lists!vars) BY OneSceneMoves DEF ServicesInv
  <2>2. Lists!ListsAssumption BY ConstantsAreSound
  <2> QED BY <2>1, <2>2, ListsStep
<1>14. scene = "deployment" => DeploymentInv'
  <2>1. scene = "deployment" => DeploymentInv /\ [Deployment!Next]_(Deployment!vars) BY OneSceneMoves DEF ServicesInv
  <2> QED BY <2>1, DeploymentStepHolds
<1>15. scene = "migrations" => MigrationInv'
  <2>1. scene = "migrations" => MigrationInv /\ [Moved!Next]_(Moved!vars) BY OneSceneMoves DEF ServicesInv
  <2> QED BY <2>1, MigrationStepHolds
<1>16. scene = "seeds" => SeedInv'
  <2>1. scene = "seeds" => SeedInv /\ [Seeded!Next]_(Seeded!vars) BY OneSceneMoves DEF ServicesInv
  <2>2. Seeded!SeedAssumption BY ConstantsAreSound
  <2> QED BY <2>1, <2>2, SeedStepHolds
<1>17. scene = "notes" => NotesInv'
  <2>1. scene = "notes" => NotesInv /\ [Panels!Next]_(Panels!vars) BY OneSceneMoves DEF ServicesInv
  <2>2. Panels!NotesAssumption BY ConstantsAreSound
  <2> QED BY <2>1, <2>2, NotesStep
<1>18. scene = "profile" => ProfileInv'
  <2>1. scene = "profile" => ProfileInv /\ [Particulars!Next]_(Particulars!vars) BY OneSceneMoves DEF ServicesInv
  <2>2. Particulars!ProfileAssumption BY ConstantsAreSound
  <2> QED BY <2>1, <2>2, ProfileStepHolds
<1> QED BY <1>1, <1>2, <1>3, <1>4, <1>5, <1>6, <1>7, <1>8, <1>9, <1>10, <1>11, <1>12, <1>13, <1>14, <1>15, <1>16, <1>17, <1>18 DEF ServicesInv

LEMMA ServicesHold == ServicesSpec => []ServicesInv
BY ServicesStart, ServicesStep, PTL DEF ServicesSpec

-----------------------------------------------------------------------------
(* What the services promise, at all times and for all values of the        *)
(* constants.                                                              *)

\* Every variable of the scene that moves has its type; a text has only characters that the
\* fonts of a summary can print.
THEOREM TypesAlwaysHold == ServicesSpec => []TypesHold
<1>1. ServicesInv => TypesHold
  <2> SUFFICES ASSUME ServicesInv PROVE TypesHold OBVIOUS
  <2>1. scene \in Scenes /\ (scene = "summaries" => TypeOK) BY DEF ServicesInv, WellTyped
  <2>17. scene = "texts" => Printed!TypeOK
    <3>1. Printed!TextAssumption BY ConstantsAreSound
    <3> QED BY <3>1, TextSafe DEF ServicesInv
  <2>2. scene = "inbox" => Inbox!TypeOK BY DEF ServicesInv, ContactInv
  <2>3. scene = "limits" => Limits!TypeOK BY DEF ServicesInv, LimitsInv
  <2>4. scene = "moves" => Moves!TypeOK BY DEF ServicesInv, MovesInv
  <2>5. scene = "seals" => Seals!TypeOK BY DEF ServicesInv, SealInv
  <2>6. scene = "sheets" => Sheets!TypeOK BY SheetsSafe DEF ServicesInv
  <2>7. scene = "decisions" => Decided!TypeOK BY DEF ServicesInv, DecisionInv
  <2>8. scene = "totals" => Sums!TypeOK BY DEF ServicesInv, MoneyInv
  <2>9. scene = "signin" => Browser!TypeOK BY DEF ServicesInv, BrowserInv
  <2>10. scene = "sessions" => Lives!TypeOK BY DEF ServicesInv, LifeInv
  <2>11. scene = "lists" => Lists!TypeOK BY ListsSafe, ConstantsAreSound DEF ServicesInv
  <2>12. scene = "deployment" => Deployment!TypeOK BY DEF ServicesInv, DeploymentInv
  <2>13. scene = "migrations" => Moved!TypeOK BY DEF ServicesInv, MigrationInv
  <2>14. scene = "seeds" => Seeded!TypeOK BY DEF ServicesInv, SeedInv
  <2>15. scene = "notes" => Panels!TypeOK BY DEF ServicesInv, NotesInv
  <2>16. scene = "profile" => Particulars!TypeOK BY DEF ServicesInv, ProfileInv
  <2> QED BY <2>1, <2>2, <2>3, <2>4, <2>5, <2>6, <2>7, <2>8, <2>9, <2>10, <2>11, <2>12,
             <2>13, <2>14, <2>15, <2>16, <2>17 DEF TypesHold
<1> QED BY ServicesHold, <1>1, PTL

\* What a form says is saved is kept once, as typed, whatever calls are lost or repeated:
\* for any number of pages, messages, notes and requests.
THEOREM SentIsAlwaysKept == ServicesSpec => []WhatIsSentIsKept
<1>1. ServicesInv => WhatIsSentIsKept
  <2> SUFFICES ASSUME ServicesInv PROVE WhatIsSentIsKept OBVIOUS
  <2>1. scene = "inbox" => Inbox!KeptOnce /\ Inbox!HistoryTellsMessage
    BY ContactSafe DEF ServicesInv
  <2>2. scene = "notes" => Panels!NothingTypedIsLost /\ Panels!SavedIsShown
    <3>1. Panels!NotesAssumption BY ConstantsAreSound
    <3> QED BY <3>1, NotesSafe DEF ServicesInv
  <2>3. scene = "profile" => Particulars!SavedIsStored BY ProfileSafe DEF ServicesInv
  <2> QED BY <2>1, <2>2, <2>3 DEF WhatIsSentIsKept
<1> QED BY ServicesHold, <1>1, PTL

\* A window lets through one quota for the store, one for the memory of each server, and
\* one for each time a memory began anew.
THEOREM QuotaAlwaysHolds == ServicesSpec => []QuotaHolds
<1>1. ServicesInv => QuotaHolds
  <2>1. Limits!RateAssumption BY ConstantsAreSound
  <2> QED BY <2>1, LimitsSafe DEF ServicesInv, QuotaHolds
<1> QED BY ServicesHold, <1>1, PTL

\* Two accounts never share an address, and none is at one it did not prove.
THEOREM AddressesAlwaysProved == ServicesSpec => []AddressesAreProved
<1>1. ServicesInv => AddressesAreProved BY MovesSafe DEF ServicesInv, AddressesAreProved
<1> QED BY ServicesHold, <1>1, PTL

\* However often a script fails, is killed and runs again, secrets open with the key in force,
\* a migration drops a column of factors only once the buffer holds it, and a seed that ends
\* is whole, each thing noted once, but for the factor of an operator a killed run left.
THEOREM ScriptsAlwaysRunAgain == ServicesSpec => []ScriptsRunAgain
<1>1. ServicesInv => ScriptsRunAgain
  <2> SUFFICES ASSUME ServicesInv PROVE ScriptsRunAgain OBVIOUS
  <2>1. scene = "seals" => Seals!SecretsStayReadable BY SealSafe DEF ServicesInv
  <2>2. scene = "migrations" => Moved!SecretsMoved BY MigrationSafe DEF ServicesInv
  <2>3. scene = "seeds" => Seeded!NotedOnce /\ Seeded!SeedIsWhole BY DEF ServicesInv, SeedInv
  <2> QED BY <2>1, <2>2, <2>3 DEF ScriptsRunAgain
<1> QED BY ServicesHold, <1>1, PTL

\* A server that started does not find out later that a variable is missing, and one in
\* production has the protections of a production.
THEOREM StartedIsAlwaysConfigured == ServicesSpec => []StartedIsConfigured
<1>1. ServicesInv => StartedIsConfigured
  BY DeploymentSafe DEF ServicesInv, StartedIsConfigured
<1> QED BY ServicesHold, <1>1, PTL

\* A quote is decided once, accepted only while it is valid, and the parts of a total by VAT rate are the
\* total, for any number of lines.
THEOREM QuotesAlwaysSound == ServicesSpec => []QuotesAreSound
<1>1. ServicesInv => QuotesAreSound
  <2> SUFFICES ASSUME ServicesInv PROVE QuotesAreSound OBVIOUS
  <2>1. scene = "decisions" => Decided!DecidedOnce
    <3>1. Decided!DecisionAssumption BY ConstantsAreSound
    <3> QED BY <3>1, DecisionSafe DEF ServicesInv
  <2>2. scene = "totals" => Sums!TotalsAddUp BY DEF ServicesInv, MoneyInv
  <2> QED BY <2>1, <2>2 DEF QuotesAreSound
<1> QED BY ServicesHold, <1>1, PTL

\* A request is accepted within both timeouts of its session, and refused as idle only when
\* the timeout passed, but for what a use that is not noted yet may add.
THEOREM TimeoutsAlwaysHold == ServicesSpec => []TimeoutsHold
<1>1. ServicesInv => TimeoutsHold BY DEF ServicesInv, LifeInv, TimeoutsHold
<1> QED BY ServicesHold, <1>1, PTL

\* Nobody is redirected in circles, and when the queries asked for are those a decoding
\* leaves as they are, a login leads back to the page it was asked for.
THEOREM AlwaysReturnsWhereAsked ==
  ASSUME Browser!QueriesSurvive PROVE ServicesSpec => []ReturnsWhereAsked
<1> DEFINE Returning == ServicesInv /\ (scene = "signin" => ReturnInv)
<1>1. Browser!SignInAssumption /\ Browser!QueriesSurvive BY ConstantsAreSound
<1>2. ServicesInit => Returning
  <2> SUFFICES ASSUME ServicesInit PROVE Returning OBVIOUS
  <2>1. scene = "signin" => Browser!Init BY DEF ServicesInit
  <2> QED BY <2>1, <1>1, BrowserInit, ServicesStart
<1>3. Returning /\ [ServicesNext]_servicesVars => Returning'
  <2> SUFFICES ASSUME Returning, [ServicesNext]_servicesVars PROVE Returning' OBVIOUS
  <2>1. scene' = scene /\ (scene = "signin" => [Browser!Next]_(Browser!vars)) BY OneSceneMoves
  <2>2. scene = "signin" => BrowserInv /\ ReturnInv BY DEF ServicesInv
  <2>3. scene = "signin" => ReturnInv' BY <1>1, <2>1, <2>2, ReturnStep
  <2> QED BY <2>1, <2>3, ServicesStep
<1>4. Returning => ReturnsWhereAsked BY BrowserSafe DEF ServicesInv, ReturnsWhereAsked
<1> QED BY <1>2, <1>3, <1>4, PTL DEF ServicesSpec

\* When a page reads as many entries of the history as there are moves, the history of a
\* request explains the status above it; and a walk misses at most what left its list.
THEOREM ListsAlwaysTrue ==
  ASSUME Lists!HistoryReaches PROVE ServicesSpec => []ListsAreTrue
<1> DEFINE Explained == ServicesInv /\ (scene = "lists" => Lists!StatusIsExplained)
<1>1. Lists!ListsAssumption /\ Lists!HistoryReaches BY ConstantsAreSound
<1>2. ServicesInit => Explained
  <2> SUFFICES ASSUME ServicesInit PROVE Explained OBVIOUS
  <2>1. scene = "lists" => Lists!Init BY DEF ServicesInit
  <2> QED BY <2>1, <1>1, ListsInit, ServicesStart
<1>3. Explained /\ [ServicesNext]_servicesVars => Explained'
  <2> SUFFICES ASSUME Explained, [ServicesNext]_servicesVars PROVE Explained' OBVIOUS
  <2>1. scene' = scene /\ (scene = "lists" => [Lists!Next]_(Lists!vars)) BY OneSceneMoves
  <2>2. scene = "lists" => ListsInv /\ Lists!StatusIsExplained BY DEF ServicesInv
  <2>3. scene = "lists" => Lists!StatusIsExplained' BY <1>1, <2>1, <2>2, ListsStep
  <2> QED BY <2>1, <2>3, ServicesStep
<1>4. Explained => ListsAreTrue
  <2> SUFFICES ASSUME Explained PROVE ListsAreTrue OBVIOUS
  <2>1. scene = "lists" => Lists!MissedOnlyByRaces BY <1>1, ListsSafe DEF ServicesInv
  <2> QED BY <2>1 DEF ListsAreTrue
<1> QED BY <1>2, <1>3, <1>4, PTL DEF ServicesSpec

\* However long the histories are, a walk misses at most what left its list.
THEOREM WalksMissOnlyRaces == ServicesSpec => [](scene = "lists" => Lists!MissedOnlyByRaces)
<1>1. ServicesInv => (scene = "lists" => Lists!MissedOnlyByRaces)
  <2>1. Lists!ListsAssumption BY ConstantsAreSound
  <2> QED BY <2>1, ListsSafe DEF ServicesInv
<1> QED BY ServicesHold, <1>1, PTL

\* Whatever the queries asked for, nobody is redirected in circles.
THEOREM RedirectsAlwaysEnd == ServicesSpec => [](scene = "signin" => Browser!RedirectsEnd)
<1>1. ServicesInv => (scene = "signin" => Browser!RedirectsEnd) BY BrowserSafe DEF ServicesInv
<1> QED BY ServicesHold, <1>1, PTL

\* Nothing of a summary runs over the end of a page, for texts and tables of any length,
\* nor over the end of a line, for any text and any font: and a line is broken only where
\* it has to be, and no letter is lost, doubled or moved.
THEOREM SummariesAlwaysReadable == ServicesSpec => []SummariesAreReadable
<1>1. ServicesInv => SummariesAreReadable
  <2> SUFFICES ASSUME ServicesInv PROVE SummariesAreReadable OBVIOUS
  <2>1. scene = "sheets" => Sheets!PagesAreReadable BY SheetsSafe DEF ServicesInv
  <2>2. scene = "texts" => Printed!LinesHold
    <3>1. Printed!TextAssumption BY ConstantsAreSound
    <3> QED BY <3>1, TextSafe DEF ServicesInv
  <2> QED BY <2>1, <2>2 DEF SummariesAreReadable
<1> QED BY ServicesHold, <1>1, PTL
=============================================================================
