------------------------- MODULE WatchSurfaceProofs -------------------------
(***************************************************************************)
(* Theorems about WatchSurface: every runtime, any include lists somebody  *)
(* may write and any number of writes, events, ticks and syncs.            *)
(*                                                                         *)
(* The surface is that of some disk, as the loop last looked at it         *)
(* (SurfaceOf). What the proofs need of it is which paths each runtime's   *)
(* sources cover, which source an event of a covered path dirties, and     *)
(* that an export reads no other path: UnwatchedIsUnread is the heart of   *)
(* ExportsAreWatchedHolds, UntrackedMiss that of                           *)
(* TrackedEditsKeepCadenceHolds.                                           *)
(***************************************************************************)
EXTENDS WatchSurface, SequenceTheorems, WellFoundedInduction, TLAPS

-----------------------------------------------------------------------------
(***************************************************************************)
(* Paths                                                                   *)
(***************************************************************************)

LEMMA Distinct ==
  /\ Soul \notin {Note, Scattered, Skill, Other, Vcs, Store, StoreLog, OldStore,
                   Outside, Secrets, AgentSet, IncludeFile, SyncLog, IgnoreFile,
                   RulesFile, Nowhere}
  /\ Note \notin {Scattered, Skill, Other, Vcs, Store, StoreLog, OldStore, Outside,
                   Secrets, AgentSet, IncludeFile, SyncLog, IgnoreFile, RulesFile,
                   Nowhere}
  /\ Scattered \notin {Skill, Other, Vcs, Store, StoreLog, OldStore, Outside, Secrets,
                        AgentSet, IncludeFile, SyncLog, IgnoreFile, RulesFile, Nowhere}
  /\ Skill \notin {Other, Vcs, Store, StoreLog, OldStore, Outside, Secrets, AgentSet,
                    IncludeFile, SyncLog, IgnoreFile, RulesFile, Nowhere}
  /\ Other \notin {Vcs, Store, StoreLog, OldStore, Outside, Secrets, AgentSet,
                    IncludeFile, SyncLog, IgnoreFile, RulesFile, Nowhere}
  /\ Vcs \notin {Store, StoreLog, OldStore, Outside, Secrets, AgentSet, IncludeFile,
                  SyncLog, IgnoreFile, RulesFile, Nowhere}
  /\ Store \notin {StoreLog, OldStore, Outside, Secrets, AgentSet, IncludeFile,
                    SyncLog, IgnoreFile, RulesFile, Nowhere}
  /\ StoreLog \notin {OldStore, Outside, Secrets, AgentSet, IncludeFile, SyncLog,
                       IgnoreFile, RulesFile, Nowhere}
  /\ OldStore \notin {Outside, Secrets, AgentSet, IncludeFile, SyncLog, IgnoreFile,
                       RulesFile, Nowhere}
  /\ Outside \notin {Secrets, AgentSet, IncludeFile, SyncLog, IgnoreFile, RulesFile,
                      Nowhere}
  /\ Secrets \notin {AgentSet, IncludeFile, SyncLog, IgnoreFile, RulesFile, Nowhere}
  /\ AgentSet \notin {IncludeFile, SyncLog, IgnoreFile, RulesFile, Nowhere}
  /\ IncludeFile \notin {SyncLog, IgnoreFile, RulesFile, Nowhere}
  /\ SyncLog \notin {IgnoreFile, RulesFile, Nowhere}
  /\ IgnoreFile \notin {RulesFile, Nowhere}
  /\ RulesFile \notin {Nowhere}
  <1>1. Soul \notin {Note, Scattered, Skill, Other, Vcs, Store, StoreLog, OldStore,
                     Outside, Secrets, AgentSet, IncludeFile, SyncLog, IgnoreFile,
                     RulesFile, Nowhere}
    BY DEF Soul, Note, Scattered, Skill, Other, Vcs, Store, StoreLog, OldStore,
           Outside, Secrets, AgentSet, IncludeFile, SyncLog, IgnoreFile, RulesFile,
           Nowhere
  <1>2. Note \notin {Scattered, Skill, Other, Vcs, Store, StoreLog, OldStore, Outside,
                     Secrets, AgentSet, IncludeFile, SyncLog, IgnoreFile, RulesFile,
                     Nowhere}
    BY DEF Note, Scattered, Skill, Other, Vcs, Store, StoreLog, OldStore, Outside,
           Secrets, AgentSet, IncludeFile, SyncLog, IgnoreFile, RulesFile, Nowhere
  <1>3. Scattered \notin {Skill, Other, Vcs, Store, StoreLog, OldStore, Outside,
                          Secrets, AgentSet, IncludeFile, SyncLog, IgnoreFile,
                          RulesFile, Nowhere}
    BY DEF Scattered, Skill, Other, Vcs, Store, StoreLog, OldStore, Outside, Secrets,
           AgentSet, IncludeFile, SyncLog, IgnoreFile, RulesFile, Nowhere
  <1>4. Skill \notin {Other, Vcs, Store, StoreLog, OldStore, Outside, Secrets,
                      AgentSet, IncludeFile, SyncLog, IgnoreFile, RulesFile, Nowhere}
    BY DEF Skill, Other, Vcs, Store, StoreLog, OldStore, Outside, Secrets, AgentSet,
           IncludeFile, SyncLog, IgnoreFile, RulesFile, Nowhere
  <1>5. Other \notin {Vcs, Store, StoreLog, OldStore, Outside, Secrets, AgentSet,
                      IncludeFile, SyncLog, IgnoreFile, RulesFile, Nowhere}
    BY DEF Other, Vcs, Store, StoreLog, OldStore, Outside, Secrets, AgentSet,
           IncludeFile, SyncLog, IgnoreFile, RulesFile, Nowhere
  <1>6. Vcs \notin {Store, StoreLog, OldStore, Outside, Secrets, AgentSet, IncludeFile,
                    SyncLog, IgnoreFile, RulesFile, Nowhere}
    BY DEF Vcs, Store, StoreLog, OldStore, Outside, Secrets, AgentSet, IncludeFile,
           SyncLog, IgnoreFile, RulesFile, Nowhere
  <1>7. Store \notin {StoreLog, OldStore, Outside, Secrets, AgentSet, IncludeFile,
                      SyncLog, IgnoreFile, RulesFile, Nowhere}
    BY DEF Store, StoreLog, OldStore, Outside, Secrets, AgentSet, IncludeFile, SyncLog,
           IgnoreFile, RulesFile, Nowhere
  <1>8. StoreLog \notin {OldStore, Outside, Secrets, AgentSet, IncludeFile, SyncLog,
                         IgnoreFile, RulesFile, Nowhere}
    BY DEF StoreLog, OldStore, Outside, Secrets, AgentSet, IncludeFile, SyncLog,
           IgnoreFile, RulesFile, Nowhere
  <1>9. OldStore \notin {Outside, Secrets, AgentSet, IncludeFile, SyncLog, IgnoreFile,
                         RulesFile, Nowhere}
    BY DEF OldStore, Outside, Secrets, AgentSet, IncludeFile, SyncLog, IgnoreFile,
           RulesFile, Nowhere
  <1>10. Outside \notin {Secrets, AgentSet, IncludeFile, SyncLog, IgnoreFile, RulesFile,
                        Nowhere}
    BY DEF Outside, Secrets, AgentSet, IncludeFile, SyncLog, IgnoreFile, RulesFile,
           Nowhere
  <1>11. Secrets \notin {AgentSet, IncludeFile, SyncLog, IgnoreFile, RulesFile, Nowhere}
    BY DEF Secrets, AgentSet, IncludeFile, SyncLog, IgnoreFile, RulesFile, Nowhere
  <1>12. AgentSet \notin {IncludeFile, SyncLog, IgnoreFile, RulesFile, Nowhere}
    BY DEF AgentSet, IncludeFile, SyncLog, IgnoreFile, RulesFile, Nowhere
  <1>13. IncludeFile \notin {SyncLog, IgnoreFile, RulesFile, Nowhere}
    BY DEF IncludeFile, SyncLog, IgnoreFile, RulesFile, Nowhere
  <1>14. SyncLog \notin {IgnoreFile, RulesFile, Nowhere}
    BY DEF SyncLog, IgnoreFile, RulesFile, Nowhere
  <1>15. IgnoreFile \notin {RulesFile, Nowhere}
    BY DEF IgnoreFile, RulesFile, Nowhere
  <1>16. RulesFile \notin {Nowhere}
    BY DEF RulesFile, Nowhere
  <1>17. QED BY <1>1, <1>2, <1>3, <1>4, <1>5, <1>6, <1>7, <1>8, <1>9, <1>10, <1>11,
              <1>12, <1>13, <1>14, <1>15, <1>16

LEMMA InPaths ==
  Paths = {Soul, Note, Scattered, Skill, Other, Vcs, Store, StoreLog, OldStore,
           Outside, Secrets, AgentSet, IncludeFile, SyncLog, IgnoreFile, RulesFile}
  BY DEF Paths, Plain

LEMMA UnderContent ==
  \A p \in Paths : Under(p, Content) <=> p \in {Note, OldStore}
  <1>1. ~Under(Soul, Content) BY DEF Under, IsPrefix, Soul, Content
  <1>2. Under(Note, Content) BY DEF Under, IsPrefix, Note, Content
  <1>3. ~Under(Scattered, Content) BY DEF Under, IsPrefix, Scattered, Content
  <1>4. ~Under(Skill, Content) BY DEF Under, IsPrefix, Skill, Content
  <1>5. ~Under(Other, Content) BY DEF Under, IsPrefix, Other, Content
  <1>6. ~Under(Vcs, Content) BY DEF Under, IsPrefix, Vcs, Content
  <1>7. ~Under(Store, Content) BY DEF Under, IsPrefix, Store, Content
  <1>8. ~Under(StoreLog, Content) BY DEF Under, IsPrefix, StoreLog, Content
  <1>9. Under(OldStore, Content) BY DEF Under, IsPrefix, OldStore, Content
  <1>10. ~Under(Outside, Content) BY DEF Under, IsPrefix, Outside, Content
  <1>11. ~Under(Secrets, Content) BY DEF Under, IsPrefix, Secrets, Content
  <1>12. ~Under(AgentSet, Content) BY DEF Under, IsPrefix, AgentSet, Content
  <1>13. ~Under(IncludeFile, Content) BY DEF Under, IsPrefix, IncludeFile, Content
  <1>14. ~Under(SyncLog, Content) BY DEF Under, IsPrefix, SyncLog, Content
  <1>15. ~Under(IgnoreFile, Content) BY DEF Under, IsPrefix, IgnoreFile, Content
  <1>16. ~Under(RulesFile, Content) BY DEF Under, IsPrefix, RulesFile, Content
  <1>17. QED BY <1>1, <1>2, <1>3, <1>4, <1>5, <1>6, <1>7, <1>8, <1>9, <1>10, <1>11,
              <1>12, <1>13, <1>14, <1>15, <1>16, Distinct, InPaths

LEMMA UnderSkills ==
  \A p \in Paths : Under(p, Skills) <=> p \in {Skill}
  <1>1. ~Under(Soul, Skills) BY DEF Under, IsPrefix, Soul, Skills
  <1>2. ~Under(Note, Skills) BY DEF Under, IsPrefix, Note, Skills
  <1>3. ~Under(Scattered, Skills) BY DEF Under, IsPrefix, Scattered, Skills
  <1>4. Under(Skill, Skills) BY DEF Under, IsPrefix, Skill, Skills
  <1>5. ~Under(Other, Skills) BY DEF Under, IsPrefix, Other, Skills
  <1>6. ~Under(Vcs, Skills) BY DEF Under, IsPrefix, Vcs, Skills
  <1>7. ~Under(Store, Skills) BY DEF Under, IsPrefix, Store, Skills
  <1>8. ~Under(StoreLog, Skills) BY DEF Under, IsPrefix, StoreLog, Skills
  <1>9. ~Under(OldStore, Skills) BY DEF Under, IsPrefix, OldStore, Skills
  <1>10. ~Under(Outside, Skills) BY DEF Under, IsPrefix, Outside, Skills
  <1>11. ~Under(Secrets, Skills) BY DEF Under, IsPrefix, Secrets, Skills
  <1>12. ~Under(AgentSet, Skills) BY DEF Under, IsPrefix, AgentSet, Skills
  <1>13. ~Under(IncludeFile, Skills) BY DEF Under, IsPrefix, IncludeFile, Skills
  <1>14. ~Under(SyncLog, Skills) BY DEF Under, IsPrefix, SyncLog, Skills
  <1>15. ~Under(IgnoreFile, Skills) BY DEF Under, IsPrefix, IgnoreFile, Skills
  <1>16. ~Under(RulesFile, Skills) BY DEF Under, IsPrefix, RulesFile, Skills
  <1>17. QED BY <1>1, <1>2, <1>3, <1>4, <1>5, <1>6, <1>7, <1>8, <1>9, <1>10, <1>11,
              <1>12, <1>13, <1>14, <1>15, <1>16, Distinct, InPaths

LEMMA UnderWorkspace ==
  \A p \in Paths : Under(p, Workspace) <=> p \in {Soul, Note, Scattered, Skill, Other, Vcs, Store,
                                    StoreLog, OldStore, IncludeFile, SyncLog,
                                    IgnoreFile, RulesFile}
  <1>1. Under(Soul, Workspace) BY DEF Under, IsPrefix, Soul, Workspace
  <1>2. Under(Note, Workspace) BY DEF Under, IsPrefix, Note, Workspace
  <1>3. Under(Scattered, Workspace) BY DEF Under, IsPrefix, Scattered, Workspace
  <1>4. Under(Skill, Workspace) BY DEF Under, IsPrefix, Skill, Workspace
  <1>5. Under(Other, Workspace) BY DEF Under, IsPrefix, Other, Workspace
  <1>6. Under(Vcs, Workspace) BY DEF Under, IsPrefix, Vcs, Workspace
  <1>7. Under(Store, Workspace) BY DEF Under, IsPrefix, Store, Workspace
  <1>8. Under(StoreLog, Workspace) BY DEF Under, IsPrefix, StoreLog, Workspace
  <1>9. Under(OldStore, Workspace) BY DEF Under, IsPrefix, OldStore, Workspace
  <1>10. ~Under(Outside, Workspace) BY DEF Under, IsPrefix, Outside, Workspace
  <1>11. ~Under(Secrets, Workspace) BY DEF Under, IsPrefix, Secrets, Workspace
  <1>12. ~Under(AgentSet, Workspace) BY DEF Under, IsPrefix, AgentSet, Workspace
  <1>13. Under(IncludeFile, Workspace) BY DEF Under, IsPrefix, IncludeFile, Workspace
  <1>14. Under(SyncLog, Workspace) BY DEF Under, IsPrefix, SyncLog, Workspace
  <1>15. Under(IgnoreFile, Workspace) BY DEF Under, IsPrefix, IgnoreFile, Workspace
  <1>16. Under(RulesFile, Workspace) BY DEF Under, IsPrefix, RulesFile, Workspace
  <1>17. QED BY <1>1, <1>2, <1>3, <1>4, <1>5, <1>6, <1>7, <1>8, <1>9, <1>10, <1>11,
              <1>12, <1>13, <1>14, <1>15, <1>16, Distinct, InPaths

\* No file lies under another, or in version control but for one.
LEMMA UnderFiles ==
  \A p \in Paths : \A q \in {Note, Other, IncludeFile, SyncLog, IgnoreFile} :
    Under(p, q) <=> p = q
  <1>1. \A q \in {Note, Other, IncludeFile, SyncLog, IgnoreFile} : Under(Soul, q) <=> Soul = q
    BY DEF Under, IsPrefix, Soul, Note, Other, IncludeFile, SyncLog, IgnoreFile
  <1>2. \A q \in {Note, Other, IncludeFile, SyncLog, IgnoreFile} : Under(Note, q) <=> Note = q
    <2>1. Under(Note, Note) BY DEF Under, IsPrefix, Note
    <2>2. ~Under(Note, Other) /\ ~Under(Note, IncludeFile) /\ ~Under(Note, SyncLog) /\ ~Under(Note, IgnoreFile)
      BY DEF Under, IsPrefix, Note, Other, IncludeFile, SyncLog, IgnoreFile
    <2>3. QED BY <2>1, <2>2, Distinct
  <1>3. \A q \in {Note, Other, IncludeFile, SyncLog, IgnoreFile} : Under(Scattered, q) <=> Scattered = q
    BY DEF Under, IsPrefix, Scattered, Note, Other, IncludeFile, SyncLog, IgnoreFile
  <1>4. \A q \in {Note, Other, IncludeFile, SyncLog, IgnoreFile} : Under(Skill, q) <=> Skill = q
    BY DEF Under, IsPrefix, Skill, Note, Other, IncludeFile, SyncLog, IgnoreFile
  <1>5. \A q \in {Note, Other, IncludeFile, SyncLog, IgnoreFile} : Under(Other, q) <=> Other = q
    <2>1. Under(Other, Other) BY DEF Under, IsPrefix, Other
    <2>2. ~Under(Other, Note) /\ ~Under(Other, IncludeFile) /\ ~Under(Other, SyncLog) /\ ~Under(Other, IgnoreFile)
      BY DEF Under, IsPrefix, Other, Note, IncludeFile, SyncLog, IgnoreFile
    <2>3. QED BY <2>1, <2>2, Distinct
  <1>6. \A q \in {Note, Other, IncludeFile, SyncLog, IgnoreFile} : Under(Vcs, q) <=> Vcs = q
    BY DEF Under, IsPrefix, Vcs, Note, Other, IncludeFile, SyncLog, IgnoreFile
  <1>7. \A q \in {Note, Other, IncludeFile, SyncLog, IgnoreFile} : Under(Store, q) <=> Store = q
    BY DEF Under, IsPrefix, Store, Note, Other, IncludeFile, SyncLog, IgnoreFile
  <1>8. \A q \in {Note, Other, IncludeFile, SyncLog, IgnoreFile} : Under(StoreLog, q) <=> StoreLog = q
    BY DEF Under, IsPrefix, StoreLog, Note, Other, IncludeFile, SyncLog, IgnoreFile
  <1>9. \A q \in {Note, Other, IncludeFile, SyncLog, IgnoreFile} : Under(OldStore, q) <=> OldStore = q
    BY DEF Under, IsPrefix, OldStore, Note, Other, IncludeFile, SyncLog, IgnoreFile
  <1>10. \A q \in {Note, Other, IncludeFile, SyncLog, IgnoreFile} : Under(Outside, q) <=> Outside = q
    BY DEF Under, IsPrefix, Outside, Note, Other, IncludeFile, SyncLog, IgnoreFile
  <1>11. \A q \in {Note, Other, IncludeFile, SyncLog, IgnoreFile} : Under(Secrets, q) <=> Secrets = q
    BY DEF Under, IsPrefix, Secrets, Note, Other, IncludeFile, SyncLog, IgnoreFile
  <1>12. \A q \in {Note, Other, IncludeFile, SyncLog, IgnoreFile} : Under(AgentSet, q) <=> AgentSet = q
    BY DEF Under, IsPrefix, AgentSet, Note, Other, IncludeFile, SyncLog, IgnoreFile
  <1>13. \A q \in {Note, Other, IncludeFile, SyncLog, IgnoreFile} : Under(IncludeFile, q) <=> IncludeFile = q
    <2>1. Under(IncludeFile, IncludeFile) BY DEF Under, IsPrefix, IncludeFile
    <2>2. ~Under(IncludeFile, Note) /\ ~Under(IncludeFile, Other) /\ ~Under(IncludeFile, SyncLog) /\ ~Under(IncludeFile, IgnoreFile)
      BY DEF Under, IsPrefix, IncludeFile, Note, Other, SyncLog, IgnoreFile
    <2>3. QED BY <2>1, <2>2, Distinct
  <1>14. \A q \in {Note, Other, IncludeFile, SyncLog, IgnoreFile} : Under(SyncLog, q) <=> SyncLog = q
    <2>1. Under(SyncLog, SyncLog) BY DEF Under, IsPrefix, SyncLog
    <2>2. ~Under(SyncLog, Note) /\ ~Under(SyncLog, Other) /\ ~Under(SyncLog, IncludeFile) /\ ~Under(SyncLog, IgnoreFile)
      BY DEF Under, IsPrefix, SyncLog, Note, Other, IncludeFile, IgnoreFile
    <2>3. QED BY <2>1, <2>2, Distinct
  <1>15. \A q \in {Note, Other, IncludeFile, SyncLog, IgnoreFile} : Under(IgnoreFile, q) <=> IgnoreFile = q
    <2>1. Under(IgnoreFile, IgnoreFile) BY DEF Under, IsPrefix, IgnoreFile
    <2>2. ~Under(IgnoreFile, Note) /\ ~Under(IgnoreFile, Other) /\ ~Under(IgnoreFile, IncludeFile) /\ ~Under(IgnoreFile, SyncLog)
      BY DEF Under, IsPrefix, IgnoreFile, Note, Other, IncludeFile, SyncLog
    <2>3. QED BY <2>1, <2>2, Distinct
  <1>16. \A q \in {Note, Other, IncludeFile, SyncLog, IgnoreFile} : Under(RulesFile, q) <=> RulesFile = q
    BY DEF Under, IsPrefix, RulesFile, Note, Other, IncludeFile, SyncLog, IgnoreFile
  <1>17. QED BY <1>1, <1>2, <1>3, <1>4, <1>5, <1>6, <1>7, <1>8, <1>9, <1>10,
              <1>11, <1>12, <1>13, <1>14, <1>15, <1>16, Distinct, InPaths

LEMMA UnderGit ==
  \A p \in Paths : /\ Under(p, Git(Workspace)) <=> p = Vcs
                   /\ ~Under(p, Git(Content))
                   /\ ~Under(p, Git(Skills))
  <1>1. ~Under(Soul, Git(Workspace)) /\ ~Under(Soul, Git(Content)) /\ ~Under(Soul, Git(Skills))
    BY DEF Under, IsPrefix, Git, Workspace, Content, Skills, Soul
  <1>2. ~Under(Note, Git(Workspace)) /\ ~Under(Note, Git(Content)) /\ ~Under(Note, Git(Skills))
    BY DEF Under, IsPrefix, Git, Workspace, Content, Skills, Note
  <1>3. ~Under(Scattered, Git(Workspace)) /\ ~Under(Scattered, Git(Content)) /\ ~Under(Scattered, Git(Skills))
    BY DEF Under, IsPrefix, Git, Workspace, Content, Skills, Scattered
  <1>4. ~Under(Skill, Git(Workspace)) /\ ~Under(Skill, Git(Content)) /\ ~Under(Skill, Git(Skills))
    BY DEF Under, IsPrefix, Git, Workspace, Content, Skills, Skill
  <1>5. ~Under(Other, Git(Workspace)) /\ ~Under(Other, Git(Content)) /\ ~Under(Other, Git(Skills))
    BY DEF Under, IsPrefix, Git, Workspace, Content, Skills, Other
  <1>6. Under(Vcs, Git(Workspace)) /\ ~Under(Vcs, Git(Content)) /\ ~Under(Vcs, Git(Skills))
    BY DEF Under, IsPrefix, Git, Workspace, Content, Skills, Vcs
  <1>7. ~Under(Store, Git(Workspace)) /\ ~Under(Store, Git(Content)) /\ ~Under(Store, Git(Skills))
    BY DEF Under, IsPrefix, Git, Workspace, Content, Skills, Store
  <1>8. ~Under(StoreLog, Git(Workspace)) /\ ~Under(StoreLog, Git(Content)) /\ ~Under(StoreLog, Git(Skills))
    BY DEF Under, IsPrefix, Git, Workspace, Content, Skills, StoreLog
  <1>9. ~Under(OldStore, Git(Workspace)) /\ ~Under(OldStore, Git(Content)) /\ ~Under(OldStore, Git(Skills))
    BY DEF Under, IsPrefix, Git, Workspace, Content, Skills, OldStore
  <1>10. ~Under(Outside, Git(Workspace)) /\ ~Under(Outside, Git(Content)) /\ ~Under(Outside, Git(Skills))
    BY DEF Under, IsPrefix, Git, Workspace, Content, Skills, Outside
  <1>11. ~Under(Secrets, Git(Workspace)) /\ ~Under(Secrets, Git(Content)) /\ ~Under(Secrets, Git(Skills))
    BY DEF Under, IsPrefix, Git, Workspace, Content, Skills, Secrets
  <1>12. ~Under(AgentSet, Git(Workspace)) /\ ~Under(AgentSet, Git(Content)) /\ ~Under(AgentSet, Git(Skills))
    BY DEF Under, IsPrefix, Git, Workspace, Content, Skills, AgentSet
  <1>13. ~Under(IncludeFile, Git(Workspace)) /\ ~Under(IncludeFile, Git(Content)) /\ ~Under(IncludeFile, Git(Skills))
    BY DEF Under, IsPrefix, Git, Workspace, Content, Skills, IncludeFile
  <1>14. ~Under(SyncLog, Git(Workspace)) /\ ~Under(SyncLog, Git(Content)) /\ ~Under(SyncLog, Git(Skills))
    BY DEF Under, IsPrefix, Git, Workspace, Content, Skills, SyncLog
  <1>15. ~Under(IgnoreFile, Git(Workspace)) /\ ~Under(IgnoreFile, Git(Content)) /\ ~Under(IgnoreFile, Git(Skills))
    BY DEF Under, IsPrefix, Git, Workspace, Content, Skills, IgnoreFile
  <1>16. ~Under(RulesFile, Git(Workspace)) /\ ~Under(RulesFile, Git(Content)) /\ ~Under(RulesFile, Git(Skills))
    BY DEF Under, IsPrefix, Git, Workspace, Content, Skills, RulesFile
  <1>17. QED BY <1>1, <1>2, <1>3, <1>4, <1>5, <1>6, <1>7, <1>8, <1>9, <1>10,
              <1>11, <1>12, <1>13, <1>14, <1>15, <1>16, Distinct, InPaths

LEMMA UnderVault ==
  \A p \in Paths : Under(p, Front(Secrets)) <=> p = Secrets
  <1>1. ~Under(Soul, Front(Secrets))
    BY DEF Under, IsPrefix, Front, Secrets, Soul
  <1>2. ~Under(Note, Front(Secrets))
    BY DEF Under, IsPrefix, Front, Secrets, Note
  <1>3. ~Under(Scattered, Front(Secrets))
    BY DEF Under, IsPrefix, Front, Secrets, Scattered
  <1>4. ~Under(Skill, Front(Secrets))
    BY DEF Under, IsPrefix, Front, Secrets, Skill
  <1>5. ~Under(Other, Front(Secrets))
    BY DEF Under, IsPrefix, Front, Secrets, Other
  <1>6. ~Under(Vcs, Front(Secrets))
    BY DEF Under, IsPrefix, Front, Secrets, Vcs
  <1>7. ~Under(Store, Front(Secrets))
    BY DEF Under, IsPrefix, Front, Secrets, Store
  <1>8. ~Under(StoreLog, Front(Secrets))
    BY DEF Under, IsPrefix, Front, Secrets, StoreLog
  <1>9. ~Under(OldStore, Front(Secrets))
    BY DEF Under, IsPrefix, Front, Secrets, OldStore
  <1>10. ~Under(Outside, Front(Secrets))
    BY DEF Under, IsPrefix, Front, Secrets, Outside
  <1>11. Under(Secrets, Front(Secrets))
    BY DEF Under, IsPrefix, Front, Secrets
  <1>12. ~Under(AgentSet, Front(Secrets))
    BY DEF Under, IsPrefix, Front, Secrets, AgentSet
  <1>13. ~Under(IncludeFile, Front(Secrets))
    BY DEF Under, IsPrefix, Front, Secrets, IncludeFile
  <1>14. ~Under(SyncLog, Front(Secrets))
    BY DEF Under, IsPrefix, Front, Secrets, SyncLog
  <1>15. ~Under(IgnoreFile, Front(Secrets))
    BY DEF Under, IsPrefix, Front, Secrets, IgnoreFile
  <1>16. ~Under(RulesFile, Front(Secrets))
    BY DEF Under, IsPrefix, Front, Secrets, RulesFile
  <1>17. QED BY <1>1, <1>2, <1>3, <1>4, <1>5, <1>6, <1>7, <1>8, <1>9, <1>10,
              <1>11, <1>12, <1>13, <1>14, <1>15, <1>16, Distinct, InPaths

-----------------------------------------------------------------------------
(***************************************************************************)
(* Sources                                                                 *)
(***************************************************************************)
Source(id, roots, exclude, recursive, tracked, resurface) ==
  [id |-> id, roots |-> roots, exclude |-> exclude, recursive |-> recursive,
   tracked |-> tracked, resurface |-> resurface]

Fields == {"id", "roots", "exclude", "recursive", "tracked", "resurface"}

LEMMA SourceEquality ==
  ASSUME NEW a, NEW b, DOMAIN a = Fields, DOMAIN b = Fields,
         a = [f \in DOMAIN a |-> a[f]], b = [f \in DOMAIN b |-> b[f]],
         a.id = b.id, a.roots = b.roots, a.exclude = b.exclude,
         a.recursive = b.recursive, a.tracked = b.tracked, a.resurface = b.resurface
  PROVE  a = b
  BY DEF Fields

LEMMA FileSource ==
  ASSUME NEW id, NEW roots
  PROVE  FileSpec(id, roots) = Source(id, roots, {}, FALSE, FALSE, FALSE)
  BY DEF FileSpec, Source

LEMMA ResurfacingSource ==
  ASSUME NEW id, NEW roots, NEW x, NEW r \in BOOLEAN, NEW t \in BOOLEAN, NEW s \in BOOLEAN
  PROVE  Resurfacing(Source(id, roots, x, r, t, s)) = Source(id, roots, x, r, t, TRUE)
  <1> DEFINE a == Resurfacing(Source(id, roots, x, r, t, s))
             b == Source(id, roots, x, r, t, TRUE)
  <1>1. DOMAIN a = Fields /\ DOMAIN b = Fields BY DEF Source, Fields, Resurfacing
  <1>2. a = [f \in DOMAIN a |-> a[f]] /\ b = [f \in DOMAIN b |-> b[f]] BY DEF Source, Resurfacing
  <1>3. a.id = b.id /\ a.roots = b.roots /\ a.exclude = b.exclude BY DEF Source, Resurfacing
  <1>4. a.recursive = b.recursive BY DEF Source, Resurfacing
  <1>5. a.tracked = b.tracked BY DEF Source, Resurfacing
  <1>6. a.resurface = b.resurface BY DEF Source, Resurfacing
  <1> HIDE DEF a, b
  <1>7. a = b BY <1>1, <1>2, <1>3, <1>4, <1>5, <1>6, SourceEquality
  <1>8. QED BY <1>7 DEF a, b

LEMMA DirSource ==
  ASSUME NEW id, NEW root
  PROVE  DirSpec(id, root) = Source(id, {root}, {}, TRUE, FALSE, FALSE)
  <1> DEFINE a == DirSpec(id, root)
             b == Source(id, {root}, {}, TRUE, FALSE, FALSE)
  <1>1. DOMAIN a = Fields /\ DOMAIN b = Fields BY DEF Source, Fields, DirSpec, FileSpec
  <1>2. a = [f \in DOMAIN a |-> a[f]] /\ b = [f \in DOMAIN b |-> b[f]] BY DEF Source, DirSpec, FileSpec
  <1>3. a.id = b.id /\ a.roots = b.roots /\ a.exclude = b.exclude BY DEF Source, DirSpec, FileSpec
  <1>4. a.recursive = b.recursive BY DEF Source, DirSpec, FileSpec
  <1>5. a.tracked = b.tracked BY DEF Source, DirSpec, FileSpec
  <1>6. a.resurface = b.resurface BY DEF Source, DirSpec, FileSpec
  <1> HIDE DEF a, b
  <1>7. a = b BY <1>1, <1>2, <1>3, <1>4, <1>5, <1>6, SourceEquality
  <1>8. QED BY <1>7 DEF a, b

LEMMA TrackedMark ==
  ASSUME NEW id, NEW roots, NEW s \in BOOLEAN
  PROVE  [Source(id, roots, {}, FALSE, FALSE, s) EXCEPT !.tracked = TRUE]
         = Source(id, roots, {}, FALSE, TRUE, s)
  <1> DEFINE a == [Source(id, roots, {}, FALSE, FALSE, s) EXCEPT !.tracked = TRUE]
             b == Source(id, roots, {}, FALSE, TRUE, s)
  <1>1. DOMAIN a = Fields /\ DOMAIN b = Fields BY DEF Source, Fields
  <1>2. a = [f \in DOMAIN a |-> a[f]] /\ b = [f \in DOMAIN b |-> b[f]] BY DEF Source
  <1>3. a.id = b.id /\ a.roots = b.roots /\ a.exclude = b.exclude BY DEF Source
  <1>4. a.recursive = b.recursive BY DEF Source
  <1>5. a.tracked = b.tracked BY DEF Source
  <1>6. a.resurface = b.resurface BY DEF Source
  <1> HIDE DEF a, b
  <1>7. a = b BY <1>1, <1>2, <1>3, <1>4, <1>5, <1>6, SourceEquality
  <1>8. QED BY <1>7 DEF a, b

\* OpenClaw's tracked files ask for a refresh too.
LEMMA OpenClawMark ==
  ASSUME NEW id, NEW roots, NEW t \in BOOLEAN, NEW s \in BOOLEAN
  PROVE  LET spec == Source(id, roots, {}, FALSE, t, s)
         IN  [spec EXCEPT !.resurface = @ \/ spec.id = "tracked-files"]
             = Source(id, roots, {}, FALSE, t, s \/ id = "tracked-files")
  <1> DEFINE spec == Source(id, roots, {}, FALSE, t, s)
             a == [spec EXCEPT !.resurface = @ \/ spec.id = "tracked-files"]
             b == Source(id, roots, {}, FALSE, t, s \/ id = "tracked-files")
  <1>1. DOMAIN a = Fields /\ DOMAIN b = Fields BY DEF Source, Fields
  <1>2. a = [f \in DOMAIN a |-> a[f]] /\ b = [f \in DOMAIN b |-> b[f]] BY DEF Source
  <1>3. a.id = b.id /\ a.roots = b.roots /\ a.exclude = b.exclude BY DEF Source
  <1>4. a.recursive = b.recursive BY DEF Source
  <1>5. a.tracked = b.tracked BY DEF Source
  <1>6. a.resurface = b.resurface BY DEF Source
  <1> HIDE DEF a, b
  <1>7. a = b BY <1>1, <1>2, <1>3, <1>4, <1>5, <1>6, SourceEquality
  <1>8. QED BY <1>7 DEF a, b

LEMMA DirExcluding ==
  ASSUME NEW id, NEW root, NEW paths
  PROVE  /\ Excluding(DirSpec(id, root), paths) = Source(id, {root}, paths, TRUE, FALSE, FALSE)
         /\ Resurfacing(Excluding(DirSpec(id, root), paths)) = Source(id, {root}, paths, TRUE, FALSE, TRUE)
  <1> DEFINE c == DirSpec(id, root)
             a == Excluding(c, paths)
             b == Source(id, {root}, paths, TRUE, FALSE, FALSE)
  <1>1. c = Source(id, {root}, {}, TRUE, FALSE, FALSE) BY DirSource
  <1>2. /\ DOMAIN c = Fields
        /\ c.id = id /\ c.roots = {root} /\ c.exclude = {}
        /\ c.recursive = TRUE /\ c.tracked = FALSE /\ c.resurface = FALSE
    BY <1>1 DEF Source, Fields
  <1> HIDE DEF c
  <1>3. DOMAIN a = Fields /\ DOMAIN b = Fields
    <2>1. DOMAIN a = Fields BY <1>2 DEF Excluding
    <2>2. DOMAIN b = Fields BY DEF Source, Fields
    <2>3. QED BY <2>1, <2>2
  <1>4. a = [f \in DOMAIN a |-> a[f]] /\ b = [f \in DOMAIN b |-> b[f]] BY DEF Source, Excluding
  <1>5. a.id = b.id /\ a.roots = b.roots /\ a.exclude = b.exclude BY <1>2 DEF Source, Excluding, Fields
  <1>6. a.recursive = b.recursive BY <1>2 DEF Source, Excluding, Fields
  <1>7. a.tracked = b.tracked BY <1>2 DEF Source, Excluding, Fields
  <1>8. a.resurface = b.resurface BY <1>2 DEF Source, Excluding, Fields
  <1> HIDE DEF a, b
  <1>9. a = b BY <1>3, <1>4, <1>5, <1>6, <1>7, <1>8, SourceEquality
  <1>10. Excluding(DirSpec(id, root), paths) = b BY <1>9 DEF a, c
  <1>11. Resurfacing(Source(id, {root}, paths, TRUE, FALSE, FALSE))
         = Source(id, {root}, paths, TRUE, FALSE, TRUE)
    BY ResurfacingSource
  <1>12. QED BY <1>10, <1>11, Zenon DEF b

\* The sources of every runtime, or of two or three.
TrackedFiles(d) ==
  Source("tracked-files",
         Inside(d) \cup (IF runtime \in {"hermes", "generic"} THEN Verified(d) ELSE {}),
         {}, FALSE, TRUE, runtime = "openclaw")

Controls == Source("tracked-controls", {IncludeFile, SyncLog}, {}, FALSE, TRUE, TRUE)

Ignores == Source("export-controls", {IgnoreFile}, {}, FALSE, FALSE, FALSE)

Vaults == Source("agent-vault", {Front(Secrets)}, {}, TRUE, FALSE, FALSE)

TrackedRoots(d) == {spec \in {TrackedFiles(d)} : spec.roots # {}}

LEMMA VaultsSource == DirSpec("agent-vault", Front(Secrets)) = Vaults
  BY DirSource DEF Vaults

LEMMA ControlsSource == TrackedControls = Controls
  <1>1. FileSpec("tracked-controls", {IncludeFile, SyncLog})
        = Source("tracked-controls", {IncludeFile, SyncLog}, {}, FALSE, FALSE, FALSE)
    BY FileSource
  <1>2. Resurfacing(Source("tracked-controls", {IncludeFile, SyncLog}, {}, FALSE, FALSE, FALSE))
        = Source("tracked-controls", {IncludeFile, SyncLog}, {}, FALSE, FALSE, TRUE)
    BY ResurfacingSource
  <1>3. [Source("tracked-controls", {IncludeFile, SyncLog}, {}, FALSE, FALSE, TRUE) EXCEPT !.tracked = TRUE]
        = Controls
    BY TrackedMark DEF Controls
  <1>4. QED BY <1>1, <1>2, <1>3, Zenon DEF TrackedControls

LEMMA IgnoresSource == ExportControls({IgnoreFile}) = Ignores
  BY FileSource DEF ExportControls, Ignores

LEMMA ConfigSource ==
  Resurfacing(FileSpec("config", {RulesFile})) = Source("config", {RulesFile}, {}, FALSE, FALSE, TRUE)
  <1>1. FileSpec("config", {RulesFile}) = Source("config", {RulesFile}, {}, FALSE, FALSE, FALSE)
    BY FileSource
  <1>2. Resurfacing(Source("config", {RulesFile}, {}, FALSE, FALSE, FALSE))
        = Source("config", {RulesFile}, {}, FALSE, FALSE, TRUE)
    BY ResurfacingSource
  <1>3. QED BY <1>1, <1>2, Zenon

LEMMA TrackedShape ==
  ASSUME NEW roots
  PROVE  TrackedSource(roots) = IF roots = {} THEN {}
                                ELSE {Source("tracked-files", roots, {}, FALSE, TRUE, FALSE)}
  BY FileSource, TrackedMark DEF TrackedSource

OpenClawOwn(d) == Inside(d) \cup {IncludeFile, SyncLog, IgnoreFile}

LEMMA OpenClawSources ==
  ASSUME runtime = "openclaw", NEW d
  PROVE  ComputeSurface(d) =
           TrackedRoots(d) \cup
           {Source("workspace", {Workspace}, {Git(Workspace)} \cup OpenClawOwn(d), TRUE, FALSE, FALSE),
            Controls, Ignores, Source("openclaw-config", {AgentSet}, {}, FALSE, FALSE, TRUE), Vaults}
  <1> DEFINE special == TrackedSource(Inside(d)) \cup {TrackedControls, ExportControls({IgnoreFile})}
             own == UNION {spec.roots : spec \in special}
  <1>1. Controls.roots = {IncludeFile, SyncLog} /\ Controls.id = "tracked-controls" /\ Controls.resurface = TRUE
    BY DEF Controls, Source
  <1>2. Ignores.roots = {IgnoreFile} /\ Ignores.id = "export-controls" /\ Ignores.resurface = FALSE
    BY DEF Ignores, Source
  <1>3. special = TrackedSource(Inside(d)) \cup {Controls, Ignores} BY ControlsSource, IgnoresSource
  <1>4. Source("tracked-files", Inside(d), {}, FALSE, TRUE, FALSE).roots = Inside(d) BY DEF Source
  <1>5. UNION {spec.roots : spec \in TrackedSource(Inside(d))} = Inside(d)
    <2>1. CASE Inside(d) = {} BY <2>1, TrackedShape
    <2>2. CASE Inside(d) # {}
      <3>1. TrackedSource(Inside(d)) = {Source("tracked-files", Inside(d), {}, FALSE, TRUE, FALSE)}
        BY <2>2, TrackedShape
      <3>2. QED BY <3>1, <1>4
    <2>3. QED BY <2>1, <2>2
  <1>6. own = OpenClawOwn(d)
    <2>1. UNION {spec.roots : spec \in TrackedSource(Inside(d)) \cup {Controls, Ignores}}
          = (UNION {spec.roots : spec \in TrackedSource(Inside(d))}) \cup Controls.roots \cup Ignores.roots
      OBVIOUS
    <2>2. QED BY <1>1, <1>2, <1>3, <1>5, <2>1 DEF OpenClawOwn
  <1> DEFINE marked == {[spec EXCEPT !.resurface = @ \/ spec.id = "tracked-files"] : spec \in special}
  <1>7. [Controls EXCEPT !.resurface = @ \/ Controls.id = "tracked-files"] = Controls
    BY OpenClawMark, "tracked-controls" # "tracked-files" DEF Controls
  <1>8. [Ignores EXCEPT !.resurface = @ \/ Ignores.id = "tracked-files"] = Ignores
    BY OpenClawMark, "export-controls" # "tracked-files" DEF Ignores
  <1>9. {[spec EXCEPT !.resurface = @ \/ spec.id = "tracked-files"] : spec \in TrackedSource(Inside(d))}
        = TrackedRoots(d)
    <2> DEFINE old == Source("tracked-files", Inside(d), {}, FALSE, TRUE, FALSE)
    <2>1. TrackedFiles(d) = Source("tracked-files", Inside(d), {}, FALSE, TRUE, TRUE) BY DEF TrackedFiles
    <2>2. [old EXCEPT !.resurface = @ \/ old.id = "tracked-files"] = TrackedFiles(d)
      BY <2>1, OpenClawMark
    <2>3. TrackedFiles(d).roots = Inside(d) BY <2>1 DEF Source
    <2>4. CASE Inside(d) = {} BY <2>4, <2>3, TrackedShape DEF TrackedRoots
    <2>5. CASE Inside(d) # {}
      <3>1. TrackedSource(Inside(d)) = {old} BY <2>5, TrackedShape
      <3>2. TrackedRoots(d) = {TrackedFiles(d)} BY <2>5, <2>3 DEF TrackedRoots
      <3> HIDE DEF old
      <3>3. QED BY <3>1, <3>2, <2>2
    <2>6. QED BY <2>4, <2>5
  <1>10. marked = TrackedRoots(d) \cup {Controls, Ignores} BY <1>3, <1>7, <1>8, <1>9
  <1>11. Excluding(DirSpec("workspace", Workspace), {Git(Workspace)} \cup own)
         = Source("workspace", {Workspace}, {Git(Workspace)} \cup OpenClawOwn(d), TRUE, FALSE, FALSE)
    BY <1>6, DirExcluding, Zenon
  <1>12. Resurfacing(FileSpec("openclaw-config", {AgentSet}))
         = Source("openclaw-config", {AgentSet}, {}, FALSE, FALSE, TRUE)
    <2>1. FileSpec("openclaw-config", {AgentSet}) = Source("openclaw-config", {AgentSet}, {}, FALSE, FALSE, FALSE)
      BY FileSource
    <2>2. Resurfacing(Source("openclaw-config", {AgentSet}, {}, FALSE, FALSE, FALSE))
          = Source("openclaw-config", {AgentSet}, {}, FALSE, FALSE, TRUE)
      BY ResurfacingSource
    <2>3. QED BY <2>1, <2>2, Zenon
  <1>13. OpenClawWatch(d) = {Excluding(DirSpec("workspace", Workspace), {Git(Workspace)} \cup own)}
                            \cup marked \cup {Resurfacing(FileSpec("openclaw-config", {AgentSet}))}
    BY DEF OpenClawWatch
  <1>14. ComputeSurface(d) = OpenClawWatch(d) \cup {Vaults} BY VaultsSource DEF ComputeSurface, WatchPaths
  <1> HIDE DEF marked, own, special
  <1>15. QED BY <1>10, <1>11, <1>12, <1>13, <1>14

LEMMA HermesSources ==
  ASSUME runtime = "hermes", NEW d
  PROVE  ComputeSurface(d) =
           TrackedRoots(d) \cup
           {Source("root-files", {Soul}, {}, FALSE, FALSE, FALSE),
            Source("content", {Content}, {Git(Content)}, TRUE, FALSE, TRUE),
            Source("skills", {Skills}, {Git(Skills)}, TRUE, FALSE, TRUE),
            Source("state.db", {Store, StoreLog}, {}, FALSE, FALSE, FALSE),
            Source("config", {RulesFile}, {}, FALSE, FALSE, TRUE),
            Controls, Ignores, Vaults}
  <1>1. Content[2] = "content" /\ Skills[2] = "skills" BY DEF Content, Skills
  <1>2. {Resurfacing(Excluding(DirSpec(dir[2], dir), {Git(dir)})) : dir \in {Content, Skills}}
        = {Source("content", {Content}, {Git(Content)}, TRUE, FALSE, TRUE),
           Source("skills", {Skills}, {Git(Skills)}, TRUE, FALSE, TRUE)}
    <2>1. ASSUME NEW dir
          PROVE  Resurfacing(Excluding(DirSpec(dir[2], dir), {Git(dir)}))
                 = Source(dir[2], {dir}, {Git(dir)}, TRUE, FALSE, TRUE)
      BY DirExcluding
    <2>2. QED BY <1>1, <2>1
  <1>3. Trio(Store) = {Store, StoreLog} BY DEF Trio, Sidecars
  <1>4. TrackedSource(Inside(d) \cup Verified(d)) = TrackedRoots(d)
    <2> DEFINE roots == Inside(d) \cup Verified(d)
    <2>1. TrackedFiles(d) = Source("tracked-files", roots, {}, FALSE, TRUE, FALSE) BY DEF TrackedFiles
    <2>2. TrackedFiles(d).roots = roots BY <2>1 DEF Source
    <2> HIDE DEF roots
    <2>3. QED BY <2>1, <2>2, TrackedShape DEF TrackedRoots, roots
  <1>5. QED BY <1>2, <1>3, <1>4, FileSource, ConfigSource, VaultsSource, ControlsSource, IgnoresSource
            DEF ComputeSurface, WatchPaths, HermesWatch

LEMMA ZeroClawSources ==
  ASSUME runtime = "zeroclaw", NEW d
  PROVE  ComputeSurface(d) =
           TrackedRoots(d) \cup
           {Source("brain.db", Trio(ResolvedStore(d)), {}, FALSE, FALSE, FALSE),
            Source("root-files", {Soul}, {}, FALSE, FALSE, FALSE),
            Source("memory", {Content}, {Git(Content)}, TRUE, FALSE, TRUE),
            Source("config", {RulesFile}, {}, FALSE, FALSE, TRUE),
            Controls, Ignores, Vaults}
           \cup {spec \in {Source("identity", {d[RulesFile].identity}, {}, FALSE, FALSE, FALSE)} :
                   d[RulesFile].identity # Nowhere}
  <1>1. Resurfacing(Excluding(DirSpec("memory", Content), {Git(Content)}))
        = Source("memory", {Content}, {Git(Content)}, TRUE, FALSE, TRUE)
    BY DirExcluding
  <1>2. TrackedSource(Inside(d)) = TrackedRoots(d)
    <2> DEFINE roots == Inside(d)
    <2>1. TrackedFiles(d) = Source("tracked-files", roots, {}, FALSE, TRUE, FALSE) BY DEF TrackedFiles
    <2>2. TrackedFiles(d).roots = roots BY <2>1 DEF Source
    <2> HIDE DEF roots
    <2>3. QED BY <2>1, <2>2, TrackedShape DEF TrackedRoots, roots
  <1> DEFINE identity == d[RulesFile].identity
             own == Source("identity", {identity}, {}, FALSE, FALSE, FALSE)
  <1>3. (IF identity = Nowhere THEN {} ELSE {FileSpec("identity", {identity})})
        = {spec \in {own} : identity # Nowhere}
    <2>1. FileSpec("identity", {identity}) = own BY FileSource
    <2> HIDE DEF own
    <2>2. QED BY <2>1
  <1>4. /\ FileSpec("brain.db", Trio(ResolvedStore(d)))
           = Source("brain.db", Trio(ResolvedStore(d)), {}, FALSE, FALSE, FALSE)
        /\ FileSpec("root-files", {Soul}) = Source("root-files", {Soul}, {}, FALSE, FALSE, FALSE)
    BY FileSource
  <1>5. ZeroClawWatch(d)
        = {FileSpec("brain.db", Trio(ResolvedStore(d))), FileSpec("root-files", {Soul})}
          \cup {Resurfacing(Excluding(DirSpec("memory", Content), {Git(Content)}))}
          \cup {Resurfacing(FileSpec("config", {RulesFile}))}
          \cup (IF identity = Nowhere THEN {} ELSE {FileSpec("identity", {identity})})
          \cup TrackedSource(Inside(d))
          \cup {TrackedControls, ExportControls({IgnoreFile})}
    BY DEF ZeroClawWatch
  <1>6. ComputeSurface(d) = ZeroClawWatch(d) \cup {Vaults} BY VaultsSource DEF ComputeSurface, WatchPaths
  <1> HIDE DEF own
  <1>7. ComputeSurface(d) =
           TrackedRoots(d) \cup
           {Source("brain.db", Trio(ResolvedStore(d)), {}, FALSE, FALSE, FALSE),
            Source("root-files", {Soul}, {}, FALSE, FALSE, FALSE),
            Source("memory", {Content}, {Git(Content)}, TRUE, FALSE, TRUE),
            Source("config", {RulesFile}, {}, FALSE, FALSE, TRUE),
            Controls, Ignores, Vaults}
           \cup {spec \in {own} : identity # Nowhere}
    BY <1>1, <1>2, <1>3, <1>4, <1>5, <1>6, ConfigSource, ControlsSource, IgnoresSource
  <1>8. QED BY <1>7 DEF own

NotesSource == Source("notes", {Content}, {Git(Content)}, TRUE, FALSE, FALSE)
StoreSource == Source("store", {Store, StoreLog}, {}, FALSE, FALSE, FALSE)

LEMMA GenericSources ==
  ASSUME runtime = "generic", NEW d, d[RulesFile] \in RulesOf(runtime)
  PROVE  LET rules == d[RulesFile]
         IN  ComputeSurface(d) =
               TrackedRoots(d) \cup
               {Controls, Source("export-controls", {RulesFile, IgnoreFile}, {}, FALSE, FALSE, TRUE), Vaults}
               \cup (IF rules.valid
                     THEN {spec \in {NotesSource} : "notes" \in rules.sources}
                          \cup {spec \in {StoreSource} : "store" \in rules.sources}
                          \cup {spec \in {Source("identity", {rules.identity}, {}, FALSE, FALSE, FALSE)} :
                                  rules.identity # Nowhere}
                     ELSE {Source("workspace", {Workspace}, {Git(Workspace)}, TRUE, FALSE, FALSE)})
  <1> DEFINE rules == d[RulesFile]
  <1>1. Excluding(DirSpec("notes", Content), {Git(Content)}) = NotesSource
    BY DirExcluding DEF NotesSource
  <1>2. Excluding(DirSpec("workspace", Workspace), {Git(Workspace)})
        = Source("workspace", {Workspace}, {Git(Workspace)}, TRUE, FALSE, FALSE)
    BY DirExcluding
  <1>3. SourceSpec("notes") = NotesSource BY <1>1 DEF SourceSpec
  <1>4. SourceSpec("store") = StoreSource BY FileSource DEF SourceSpec, StoreSource, Trio, Sidecars
  <1>5. rules.sources \subseteq {"notes", "store"} BY DEF RulesOf, Rules
  <1>6. {SourceSpec(source) : source \in rules.sources}
        = {spec \in {NotesSource} : "notes" \in rules.sources}
          \cup {spec \in {StoreSource} : "store" \in rules.sources}
    BY <1>3, <1>4, <1>5
  <1>7. TrackedSource(Inside(d) \cup Verified(d)) = TrackedRoots(d)
    <2> DEFINE roots == Inside(d) \cup Verified(d)
    <2>1. TrackedFiles(d) = Source("tracked-files", roots, {}, FALSE, TRUE, FALSE) BY DEF TrackedFiles
    <2>2. TrackedFiles(d).roots = roots BY <2>1 DEF Source
    <2> HIDE DEF roots
    <2>3. QED BY <2>1, <2>2, TrackedShape DEF TrackedRoots, roots
  <1>8. Resurfacing(ExportControls({RulesFile, IgnoreFile}))
        = Source("export-controls", {RulesFile, IgnoreFile}, {}, FALSE, FALSE, TRUE)
    <2>1. ExportControls({RulesFile, IgnoreFile})
          = Source("export-controls", {RulesFile, IgnoreFile}, {}, FALSE, FALSE, FALSE)
      BY FileSource DEF ExportControls
    <2>2. Resurfacing(Source("export-controls", {RulesFile, IgnoreFile}, {}, FALSE, FALSE, FALSE))
          = Source("export-controls", {RulesFile, IgnoreFile}, {}, FALSE, FALSE, TRUE)
      BY ResurfacingSource
    <2>3. QED BY <2>1, <2>2, Zenon
  <1>9. QED BY <1>2, <1>6, <1>7, <1>8, FileSource, ConfigSource, VaultsSource, ControlsSource
            DEF ComputeSurface, WatchPaths, GenericWatch

-----------------------------------------------------------------------------
(***************************************************************************)
(* Disks, and what their control files say                                 *)
(***************************************************************************)
IsDisk(d) ==
  /\ d = [path \in Paths |-> d[path]]
  /\ d[IncludeFile] \subseteq Entries
  /\ d[RulesFile] \in RulesOf(runtime)

LEMMA Listed ==
  ASSUME NEW d, IsDisk(d)
  PROVE  /\ Inside(d) \subseteq {Note, Other}
         /\ Verified(d) \subseteq {Outside}
  <1>1. \A e \in Entries : /\ e.path \in {Note, Other, Outside}
                           /\ e.kind = "inside" => e.path \in {Note, Other}
                           /\ e.kind = "verified" => e.path = Outside
    BY DEF Entries, Entry
  <1>2. QED BY <1>1 DEF IsDisk, Inside, Verified

LEMMA RulesShape ==
  ASSUME NEW d, IsDisk(d), runtime \in {"openclaw", "hermes", "zeroclaw", "generic"}
  PROVE  /\ d[RulesFile].sources \subseteq {"notes", "store"}
         /\ d[RulesFile].identity \in {Nowhere, Scattered, Outside}
         /\ runtime \in {"openclaw", "hermes"} => d[RulesFile] = Rules({}, Nowhere, TRUE)
         /\ runtime = "generic" => d[RulesFile].identity # Outside
  <1>1. \A sources, identity, valid : /\ Rules(sources, identity, valid).sources = sources
                                     /\ Rules(sources, identity, valid).identity = identity
    BY DEF Rules
  <1>2. CASE runtime \in {"openclaw", "hermes"}
    <2>1. d[RulesFile] = Rules({}, Nowhere, TRUE) BY <1>2 DEF IsDisk, RulesOf
    <2>2. d[RulesFile].sources = {} /\ d[RulesFile].identity = Nowhere BY <2>1 DEF Rules
    <2>3. runtime # "generic" BY <1>2
    <2>4. QED BY <2>1, <2>2, <2>3
  <1>3. CASE runtime = "zeroclaw"
    <2>1. PICK identity \in {Nowhere, Scattered, Outside} : d[RulesFile] = Rules({}, identity, TRUE)
      BY <1>3 DEF IsDisk, RulesOf
    <2>2. d[RulesFile].sources = {} /\ d[RulesFile].identity = identity BY <2>1 DEF Rules
    <2>3. runtime # "generic" /\ runtime \notin {"openclaw", "hermes"} BY <1>3
    <2>4. QED BY <2>2, <2>3
  <1>4. CASE runtime = "generic"
    <2>1. d[RulesFile] \in {Rules({"notes", "store"}, Scattered, TRUE), Rules({"notes"}, Nowhere, TRUE),
                            Rules({}, Nowhere, FALSE)}
      BY <1>4 DEF IsDisk, RulesOf
    <2>2. /\ d[RulesFile].sources \in {{"notes", "store"}, {"notes"}, {}}
          /\ d[RulesFile].identity \in {Scattered, Nowhere}
      BY <2>1 DEF Rules
    <2>3. runtime \notin {"openclaw", "hermes"} BY <1>4
    <2>4. QED BY <2>2, <2>3, Distinct
  <1>5. QED BY <1>2, <1>3, <1>4

-----------------------------------------------------------------------------
(***************************************************************************)
(* Which source an event dirties                                           *)
(***************************************************************************)
Shape(spec) ==
  /\ spec.recursive \in BOOLEAN /\ spec.tracked \in BOOLEAN
  /\ spec.recursive => ~spec.tracked /\ spec.roots \subseteq {Workspace, Content, Skills, Front(Secrets)}
  /\ ~spec.recursive => spec.exclude = {} /\ spec.roots \subseteq Paths
  /\ spec.tracked => spec.roots \subseteq {Note, Other, Outside, IncludeFile, SyncLog}
  /\ spec.tracked <=> spec.id \in {"tracked-files", "tracked-controls"}

LEMMA SurfaceShape ==
  ASSUME NEW w, IsDisk(w), runtime \in {"openclaw", "hermes", "zeroclaw", "generic"}
  PROVE  \A spec \in ComputeSurface(w) : Shape(spec)
  <1>1. \A roots, id : roots \subseteq Paths /\ id \notin {"tracked-files", "tracked-controls"}
          => /\ Shape(Source(id, roots, {}, FALSE, FALSE, FALSE))
             /\ Shape(Source(id, roots, {}, FALSE, FALSE, TRUE))
    BY DEF Shape, Source
  <1>2. \A root \in {Workspace, Content, Skills, Front(Secrets)} : \A x, id :
          id \notin {"tracked-files", "tracked-controls"}
          => /\ Shape(Source(id, {root}, x, TRUE, FALSE, FALSE))
             /\ Shape(Source(id, {root}, x, TRUE, FALSE, TRUE))
    BY DEF Shape, Source
  <1>3. Shape(Controls)
    BY InPaths DEF Shape, Source, Controls
  <1>4. \A spec \in TrackedRoots(w) : Shape(spec)
    <2>1. TrackedFiles(w).roots \subseteq {Note, Other, Outside}
      BY Listed DEF TrackedFiles, Source
    <2>2. Shape(TrackedFiles(w))
      BY <2>1, InPaths DEF Shape, Source, TrackedFiles
    <2>3. QED BY <2>2 DEF TrackedRoots
  <1>5. Shape(Ignores) /\ Shape(Vaults)
    BY <1>1, <1>2, InPaths DEF Ignores, Vaults
  <1>6. CASE runtime = "openclaw"
    <2>1. Shape(Source("openclaw-config", {AgentSet}, {}, FALSE, FALSE, TRUE))
      BY <1>1, InPaths
    <2>2. Shape(Source("workspace", {Workspace}, {Git(Workspace)} \cup OpenClawOwn(w), TRUE, FALSE, FALSE))
      BY <1>2
    <2> DEFINE tree == Source("workspace", {Workspace}, {Git(Workspace)} \cup OpenClawOwn(w), TRUE, FALSE, FALSE)
               config == Source("openclaw-config", {AgentSet}, {}, FALSE, FALSE, TRUE)
    <2>3. Shape(tree) /\ Shape(config) BY <2>1, <2>2
    <2>4. ComputeSurface(w) = TrackedRoots(w) \cup {tree, Controls, Ignores, config, Vaults}
      BY <1>6, OpenClawSources
    <2> HIDE DEF tree, config
    <2>5. QED BY <2>3, <2>4, <1>3, <1>4, <1>5
  <1>7. CASE runtime = "hermes"
    <2>1. /\ Shape(Source("root-files", {Soul}, {}, FALSE, FALSE, FALSE))
          /\ Shape(Source("state.db", {Store, StoreLog}, {}, FALSE, FALSE, FALSE))
          /\ Shape(Source("config", {RulesFile}, {}, FALSE, FALSE, TRUE))
      BY <1>1, InPaths
    <2>2. /\ Shape(Source("content", {Content}, {Git(Content)}, TRUE, FALSE, TRUE))
          /\ Shape(Source("skills", {Skills}, {Git(Skills)}, TRUE, FALSE, TRUE))
      BY <1>2
    <2>3. QED BY <2>1, <2>2, <1>3, <1>4, <1>5, <1>7, HermesSources
  <1>8. CASE runtime = "zeroclaw"
    <2>1. Trio(ResolvedStore(w)) \subseteq Paths BY InPaths DEF Trio, Sidecars, ResolvedStore
    <2>2. w[RulesFile].identity # Nowhere => {w[RulesFile].identity} \subseteq Paths
      BY RulesShape, InPaths
    <2>3. /\ Shape(Source("root-files", {Soul}, {}, FALSE, FALSE, FALSE))
          /\ Shape(Source("brain.db", Trio(ResolvedStore(w)), {}, FALSE, FALSE, FALSE))
          /\ Shape(Source("config", {RulesFile}, {}, FALSE, FALSE, TRUE))
      BY <2>1, <1>1, InPaths
    <2>4. w[RulesFile].identity # Nowhere
          => Shape(Source("identity", {w[RulesFile].identity}, {}, FALSE, FALSE, FALSE))
      BY <2>2, <1>1
    <2>5. Shape(Source("memory", {Content}, {Git(Content)}, TRUE, FALSE, TRUE))
      BY <1>2
    <2>6. QED BY <2>3, <2>4, <2>5, <1>3, <1>4, <1>5, <1>8, ZeroClawSources
  <1>9. CASE runtime = "generic"
    <2>1. w[RulesFile].identity # Nowhere => {w[RulesFile].identity} \subseteq Paths
      BY RulesShape, InPaths
    <2>2. Shape(NotesSource) /\ Shape(StoreSource)
      BY <1>1, <1>2, InPaths DEF NotesSource, StoreSource
    <2>3. w[RulesFile] \in RulesOf(runtime) BY DEF IsDisk
    <2>4. w[RulesFile].identity # Nowhere
          => Shape(Source("identity", {w[RulesFile].identity}, {}, FALSE, FALSE, FALSE))
      BY <2>1, <1>1
    <2>5. Shape(Source("export-controls", {RulesFile, IgnoreFile}, {}, FALSE, FALSE, TRUE))
      BY <1>1, InPaths
    <2>6. Shape(Source("workspace", {Workspace}, {Git(Workspace)}, TRUE, FALSE, FALSE))
      BY <1>2
    <2>7. QED BY <2>2, <2>3, <2>4, <2>5, <2>6, <1>3, <1>4, <1>5, <1>9, GenericSources
  <1>10. QED BY <1>6, <1>7, <1>8, <1>9

LEMMA Lengths ==
  /\ \A p \in Paths : Len(p) \in 2..4
  /\ \A root \in {Workspace, Content, Skills, Front(Secrets)} : Len(root) \in Nat
  <1>1. /\ Len(Soul) \in 2..4 /\ Len(Note) \in 2..4 /\ Len(Scattered) \in 2..4 /\ Len(Skill) \in 2..4
        /\ Len(Other) \in 2..4 /\ Len(Vcs) \in 2..4 /\ Len(Store) \in 2..4 /\ Len(StoreLog) \in 2..4
    BY DEF Soul, Note, Scattered, Skill, Other, Vcs, Store, StoreLog
  <1>2. /\ Len(OldStore) \in 2..4 /\ Len(Outside) \in 2..4 /\ Len(Secrets) \in 2..4
        /\ Len(AgentSet) \in 2..4 /\ Len(IncludeFile) \in 2..4 /\ Len(SyncLog) \in 2..4
        /\ Len(IgnoreFile) \in 2..4 /\ Len(RulesFile) \in 2..4
    BY DEF OldStore, Outside, Secrets, AgentSet, IncludeFile, SyncLog, IgnoreFile, RulesFile
  <1>3. Len(Workspace) \in Nat /\ Len(Content) \in Nat /\ Len(Skills) \in Nat
    BY DEF Workspace, Content, Skills
  <1>4. Len(Front(Secrets)) \in Nat
    <2>1. Len(Secrets) = 3 BY DEF Secrets
    <2>2. Len(SubSeq(Secrets, 1, 2)) = 2 BY DEF Secrets
    <2>3. QED BY <2>1, <2>2 DEF Front
  <1>5. QED BY <1>1, <1>2, <1>3, <1>4, InPaths

\* IdsFor's LET, named.
RankOf(spec, root) ==
  4 * Len(root) + (IF spec.recursive THEN 0 ELSE 2) + (IF spec.tracked THEN 1 ELSE 0)

Matching(specs, path) ==
  UNION {{[id |-> spec.id, rank |-> RankOf(spec, root)] :
            root \in {root \in spec.roots : Covers(spec, root, path)}} : spec \in specs}

LEMMA IdsForMatching ==
  ASSUME NEW specs, NEW path
  PROVE  IdsFor(specs, path) =
           {m.id : m \in {m \in Matching(specs, path) :
                            \A other \in Matching(specs, path) : other.rank <= m.rank}}
  BY DEF IdsFor, Matching, RankOf

Covered(specs, path) == \E spec \in specs : \E root \in spec.roots : Covers(spec, root, path)

LEMMA InMatching ==
  ASSUME NEW specs, NEW path
  PROVE  /\ \A m \in Matching(specs, path) : \E spec \in specs : \E root \in spec.roots :
              Covers(spec, root, path) /\ m = [id |-> spec.id, rank |-> RankOf(spec, root)]
         /\ \A spec \in specs : \A root \in spec.roots :
              Covers(spec, root, path) => [id |-> spec.id, rank |-> RankOf(spec, root)] \in Matching(specs, path)
  BY DEF Matching

\* The ids of an event are those of sources that cover its path.
LEMMA IdsCover ==
  ASSUME NEW specs, NEW path
  PROVE  \A id \in IdsFor(specs, path) : \E spec \in specs :
           spec.id = id /\ \E root \in spec.roots : Covers(spec, root, path)
  BY IdsForMatching, InMatching

LEMMA RankBound ==
  ASSUME NEW w, IsDisk(w), runtime \in {"openclaw", "hermes", "zeroclaw", "generic"},
         NEW path \in Paths, NEW spec \in ComputeSurface(w), NEW root \in spec.roots,
         Covers(spec, root, path)
  PROVE  /\ RankOf(spec, root) \in 0..19
         /\ RankOf(spec, root) <= 4 * Len(path) + 3
         /\ ~(spec.tracked /\ path \in spec.roots) => RankOf(spec, root) <= 4 * Len(path) + 2
  <1>1. Shape(spec) BY SurfaceShape
  <1>2. Len(path) \in 2..4 BY Lengths
  <1> DEFINE m == Len(root)
             n == Len(path)
             r == RankOf(spec, root)
  <1>3. CASE spec.recursive
    <2>1. ~spec.tracked BY <1>1, <1>3 DEF Shape
    <2>2. m \in Nat BY <1>1, <1>3, Lengths DEF Shape
    <2>3. m <= n BY <1>3 DEF Covers, Under, IsPrefix
    <2>4. r = 4 * m + 0 + 0 BY <2>1, <1>3, Zenon DEF RankOf
    <2>5. n \in 2..4 BY <1>2
    <2> HIDE DEF m, n, r
    <2>6. r \in 0..19 BY <2>2, <2>3, <2>4, <2>5
    <2>7. r <= 4 * n + 2 BY <2>2, <2>3, <2>4, <2>5
    <2>8. r <= 4 * n + 3 BY <2>2, <2>3, <2>4, <2>5
    <2>9. QED BY <2>6, <2>7, <2>8 DEF n, r
  <1>4. CASE ~spec.recursive
    <2>1. path = root BY <1>4 DEF Covers
    <2>2. r = 4 * n + 2 + (IF spec.tracked THEN 1 ELSE 0)
      BY <2>1, <1>4, Zenon DEF RankOf
    <2>3. n \in 2..4 BY <1>2
    <2>4. path \in spec.roots BY <2>1
    <2> HIDE DEF m, n, r
    <2>5. CASE spec.tracked
      <3>1. r = 4 * n + 2 + 1 BY <2>2, <2>5, Zenon
      <3>2. r \in 0..19 /\ r <= 4 * n + 3 BY <3>1, <2>3
      <3>3. QED BY <3>2, <2>4, <2>5, Zenon DEF n, r
    <2>6. CASE ~spec.tracked
      <3>1. r = 4 * n + 2 + 0 BY <2>2, <2>6, Zenon
      <3>2. r \in 0..19 /\ r <= 4 * n + 3 /\ r <= 4 * n + 2 BY <3>1, <2>3
      <3>3. QED BY <3>2, Zenon DEF n, r
    <2>7. QED BY <2>5, <2>6
  <1>5. QED BY <1>3, <1>4

LEMMA BoundedMaximum ==
  ASSUME NEW R, R \subseteq 0..19, R # {}
  PROVE  \E x \in R : \A y \in R : y <= x
  <1> DEFINE T == {19 - x : x \in R}
  <1>1. T \subseteq Nat /\ T # {}
    <2>1. PICK x \in R : TRUE OBVIOUS
    <2>2. 19 - x \in T BY <2>1
    <2>3. QED BY <2>2
  <1>2. PICK t \in T : \A u \in T : ~ (<<u, t>> \in OpToRel(<, Nat))
    BY <1>1, NatLessThanWellFounded, WFMin
  <1>3. \A u \in T : ~ (u < t) BY <1>1, <1>2 DEF OpToRel
  <1>4. PICK x \in R : t = 19 - x OBVIOUS
  <1>5. \A y \in R : ~ (19 - y < t) BY <1>3
  <1>6. QED BY <1>4, <1>5

LEMMA CoveredIsWatched ==
  ASSUME NEW w, IsDisk(w), runtime \in {"openclaw", "hermes", "zeroclaw", "generic"},
         NEW path \in Paths, Covered(ComputeSurface(w), path)
  PROVE  Watched(ComputeSurface(w), path)
  <1> DEFINE S == ComputeSurface(w)
             M == Matching(S, path)
             R == {m.rank : m \in M}
  <1>1. M # {} BY InMatching DEF Covered
  <1>2. R \subseteq 0..19
    <2>1. SUFFICES ASSUME NEW m \in M PROVE m.rank \in 0..19 OBVIOUS
    <2>2. PICK spec \in S : \E root \in spec.roots :
              Covers(spec, root, path) /\ m = [id |-> spec.id, rank |-> RankOf(spec, root)]
      BY InMatching
    <2>3. PICK root \in spec.roots :
              Covers(spec, root, path) /\ m = [id |-> spec.id, rank |-> RankOf(spec, root)]
      BY <2>2
    <2>4. RankOf(spec, root) \in 0..19 BY <2>3, RankBound
    <2>5. QED BY <2>3, <2>4
  <1> HIDE DEF S, M
  <1>3. R # {} BY <1>1
  <1> HIDE DEF R
  <1>4. PICK x \in R : \A y \in R : y <= x BY <1>2, <1>3, BoundedMaximum
  <1> USE DEF R
  <1>5. PICK m \in M : m.rank = x BY <1>4
  <1>6. \A other \in M : other.rank <= m.rank BY <1>4, <1>5
  <1>7. m.id \in IdsFor(S, path) BY <1>6, IdsForMatching DEF M
  <1>8. QED BY <1>7 DEF Watched, S

\* A file with a source of its own is that source's.
LEMMA OwnSourceWins ==
  ASSUME NEW w, IsDisk(w), runtime \in {"openclaw", "hermes", "zeroclaw", "generic"},
         NEW path \in Paths, NEW spec \in ComputeSurface(w), path \in spec.roots, ~spec.recursive,
         spec.tracked \/ path \notin {Note, Other, Outside, IncludeFile, SyncLog}
  PROVE  spec.id \in IdsFor(ComputeSurface(w), path)
  <1> DEFINE S == ComputeSurface(w)
             M == Matching(S, path)
             e == [id |-> spec.id, rank |-> RankOf(spec, path)]
  <1>1. Shape(spec) BY SurfaceShape
  <1>2. Covers(spec, path, path) BY <1>1 DEF Covers, Shape
  <1>3. e \in M BY <1>2, InMatching
  <1>4. e.rank = 4 * Len(path) + 2 + (IF spec.tracked THEN 1 ELSE 0)
    BY Lengths DEF RankOf
  <1>5. \A m \in M : m.rank <= e.rank
    <2>1. SUFFICES ASSUME NEW m \in M PROVE m.rank <= e.rank OBVIOUS
    <2>2. PICK other \in S : \E root \in other.roots :
              Covers(other, root, path) /\ m = [id |-> other.id, rank |-> RankOf(other, root)]
      BY InMatching
    <2>3. PICK root \in other.roots :
              Covers(other, root, path) /\ m = [id |-> other.id, rank |-> RankOf(other, root)]
      BY <2>2
    <2>4. m.rank = RankOf(other, root) BY <2>3
    <2>5. Len(path) \in 2..4 BY Lengths
    <2>6. CASE spec.tracked
      <3>1. m.rank <= 4 * Len(path) + 3 BY <2>3, <2>4, RankBound
      <3>2. QED BY <3>1, <1>4, <2>6, <2>5
    <2>7. CASE ~spec.tracked
      <3>1. Shape(other) BY SurfaceShape
      <3>2. ~(other.tracked /\ path \in other.roots) BY <3>1, <2>7 DEF Shape
      <3>3. m.rank <= 4 * Len(path) + 2 BY <2>3, <2>4, <3>2, RankBound
      <3>4. QED BY <3>3, <1>4, <2>7, <2>5
    <2>8. QED BY <2>6, <2>7
  <1>6. e.id = spec.id OBVIOUS
  <1> HIDE DEF S, M, e
  <1>7. QED BY <1>3, <1>5, <1>6, IdsForMatching DEF S, M

-----------------------------------------------------------------------------
(***************************************************************************)
(* What each runtime's surface covers                                      *)
(***************************************************************************)
AllRuntimes == {"openclaw", "hermes", "zeroclaw", "generic"}

LEMMA CommonSources ==
  ASSUME NEW w, IsDisk(w), runtime \in AllRuntimes
  PROVE  /\ {Controls, Vaults} \cup TrackedRoots(w) \subseteq ComputeSurface(w)
         /\ runtime # "generic" => Ignores \in ComputeSurface(w)
         /\ runtime = "generic" => Source("export-controls", {RulesFile, IgnoreFile}, {}, FALSE, FALSE, TRUE)
                                     \in ComputeSurface(w)
         /\ runtime = "zeroclaw" => Source("config", {RulesFile}, {}, FALSE, FALSE, TRUE) \in ComputeSurface(w)
  <1>1. CASE runtime = "openclaw" BY <1>1, OpenClawSources
  <1>2. CASE runtime = "hermes" BY <1>2, HermesSources
  <1>3. CASE runtime = "zeroclaw" BY <1>3, ZeroClawSources
  <1>4. CASE runtime = "generic"
    <2>1. w[RulesFile] \in RulesOf(runtime) BY DEF IsDisk
    <2>2. QED BY <1>4, <2>1, GenericSources
  <1>5. QED BY <1>1, <1>2, <1>3, <1>4 DEF AllRuntimes

LEMMA FileCovers ==
  ASSUME NEW S, NEW spec \in S, Shape(spec), ~spec.recursive, NEW p \in spec.roots
  PROVE  Covered(S, p)
  BY DEF Shape, Covered, Covers

LEMMA DirCovers ==
  ASSUME NEW S, NEW spec \in S, spec.recursive, NEW root \in spec.roots, NEW p, Under(p, root),
         \A out \in spec.exclude : ~Under(p, out)
  PROVE  Covered(S, p)
  BY DEF Covered, Covers

LEMMA CommonCovers ==
  ASSUME NEW w, IsDisk(w), runtime \in AllRuntimes,
         NEW p \in TrackedFiles(w).roots \cup {IncludeFile, SyncLog, IgnoreFile, Secrets}
  PROVE  Covered(ComputeSurface(w), p)
  <1> DEFINE S == ComputeSurface(w)
  <1> USE DEF AllRuntimes
  <1>1. \A spec \in S : Shape(spec) BY SurfaceShape
  <1>2. CASE p \in {IncludeFile, SyncLog}
    <2>1. ~Controls.recursive /\ Controls.roots = {IncludeFile, SyncLog} BY DEF Controls, Source
    <2>2. QED BY <1>1, <1>2, <2>1, CommonSources, FileCovers
  <1>3. CASE p = IgnoreFile
    <2>1. ~Ignores.recursive /\ Ignores.roots = {IgnoreFile} BY DEF Ignores, Source
    <2> DEFINE other == Source("export-controls", {RulesFile, IgnoreFile}, {}, FALSE, FALSE, TRUE)
    <2>2. ~other.recursive /\ other.roots = {RulesFile, IgnoreFile} BY DEF Source
    <2>3. CASE runtime # "generic" BY <1>1, <1>3, <2>1, <2>3, CommonSources, FileCovers
    <2>4. CASE runtime = "generic"
      <3>1. other \in S BY <2>4, CommonSources
      <3> HIDE DEF other, S
      <3>2. QED BY <1>1, <1>3, <2>2, <3>1, FileCovers DEF S
    <2>5. QED BY <2>3, <2>4
  <1>4. CASE p = Secrets
    <2>1. Vaults.recursive /\ Vaults.roots = {Front(Secrets)} /\ Vaults.exclude = {} BY DEF Vaults, Source
    <2>2. Under(p, Front(Secrets)) BY <1>4, UnderVault, InPaths
    <2>3. Vaults \in S BY CommonSources
    <2> HIDE DEF S
    <2>4. QED BY <2>1, <2>2, <2>3, DirCovers DEF S
  <1>5. CASE p \in TrackedFiles(w).roots
    <2>1. ~TrackedFiles(w).recursive BY DEF TrackedFiles, Source
    <2>2. TrackedFiles(w) \in S BY <1>5, CommonSources DEF TrackedRoots
    <2>3. QED BY <1>1, <1>5, <2>1, <2>2, FileCovers
  <1>6. QED BY <1>2, <1>3, <1>4, <1>5

LEMMA OpenClawCovers ==
  ASSUME runtime = "openclaw", NEW w, IsDisk(w), NEW p \in Paths \ {Vcs, Outside}
  PROVE  Covered(ComputeSurface(w), p)
  <1> DEFINE S == ComputeSurface(w)
             tree == Source("workspace", {Workspace}, {Git(Workspace)} \cup OpenClawOwn(w), TRUE, FALSE, FALSE)
             config == Source("openclaw-config", {AgentSet}, {}, FALSE, FALSE, TRUE)
  <1>1. /\ tree \in S /\ tree.recursive /\ tree.roots = {Workspace}
        /\ tree.exclude = {Git(Workspace)} \cup OpenClawOwn(w)
    BY OpenClawSources DEF Source
  <1>2. config \in S /\ ~config.recursive /\ config.roots = {AgentSet} /\ Shape(config)
    BY OpenClawSources, SurfaceShape DEF Source
  <1>3. TrackedFiles(w).roots = Inside(w) BY DEF TrackedFiles, Source
  <1> HIDE DEF S, tree, config
  <1>4. CASE p \in OpenClawOwn(w) \cup {Secrets}
    BY <1>3, <1>4, CommonCovers DEF OpenClawOwn, AllRuntimes
  <1>5. CASE p = AgentSet BY <1>2, <1>5, FileCovers DEF S
  <1>6. CASE p \notin OpenClawOwn(w) \cup {Secrets, AgentSet}
    <2>1. Under(p, Workspace) BY <1>6, UnderWorkspace, InPaths
    <2>2. ~Under(p, Git(Workspace)) BY UnderGit
    <2>3. OpenClawOwn(w) \subseteq {Note, Other, IncludeFile, SyncLog, IgnoreFile}
      BY Listed DEF OpenClawOwn
    <2>4. \A out \in OpenClawOwn(w) : ~Under(p, out) BY <1>6, <2>3, UnderFiles
    <2>5. QED BY <1>1, <2>1, <2>2, <2>4, DirCovers DEF S
  <1>7. QED BY <1>4, <1>5, <1>6

HermesAlways ==
  {Soul, Note, OldStore, Skill, Store, StoreLog, RulesFile, IncludeFile, SyncLog, IgnoreFile, Secrets}

LEMMA HermesCovers ==
  ASSUME runtime = "hermes", NEW w, IsDisk(w), NEW p \in HermesAlways \cup Inside(w) \cup Verified(w)
  PROVE  Covered(ComputeSurface(w), p)
  <1> DEFINE S == ComputeSurface(w)
             root == Source("root-files", {Soul}, {}, FALSE, FALSE, FALSE)
             content == Source("content", {Content}, {Git(Content)}, TRUE, FALSE, TRUE)
             skills == Source("skills", {Skills}, {Git(Skills)}, TRUE, FALSE, TRUE)
             db == Source("state.db", {Store, StoreLog}, {}, FALSE, FALSE, FALSE)
             config == Source("config", {RulesFile}, {}, FALSE, FALSE, TRUE)
  <1>1. root \in S /\ ~root.recursive /\ root.roots = {Soul} /\ Shape(root)
    BY HermesSources, SurfaceShape DEF Source
  <1>2. content \in S /\ content.recursive /\ content.roots = {Content} /\ content.exclude = {Git(Content)}
    BY HermesSources DEF Source
  <1>3. skills \in S /\ skills.recursive /\ skills.roots = {Skills} /\ skills.exclude = {Git(Skills)}
    BY HermesSources DEF Source
  <1>4. db \in S /\ ~db.recursive /\ db.roots = {Store, StoreLog} /\ Shape(db)
    BY HermesSources, SurfaceShape DEF Source
  <1>5. config \in S /\ ~config.recursive /\ config.roots = {RulesFile} /\ Shape(config)
    BY HermesSources, SurfaceShape DEF Source
  <1>6. TrackedFiles(w).roots = Inside(w) \cup Verified(w) BY DEF TrackedFiles, Source
  <1> HIDE DEF S, root, content, skills, db, config
  <1>7. CASE p \in {Note, OldStore}
    <2>1. Under(p, Content) /\ ~Under(p, Git(Content)) BY <1>7, UnderContent, UnderGit, InPaths
    <2>2. QED BY <1>2, <2>1, DirCovers DEF S
  <1>8. CASE p = Skill
    <2>1. Under(p, Skills) /\ ~Under(p, Git(Skills)) BY <1>8, UnderSkills, UnderGit, InPaths
    <2>2. QED BY <1>3, <2>1, DirCovers DEF S
  <1>9. CASE p \in {Soul, Store, StoreLog, RulesFile} BY <1>1, <1>4, <1>5, <1>9, FileCovers DEF S
  <1>10. CASE p \in Inside(w) \cup Verified(w) \cup {IncludeFile, SyncLog, IgnoreFile, Secrets}
    BY <1>6, <1>10, CommonCovers DEF AllRuntimes
  <1>11. QED BY <1>7, <1>8, <1>9, <1>10 DEF HermesAlways

ZeroClawAlways ==
  {Soul, Note, OldStore, RulesFile, IncludeFile, SyncLog, IgnoreFile, Secrets}

LEMMA ZeroClawCovers ==
  ASSUME runtime = "zeroclaw", NEW w, IsDisk(w),
         NEW p \in ZeroClawAlways \cup Inside(w) \cup Trio(ResolvedStore(w))
                     \cup ({w[RulesFile].identity} \ {Nowhere})
  PROVE  Covered(ComputeSurface(w), p)
  <1> DEFINE S == ComputeSurface(w)
             db == Source("brain.db", Trio(ResolvedStore(w)), {}, FALSE, FALSE, FALSE)
             root == Source("root-files", {Soul}, {}, FALSE, FALSE, FALSE)
             memory == Source("memory", {Content}, {Git(Content)}, TRUE, FALSE, TRUE)
             config == Source("config", {RulesFile}, {}, FALSE, FALSE, TRUE)
             identity == Source("identity", {w[RulesFile].identity}, {}, FALSE, FALSE, FALSE)
  <1>1. root \in S /\ ~root.recursive /\ root.roots = {Soul} /\ Shape(root)
    BY ZeroClawSources, SurfaceShape DEF Source
  <1>2. memory \in S /\ memory.recursive /\ memory.roots = {Content} /\ memory.exclude = {Git(Content)}
    BY ZeroClawSources DEF Source
  <1>3. db \in S /\ ~db.recursive /\ db.roots = Trio(ResolvedStore(w)) /\ Shape(db)
    BY ZeroClawSources, SurfaceShape DEF Source
  <1>4. config \in S /\ ~config.recursive /\ config.roots = {RulesFile} /\ Shape(config)
    BY ZeroClawSources, SurfaceShape DEF Source
  <1>5. ~identity.recursive /\ identity.roots = {w[RulesFile].identity} BY DEF Source
  <1>6. w[RulesFile].identity # Nowhere => identity \in S /\ Shape(identity)
    BY ZeroClawSources, SurfaceShape
  <1>7. TrackedFiles(w).roots = Inside(w) BY DEF TrackedFiles, Source
  <1> HIDE DEF S, root, memory, db, config, identity
  <1>8. CASE p \in {Note, OldStore}
    <2>1. Under(p, Content) /\ ~Under(p, Git(Content)) BY <1>8, UnderContent, UnderGit, InPaths
    <2>2. QED BY <1>2, <2>1, DirCovers DEF S
  <1>9. CASE p \in {Soul, RulesFile} \cup Trio(ResolvedStore(w)) BY <1>1, <1>3, <1>4, <1>9, FileCovers DEF S
  <1>10. CASE p \in Inside(w) \cup {IncludeFile, SyncLog, IgnoreFile, Secrets}
    BY <1>7, <1>10, CommonCovers DEF AllRuntimes
  <1>11. CASE p \in {w[RulesFile].identity} \ {Nowhere}
    BY <1>5, <1>6, <1>11, FileCovers DEF S
  <1>12. QED BY <1>8, <1>9, <1>10, <1>11 DEF ZeroClawAlways

GenericAlways == {RulesFile, IncludeFile, SyncLog, IgnoreFile, Secrets}

LEMMA GenericCovers ==
  ASSUME runtime = "generic", NEW w, IsDisk(w), w[RulesFile].valid,
         NEW p \in GenericAlways \cup Inside(w) \cup Verified(w)
                     \cup (IF "notes" \in w[RulesFile].sources THEN {Note, OldStore} ELSE {})
                     \cup (IF "store" \in w[RulesFile].sources THEN {Store, StoreLog} ELSE {})
                     \cup ({w[RulesFile].identity} \ {Nowhere})
  PROVE  Covered(ComputeSurface(w), p)
  <1> DEFINE S == ComputeSurface(w)
             controls == Source("export-controls", {RulesFile, IgnoreFile}, {}, FALSE, FALSE, TRUE)
             identity == Source("identity", {w[RulesFile].identity}, {}, FALSE, FALSE, FALSE)
  <1>1. w[RulesFile] \in RulesOf(runtime) BY DEF IsDisk
  <1>2. controls \in S /\ ~controls.recursive /\ controls.roots = {RulesFile, IgnoreFile} /\ Shape(controls)
    BY <1>1, GenericSources, SurfaceShape DEF Source
  <1>3. ~identity.recursive /\ identity.roots = {w[RulesFile].identity} BY DEF Source
  <1>4. w[RulesFile].identity # Nowhere => identity \in S /\ Shape(identity)
    BY <1>1, GenericSources, SurfaceShape
  <1>5. "notes" \in w[RulesFile].sources => NotesSource \in S
    BY <1>1, GenericSources
  <1>6. "store" \in w[RulesFile].sources => StoreSource \in S /\ Shape(StoreSource)
    BY <1>1, GenericSources, SurfaceShape
  <1>7. NotesSource.recursive /\ NotesSource.roots = {Content} /\ NotesSource.exclude = {Git(Content)}
    BY DEF NotesSource, Source
  <1>8. ~StoreSource.recursive /\ StoreSource.roots = {Store, StoreLog} BY DEF StoreSource, Source
  <1>9. TrackedFiles(w).roots = Inside(w) \cup Verified(w) BY DEF TrackedFiles, Source
  <1> HIDE DEF S, controls, identity
  <1>10. CASE "notes" \in w[RulesFile].sources /\ p \in {Note, OldStore}
    <2>1. Under(p, Content) /\ ~Under(p, Git(Content)) BY <1>10, UnderContent, UnderGit, InPaths
    <2>2. NotesSource \in S /\ Content \in NotesSource.roots /\ \A out \in NotesSource.exclude : ~Under(p, out)
      BY <1>5, <1>7, <1>10, <2>1
    <2>3. Covered(S, p) BY <1>7, <2>1, <2>2, DirCovers
    <2>4. QED BY <2>3 DEF S
  <1>11. CASE "store" \in w[RulesFile].sources /\ p \in {Store, StoreLog}
    BY <1>6, <1>8, <1>11, FileCovers DEF S
  <1>12. CASE p = RulesFile BY <1>2, <1>12, FileCovers DEF S
  <1>13. CASE p \in Inside(w) \cup Verified(w) \cup {IncludeFile, SyncLog, IgnoreFile, Secrets}
    BY <1>9, <1>13, CommonCovers DEF AllRuntimes
  <1>14. CASE p \in {w[RulesFile].identity} \ {Nowhere}
    BY <1>3, <1>4, <1>14, FileCovers DEF S
  <1>15. QED BY <1>10, <1>11, <1>12, <1>13, <1>14 DEF GenericAlways


-----------------------------------------------------------------------------
(***************************************************************************)
(* The control files: those a surface depends on                           *)
(***************************************************************************)
ControlFiles == {IncludeFile} \cup (IF runtime \in {"zeroclaw", "generic"} THEN {RulesFile} ELSE {})

ControlId(c) ==
  IF c = IncludeFile THEN "tracked-controls"
  ELSE IF runtime = "zeroclaw" THEN "config" ELSE "export-controls"

LEMMA ControlHasSource ==
  ASSUME NEW w, IsDisk(w), runtime \in AllRuntimes, NEW c \in ControlFiles
  PROVE  \E spec \in ComputeSurface(w) :
           /\ spec.id = ControlId(c) /\ c \in spec.roots
           /\ ~spec.recursive /\ spec.resurface
           /\ spec.tracked \/ c \notin {Note, Other, Outside, IncludeFile, SyncLog}
  <1>1. CASE c = IncludeFile
    <2>1. /\ Controls.id = "tracked-controls" /\ IncludeFile \in Controls.roots
          /\ ~Controls.recursive /\ Controls.resurface /\ Controls.tracked
      BY DEF Controls, Source
    <2>2. Controls \in ComputeSurface(w) BY CommonSources
    <2>3. QED BY <1>1, <2>1, <2>2 DEF ControlId
  <1>2. CASE c = RulesFile /\ runtime = "zeroclaw"
    <2> DEFINE config == Source("config", {RulesFile}, {}, FALSE, FALSE, TRUE)
    <2>1. config.id = "config" /\ RulesFile \in config.roots /\ ~config.recursive /\ config.resurface
      BY DEF Source
    <2>2. config \in ComputeSurface(w) BY <1>2, CommonSources
    <2> HIDE DEF config
    <2>3. ControlId(c) = "config" BY <1>2, Distinct DEF ControlId
    <2>4. c \notin {Note, Other, Outside, IncludeFile, SyncLog} BY <1>2, Distinct
    <2>5. QED BY <1>2, <2>1, <2>2, <2>3, <2>4
  <1>3. CASE c = RulesFile /\ runtime = "generic"
    <2> DEFINE config == Source("export-controls", {RulesFile, IgnoreFile}, {}, FALSE, FALSE, TRUE)
    <2>1. config.id = "export-controls" /\ RulesFile \in config.roots /\ ~config.recursive /\ config.resurface
      BY DEF Source
    <2>2. config \in ComputeSurface(w) BY <1>3, CommonSources
    <2> HIDE DEF config
    <2>3. runtime # "zeroclaw" BY <1>3
    <2>4. ControlId(c) = "export-controls" BY <1>3, <2>3, Distinct DEF ControlId
    <2>5. c \notin {Note, Other, Outside, IncludeFile, SyncLog} BY <1>3, Distinct
    <2>6. QED BY <1>3, <2>1, <2>2, <2>4, <2>5
  <1>4. QED BY <1>1, <1>2, <1>3 DEF ControlFiles

\* A write of a control dirties its own source and asks for a refresh.
LEMMA ControlsAreWatched ==
  ASSUME NEW w, IsDisk(w), runtime \in AllRuntimes, NEW c \in ControlFiles
  PROVE  /\ ControlId(c) \in Ids(ComputeSurface(w))
         /\ ControlId(c) \in IdsFor(ComputeSurface(w), c)
         /\ Resurfaces(ComputeSurface(w), IdsFor(ComputeSurface(w), c))
         /\ Watched(ComputeSurface(w), c)
  <1>1. PICK spec \in ComputeSurface(w) :
           /\ spec.id = ControlId(c) /\ c \in spec.roots
           /\ ~spec.recursive /\ spec.resurface
           /\ spec.tracked \/ c \notin {Note, Other, Outside, IncludeFile, SyncLog}
    BY ControlHasSource
  <1>2. c \in Paths BY InPaths DEF ControlFiles
  <1>3. spec.id \in IdsFor(ComputeSurface(w), c)
    BY <1>1, <1>2, OwnSourceWins DEF AllRuntimes
  <1>4. QED BY <1>1, <1>3 DEF Ids, Resurfaces, Watched

LEMMA SameLists ==
  ASSUME NEW w, NEW d, w[IncludeFile] = d[IncludeFile]
  PROVE  Inside(w) = Inside(d) /\ Verified(w) = Verified(d)
  BY DEF Inside, Verified

LEMMA SameSurface ==
  ASSUME NEW w, IsDisk(w), NEW d, IsDisk(d), runtime \in AllRuntimes,
         \A c \in ControlFiles : w[c] = d[c],
         runtime = "zeroclaw" => ResolvedStore(w) = ResolvedStore(d)
  PROVE  ComputeSurface(w) = ComputeSurface(d)
  <1>1. w[IncludeFile] = d[IncludeFile] BY DEF ControlFiles
  <1>2. Inside(w) = Inside(d) /\ Verified(w) = Verified(d) BY <1>1, SameLists
  <1>3. runtime \in {"zeroclaw", "generic"} => w[RulesFile] = d[RulesFile] BY DEF ControlFiles
  <1>4. CASE runtime = "openclaw"
    <2>1. OpenClawWatch(w) = OpenClawWatch(d) BY <1>2, Zenon DEF OpenClawWatch
    <2>2. WatchPaths(w) = WatchPaths(d) BY <1>4, <2>1 DEF WatchPaths
    <2>3. QED BY <2>2, Zenon DEF ComputeSurface
  <1>5. CASE runtime = "hermes"
    <2>1. HermesWatch(w) = HermesWatch(d) BY <1>2, Zenon DEF HermesWatch
    <2>2. WatchPaths(w) = WatchPaths(d) BY <1>5, <2>1 DEF WatchPaths
    <2>3. QED BY <2>2, Zenon DEF ComputeSurface
  <1>6. CASE runtime = "zeroclaw"
    <2>1. w[RulesFile] = d[RulesFile] /\ ResolvedStore(w) = ResolvedStore(d) BY <1>3, <1>6
    <2>2. ZeroClawWatch(w) = ZeroClawWatch(d) BY <1>2, <2>1, Zenon DEF ZeroClawWatch
    <2>3. WatchPaths(w) = WatchPaths(d) BY <1>6, <2>2 DEF WatchPaths
    <2>4. QED BY <2>3, Zenon DEF ComputeSurface
  <1>7. CASE runtime = "generic"
    <2>1. w[RulesFile] = d[RulesFile] BY <1>3, <1>7
    <2>2. GenericWatch(w) = GenericWatch(d) BY <1>2, <2>1, Zenon DEF GenericWatch
    <2>3. WatchPaths(w) = WatchPaths(d) BY <1>7, <2>2 DEF WatchPaths
    <2>4. QED BY <2>3, Zenon DEF ComputeSurface
  <1>8. QED BY <1>4, <1>5, <1>6, <1>7 DEF AllRuntimes

-----------------------------------------------------------------------------
(***************************************************************************)
(* The store ZeroClaw's loop watches                                       *)
(***************************************************************************)
LEMMA Trios ==
  /\ Trio(Store) = {Store, StoreLog}
  /\ Trio(OldStore) = {OldStore}
  BY Distinct DEF Trio, Sidecars

LEMMA BrainDb ==
  ASSUME runtime = "zeroclaw", NEW w, IsDisk(w)
  PROVE  /\ \E spec \in ComputeSurface(w) : spec.id = "brain.db"
         /\ \A spec \in ComputeSurface(w) : spec.id = "brain.db" => spec.roots = Trio(ResolvedStore(w))
  <1> DEFINE db == Source("brain.db", Trio(ResolvedStore(w)), {}, FALSE, FALSE, FALSE)
             root == Source("root-files", {Soul}, {}, FALSE, FALSE, FALSE)
             memory == Source("memory", {Content}, {Git(Content)}, TRUE, FALSE, TRUE)
             config == Source("config", {RulesFile}, {}, FALSE, FALSE, TRUE)
             identity == Source("identity", {w[RulesFile].identity}, {}, FALSE, FALSE, FALSE)
             S == ComputeSurface(w)
  <1>1. \A spec \in S : spec \in TrackedRoots(w) \cup {db, root, memory, config, Controls, Ignores, Vaults, identity}
    <2>1. S = TrackedRoots(w) \cup {db, root, memory, config, Controls, Ignores, Vaults}
              \cup {spec \in {identity} : w[RulesFile].identity # Nowhere}
      BY ZeroClawSources, Zenon
    <2> HIDE DEF db, root, memory, config, identity, S
    <2>2. QED BY <2>1
  <1>2. db \in S BY ZeroClawSources
  <1>3. db.id = "brain.db" /\ db.roots = Trio(ResolvedStore(w)) BY DEF Source
  <1>4. /\ root.id # "brain.db" /\ memory.id # "brain.db" /\ config.id # "brain.db" /\ identity.id # "brain.db"
    BY DEF Source
  <1>5. Controls.id # "brain.db" /\ Ignores.id # "brain.db" /\ Vaults.id # "brain.db"
    BY DEF Source, Controls, Ignores, Vaults
  <1>6. \A spec \in TrackedRoots(w) : spec.id # "brain.db" BY DEF TrackedRoots, TrackedFiles, Source
  <1> HIDE DEF db, root, memory, config, identity, S
  <1>7. QED BY <1>1, <1>2, <1>3, <1>4, <1>5, <1>6 DEF S

LEMMA OtherStoreIsNew ==
  ASSUME runtime = "zeroclaw", NEW w, IsDisk(w), NEW d, IsDisk(d), ResolvedStore(w) # ResolvedStore(d)
  PROVE  "brain.db" \in Redefined(ComputeSurface(w), ComputeSurface(d))
  <1>1. PICK spec \in ComputeSurface(d) : spec.id = "brain.db" BY BrainDb
  <1>2. spec.roots = Trio(ResolvedStore(d)) BY <1>1, BrainDb
  <1>3. spec \in ComputeSurface(w) => spec.roots = Trio(ResolvedStore(w)) BY <1>1, BrainDb
  <1>4. Trio(ResolvedStore(w)) # Trio(ResolvedStore(d))
    BY Trios, Distinct DEF ResolvedStore
  <1>5. spec \in ComputeSurface(d) \ ComputeSurface(w) BY <1>2, <1>3, <1>4
  <1>6. QED BY <1>1, <1>5 DEF Redefined, Ids

-----------------------------------------------------------------------------
(***************************************************************************)
(* What an export packs, of the store the loop watches                     *)
(***************************************************************************)
LayersBy(d, store) ==
  IF runtime = "zeroclaw"
  THEN ({Soul, Secrets, d[RulesFile].identity} \cup (IF d[store] # Absent THEN Trio(store) ELSE {Note}))
       \cap Present(d)
  ELSE Layers(d)

ImageBy(d, store) ==
  [raw |-> [path \in Raw(d) |-> d[path]], layers |-> [path \in LayersBy(d, store) |-> d[path]]]

LEMMA ImageOfItsStore ==
  ASSUME NEW d, runtime \in AllRuntimes
  PROVE  ImageBy(d, ResolvedStore(d)) = Image(d)
  <1>1. LayersBy(d, ResolvedStore(d)) = Layers(d)
    BY DEF LayersBy, Layers, ZeroClawLayers, Trio
  <1>2. QED BY <1>1, Zenon DEF ImageBy, Image

\* An export that packs no other store packs what it would of this one.
LEMMA StoreSeen ==
  ASSUME NEW d, runtime \in AllRuntimes, NEW w,
         runtime = "zeroclaw" => Layers(d) \cap {Store, OldStore} \subseteq Trio(ResolvedStore(w))
  PROVE  Image(d) = ImageBy(d, ResolvedStore(w))
  <1> DEFINE here == ResolvedStore(w)
             there == ResolvedStore(d)
  <1>1. here \in {Store, OldStore} /\ there \in {Store, OldStore} BY DEF ResolvedStore
  <1>2. {Store, OldStore} \subseteq Plain BY DEF Plain
  <1>3. CASE here = there \/ runtime # "zeroclaw"
    <2>1. LayersBy(d, here) = LayersBy(d, there) BY <1>3 DEF LayersBy
    <2>2. ImageBy(d, here) = ImageBy(d, there) BY <2>1, Zenon DEF ImageBy
    <2>3. QED BY <2>2, ImageOfItsStore
  <1>4. CASE here # there /\ runtime = "zeroclaw"
    <2>1. Layers(d) = ({Soul, Secrets, d[RulesFile].identity}
                       \cup (IF d[there] # Absent THEN Trio(there) ELSE {Note})) \cap Present(d)
      BY <1>4 DEF Layers, ZeroClawLayers, Trio
    <2>2. there \in Trio(there) /\ there \notin Trio(here) BY <1>1, <1>4, Trios, Distinct
    <2>3. d[there] = Absent
      <3>1. SUFFICES ASSUME d[there] # Absent PROVE FALSE OBVIOUS
      <3>2. there \in Present(d) BY <3>1, <1>1, <1>2 DEF Present
      <3>3. there \in Layers(d) BY <2>1, <2>2, <3>1, <3>2
      <3>4. QED BY <3>3, <2>2, <1>1, <1>4
    <2>4. d[here] = Absent
      <3>1. CASE there = Store
        <4>1. here = OldStore BY <3>1, <1>1, <1>4
        <4>2. QED BY <2>3, <3>1, <4>1, Distinct DEF ResolvedStore
      <3>2. CASE there = OldStore
        <4>1. d[OldStore] # Absent BY <3>2, Distinct DEF ResolvedStore
        <4>2. QED BY <4>1, <2>3, <3>2
      <3>3. QED BY <3>1, <3>2, <1>1
    <2>5. LayersBy(d, here) = Layers(d) BY <2>1, <2>3, <2>4, <1>4 DEF LayersBy
    <2>6. QED BY <2>5, Zenon DEF ImageBy, Image
  <1>5. QED BY <1>3, <1>4

LEMMA PresentContent ==
  ASSUME NEW d
  PROVE  PresentUnder(d, Content) = {Note, OldStore} \cap Present(d)
  BY UnderContent DEF PresentUnder, Present, Paths, Plain

LEMMA DotGit ==
  \A p \in Markdown : (\A i \in DOMAIN p : p[i] # ".git") <=> p # Vcs
  <1>1. \A i \in DOMAIN Soul : Soul[i] # ".git" BY DEF Soul
  <1>2. \A i \in DOMAIN Note : Note[i] # ".git" BY DEF Note
  <1>3. \A i \in DOMAIN Skill : Skill[i] # ".git" BY DEF Skill
  <1>4. \A i \in DOMAIN Scattered : Scattered[i] # ".git" BY DEF Scattered
  <1>5. ~ \A i \in DOMAIN Vcs : Vcs[i] # ".git"
    <2>1. 2 \in DOMAIN Vcs /\ Vcs[2] = ".git" BY DEF Vcs
    <2>2. QED BY <2>1
  <1>6. QED BY <1>1, <1>2, <1>3, <1>4, <1>5, Distinct DEF Markdown

LEMMA ScatteredMarkdown ==
  ASSUME NEW d
  PROVE  {path \in PresentUnder(d, Workspace) \cap Markdown : \A i \in DOMAIN path : path[i] # ".git"}
         = {Soul, Note, Skill, Scattered} \cap Present(d)
  <1>1. Markdown = {Soul, Note, Skill, Scattered, Vcs} BY DEF Markdown
  <1>2. \A p \in {Soul, Note, Skill, Scattered} : p \in Markdown /\ p # Vcs /\ p \in Plain
    BY Distinct DEF Markdown, Plain
  <1>3. \A p \in {Soul, Note, Skill, Scattered} : Under(p, Workspace)
    BY UnderWorkspace, InPaths, Distinct
  <1>4. PresentUnder(d, Workspace) = {path \in Present(d) : Under(path, Workspace)}
    BY DEF PresentUnder
  <1>5. QED BY <1>1, <1>2, <1>3, <1>4, DotGit

\* A write of one file leaves what depends on the others.
LEMMA OtherFiles ==
  ASSUME NEW d, NEW e, NEW p \in Plain, \A q \in Paths \ {p} : d[q] = e[q]
  PROVE  /\ e[IncludeFile] = d[IncludeFile] /\ e[RulesFile] = d[RulesFile]
         /\ Inside(e) = Inside(d) /\ Verified(e) = Verified(d) /\ Sentinels(e) = Sentinels(d)
         /\ \A X : p \notin X => X \cap Present(e) = X \cap Present(d)
         /\ \A X : p \notin X => Kept(e, X) = Kept(d, X)
  <1>1. p \notin {IncludeFile, SyncLog, IgnoreFile, RulesFile} BY Distinct DEF Plain
  <1>2. /\ e[IncludeFile] = d[IncludeFile] /\ e[RulesFile] = d[RulesFile]
        /\ e[IgnoreFile] = d[IgnoreFile] /\ e[SyncLog] = d[SyncLog]
    BY <1>1, InPaths
  <1>3. Inside(e) = Inside(d) /\ Verified(e) = Verified(d) BY <1>2, SameLists
  <1>4. Sentinels(e) = Sentinels(d) BY <1>2 DEF Sentinels
  <1>5. \A q \in Plain \ {p} : q \in Present(e) <=> q \in Present(d)
    BY DEF Present, Paths
  <1>6. Present(e) \subseteq Plain /\ Present(d) \subseteq Plain BY DEF Present
  <1>7. \A X : p \notin X => X \cap Present(e) = X \cap Present(d) BY <1>5, <1>6
  <1>8. \A X : p \notin X => Kept(e, X) = Kept(d, X) BY <1>2, <1>7 DEF Kept
  <1>9. QED BY <1>2, <1>3, <1>4, <1>7, <1>8

\* What an export reads, beside the control files.
Reads(d, store) ==
  CASE runtime = "openclaw" -> {Soul, Note, OldStore, Scattered, Skill, Secrets} \cup Inside(d)
    [] runtime = "hermes"   ->
         {Soul, Note, OldStore, Secrets, Store, StoreLog, Skill} \cup Inside(d) \cup Verified(d)
    [] runtime = "zeroclaw" ->
         {Soul, Note, OldStore, Secrets, d[RulesFile].identity} \cup Inside(d) \cup Trio(store)
    [] runtime = "generic"  ->
         {Secrets, d[RulesFile].identity} \cup Inside(d) \cup Verified(d)
         \cup (IF "notes" \in d[RulesFile].sources THEN {Note, OldStore} ELSE {})
         \cup (IF "store" \in d[RulesFile].sources THEN {Store, StoreLog} ELSE {})

LEMMA ReadsSuffice ==
  ASSUME NEW d, NEW e, NEW store, runtime \in AllRuntimes, store \in {Store, OldStore},
         NEW p \in Plain, p \notin Reads(d, store), \A q \in Paths \ {p} : d[q] = e[q]
  PROVE  /\ Raw(e) = Raw(d) /\ p \notin Raw(d)
         /\ LayersBy(e, store) = LayersBy(d, store) /\ p \notin LayersBy(d, store)
  <1>1. p \notin {IncludeFile, SyncLog, RulesFile} BY Distinct DEF Plain
  <1>2. p \notin Sentinels(d) BY <1>1 DEF Sentinels
  <1>3. /\ e[RulesFile] = d[RulesFile]
        /\ Inside(e) = Inside(d) /\ Verified(e) = Verified(d) /\ Sentinels(e) = Sentinels(d)
    BY OtherFiles
  <1>4. \A X : p \notin X => X \cap Present(e) = X \cap Present(d) BY OtherFiles
  <1>5. \A X : p \notin X => Kept(e, X) = Kept(d, X) BY OtherFiles
  <1>6. \A X : Kept(d, X) \subseteq X BY DEF Kept
  <1>7. CASE runtime = "openclaw"
    <2>1. p \notin {Soul, Note, OldStore, Scattered, Skill, Secrets} \cup Inside(d)
      BY <1>7 DEF Reads
    <2> DEFINE X == ({Note, OldStore} \cap Present(d)) \cup ({Soul, Note, Skill, Scattered} \cap Present(d)) \cup Inside(d)
    <2>2. OpenClawRaw(d) = Kept(d, X) \cup Sentinels(d)
      BY PresentContent, ScatteredMarkdown, Zenon DEF OpenClawRaw
    <2>3. OpenClawRaw(e) = Kept(e, ({Note, OldStore} \cap Present(e)) \cup ({Soul, Note, Skill, Scattered} \cap Present(e))
                                   \cup Inside(e)) \cup Sentinels(e)
      BY PresentContent, ScatteredMarkdown, Zenon DEF OpenClawRaw
    <2>4. p \notin X BY <2>1
    <2>5. {Note, OldStore} \cap Present(e) = {Note, OldStore} \cap Present(d) BY <2>1, <1>4
    <2>6. {Soul, Note, Skill, Scattered} \cap Present(e) = {Soul, Note, Skill, Scattered} \cap Present(d)
      BY <2>1, <1>4
    <2>7. OpenClawRaw(e) = Kept(e, X) \cup Sentinels(e) BY <2>3, <2>5, <2>6, <1>3, Zenon
    <2> HIDE DEF X
    <2>8. Kept(e, X) = Kept(d, X) /\ p \notin Kept(d, X) BY <2>4, <1>5, <1>6
    <2>9. Raw(e) = Raw(d) /\ p \notin Raw(d) BY <2>2, <2>7, <2>8, <1>2, <1>3, <1>7 DEF Raw
    <2>10. {Soul, Note, Secrets} \cap Present(e) = {Soul, Note, Secrets} \cap Present(d) BY <2>1, <1>4
    <2>11. LayersBy(e, store) = LayersBy(d, store) /\ p \notin LayersBy(d, store)
      BY <2>1, <2>10, <1>7 DEF LayersBy, Layers, OpenClawLayers
    <2>12. QED BY <2>9, <2>11
  <1>8. CASE runtime = "hermes"
    <2>1. p \notin {Soul, Note, OldStore, Secrets, Store, StoreLog, Skill} \cup Inside(d) \cup Verified(d)
      BY <1>8 DEF Reads
    <2> DEFINE X == {Soul} \cup ({Note, OldStore} \cap Present(d)) \cup Inside(d)
               L == {Soul, Note, Secrets, Store, StoreLog, Skill}
    <2>2. HermesRaw(d) = Kept(d, X) \cup (Verified(d) \cap Present(d)) \cup {RulesFile} \cup Sentinels(d)
      BY PresentContent, Zenon DEF HermesRaw
    <2>3. {Note, OldStore} \cap Present(e) = {Note, OldStore} \cap Present(d) BY <2>1, <1>4
    <2>4. PresentUnder(e, Content) = {Note, OldStore} \cap Present(d) BY <2>3, PresentContent, Zenon
    <2>5. HermesRaw(e) = Kept(e, X) \cup (Verified(d) \cap Present(e)) \cup {RulesFile} \cup Sentinels(d)
      BY <2>4, <1>3, Zenon DEF HermesRaw
    <2>6. p \notin X BY <2>1
    <2> HIDE DEF X
    <2>7. Kept(e, X) = Kept(d, X) /\ p \notin Kept(d, X) BY <2>6, <1>5, <1>6
    <2>8. Verified(d) \cap Present(e) = Verified(d) \cap Present(d) /\ p \notin Verified(d) BY <2>1, <1>4
    <2>9. HermesRaw(e) = HermesRaw(d) /\ p \notin HermesRaw(d) BY <2>2, <2>5, <2>7, <2>8, <1>1, <1>2
    <2>10. p \notin L BY <2>1
    <2>11. L \cap Present(e) = L \cap Present(d) BY <2>10, <1>4, Zenon
    <2>12. HermesLayers(e) = HermesLayers(d) /\ p \notin HermesLayers(d)
      BY <2>10, <2>11, Zenon DEF HermesLayers
    <2>13. Raw(e) = Raw(d) /\ p \notin Raw(d) BY <2>9, <1>8 DEF Raw
    <2>14. LayersBy(e, store) = LayersBy(d, store) /\ p \notin LayersBy(d, store)
      BY <2>12, <1>8 DEF LayersBy, Layers
    <2>15. QED BY <2>13, <2>14
  <1>9. CASE runtime = "zeroclaw"
    <2>1. p \notin {Soul, Note, OldStore, Secrets, d[RulesFile].identity} \cup Inside(d) \cup Trio(store)
      BY <1>9 DEF Reads
    <2> DEFINE X == {Soul} \cup ({Note, OldStore} \cap Present(d)) \cup Inside(d)
               I == {d[RulesFile].identity}
    <2>2. ZeroClawRaw(d) = Kept(d, X) \cup (I \cap Present(d)) \cup {RulesFile} \cup Sentinels(d)
      BY PresentContent, Zenon DEF ZeroClawRaw
    <2>3. {Note, OldStore} \cap Present(e) = {Note, OldStore} \cap Present(d) BY <2>1, <1>4
    <2>4. PresentUnder(e, Content) = {Note, OldStore} \cap Present(d) BY <2>3, PresentContent, Zenon
    <2>5. ZeroClawRaw(e) = Kept(e, X) \cup (I \cap Present(e)) \cup {RulesFile} \cup Sentinels(d)
      BY <2>4, <1>3, Zenon DEF ZeroClawRaw
    <2>6. p \notin X /\ p \notin I BY <2>1
    <2> HIDE DEF X, I
    <2>7. Kept(e, X) = Kept(d, X) /\ p \notin Kept(d, X) BY <2>6, <1>5, <1>6
    <2>8. I \cap Present(e) = I \cap Present(d) BY <2>6, <1>4
    <2>9. ZeroClawRaw(e) = ZeroClawRaw(d) /\ p \notin ZeroClawRaw(d)
      BY <2>2, <2>5, <2>6, <2>7, <2>8, <1>1, <1>2
    <2>10. Raw(e) = Raw(d) /\ p \notin Raw(d) BY <2>9, <1>9 DEF Raw
    <2> DEFINE L == {Soul, Secrets, d[RulesFile].identity}
                    \cup (IF d[store] # Absent THEN Trio(store) ELSE {Note})
    <2>11. p \notin L BY <2>1
    <2>12. store \in Trio(store) BY DEF Trio
    <2>13. e[store] = d[store] BY <2>1, <2>12, InPaths
    <2>14. L \cap Present(e) = L \cap Present(d) BY <2>11, <1>4, Zenon
    <2>15. LayersBy(d, store) = L \cap Present(d) BY <1>9 DEF LayersBy
    <2>16. LayersBy(e, store) = L \cap Present(e) BY <1>3, <1>9, <2>13 DEF LayersBy
    <2>17. p \notin LayersBy(d, store) BY <2>11, <2>15
    <2>18. QED BY <2>10, <2>14, <2>15, <2>16, <2>17, Zenon
  <1>10. CASE runtime = "generic"
    <2> DEFINE rules == d[RulesFile]
               X(f) == (IF "notes" \in rules.sources THEN PresentUnder(f, Content) ELSE {})
                       \cup (IF "store" \in rules.sources THEN {Store} ELSE {})
               Y(f) == (IF Store \in Kept(f, X(f)) THEN {StoreLog} ELSE {}) \cup {rules.identity} \cup Verified(d)
    <2>1. p \notin {Secrets, rules.identity} \cup Inside(d) \cup Verified(d)
      BY <1>10 DEF Reads
    <2>2. /\ "notes" \in rules.sources => p \notin {Note, OldStore}
          /\ "store" \in rules.sources => p \notin {Store, StoreLog}
      BY <1>10 DEF Reads
    <2>3. GenericRaw(d) = Kept(d, X(d)) \cup (Y(d) \cap Present(d)) \cup Kept(d, Inside(d)) \cup {RulesFile} \cup Sentinels(d)
      BY Zenon DEF GenericRaw
    <2>4. GenericRaw(e) = Kept(e, X(e)) \cup (Y(e) \cap Present(e)) \cup Kept(e, Inside(d)) \cup {RulesFile} \cup Sentinels(d)
      BY <1>3, Zenon DEF GenericRaw
    <2>5. "notes" \in rules.sources => PresentUnder(e, Content) = PresentUnder(d, Content)
      BY <2>2, <1>4, PresentContent
    <2>6. X(e) = X(d) BY <2>5
    <2>7. p \notin X(d) BY <2>2, PresentContent
    <2>8. Kept(e, X(d)) = Kept(d, X(d)) /\ p \notin Kept(d, X(d)) BY <2>7, <1>5, <1>6
    <2>9. Y(e) = Y(d) BY <2>6, <2>8
    <2>10. p \notin Y(d)
      <3>1. Store \in Kept(d, X(d)) => "store" \in rules.sources
        <4>1. Store \notin PresentUnder(d, Content) BY PresentContent, Distinct
        <4>2. QED BY <4>1, <1>6
      <3>2. QED BY <3>1, <2>1, <2>2
    <2>11. Kept(e, Inside(d)) = Kept(d, Inside(d)) /\ p \notin Kept(d, Inside(d)) BY <2>1, <1>5, <1>6
    <2> HIDE DEF X, Y
    <2>12. Y(e) \cap Present(e) = Y(d) \cap Present(d) BY <2>9, <2>10, <1>4
    <2>13. Kept(e, X(e)) = Kept(d, X(d)) BY <2>6, <2>8
    <2>14. GenericRaw(e) = GenericRaw(d) BY <2>3, <2>4, <2>11, <2>12, <2>13, Zenon
    <2>15. p \notin GenericRaw(d) BY <2>3, <2>8, <2>10, <2>11, <1>1, <1>2
    <2>16. {Secrets} \cap Present(e) = {Secrets} \cap Present(d) /\ p # Secrets BY <2>1, <1>4
    <2>17. GenericLayers(e) = GenericLayers(d) /\ p \notin GenericLayers(d) BY <2>16 DEF GenericLayers
    <2>18. Raw(e) = Raw(d) /\ p \notin Raw(d) BY <2>14, <2>15, <1>10 DEF Raw
    <2>19. LayersBy(e, store) = LayersBy(d, store) /\ p \notin LayersBy(d, store)
      BY <2>17, <1>10 DEF LayersBy, Layers
    <2>20. QED BY <2>18, <2>19
  <1>11. QED BY <1>7, <1>8, <1>9, <1>10 DEF AllRuntimes

LEMMA PackedPaths ==
  ASSUME NEW d, NEW store, runtime \in AllRuntimes
  PROVE  Raw(d) \subseteq Paths /\ LayersBy(d, store) \subseteq Paths
  <1>1. Present(d) \subseteq Paths BY DEF Present, Paths
  <1>2. Sentinels(d) \subseteq Paths /\ RulesFile \in Paths BY InPaths DEF Sentinels
  <1>3. \A X : Kept(d, X) \subseteq Paths BY <1>1 DEF Kept
  <1>4. OpenClawRaw(d) \subseteq Paths BY <1>2, <1>3 DEF OpenClawRaw
  <1>5. HermesRaw(d) \subseteq Paths BY <1>1, <1>2, <1>3 DEF HermesRaw
  <1>6. ZeroClawRaw(d) \subseteq Paths BY <1>1, <1>2, <1>3 DEF ZeroClawRaw
  <1>7. GenericRaw(d) \subseteq Paths
    <2> DEFINE matched == Kept(d, (IF "notes" \in d[RulesFile].sources THEN PresentUnder(d, Content) ELSE {})
                                   \cup (IF "store" \in d[RulesFile].sources THEN {Store} ELSE {}))
               more == (IF Store \in matched THEN {StoreLog} ELSE {}) \cup {d[RulesFile].identity} \cup Verified(d)
    <2>1. GenericRaw(d) = matched \cup (more \cap Present(d)) \cup Kept(d, Inside(d)) \cup {RulesFile} \cup Sentinels(d)
      BY Zenon DEF GenericRaw
    <2>2. matched \subseteq Paths /\ Kept(d, Inside(d)) \subseteq Paths BY <1>3, Zenon
    <2> HIDE DEF matched, more
    <2>3. QED BY <2>1, <2>2, <1>1, <1>2
  <1>8. Raw(d) \subseteq Paths BY <1>4, <1>5, <1>6, <1>7 DEF Raw, AllRuntimes
  <1>9. LayersBy(d, store) \subseteq Present(d)
    BY DEF LayersBy, Layers, OpenClawLayers, HermesLayers, GenericLayers, AllRuntimes
  <1>10. QED BY <1>1, <1>8, <1>9

LEMMA UnreadFile ==
  ASSUME NEW d, NEW e, NEW store, runtime \in AllRuntimes, store \in {Store, OldStore},
         NEW p \in Plain, p \notin Reads(d, store), \A q \in Paths \ {p} : d[q] = e[q]
  PROVE  ImageBy(e, store) = ImageBy(d, store)
  <1>1. /\ Raw(e) = Raw(d) /\ p \notin Raw(d)
        /\ LayersBy(e, store) = LayersBy(d, store) /\ p \notin LayersBy(d, store)
    BY ReadsSuffice
  <1>2. Raw(d) \subseteq Paths /\ LayersBy(d, store) \subseteq Paths BY PackedPaths
  <1>3. [path \in Raw(e) |-> e[path]] = [path \in Raw(d) |-> d[path]] BY <1>1, <1>2
  <1>4. [path \in LayersBy(e, store) |-> e[path]] = [path \in LayersBy(d, store) |-> d[path]]
    BY <1>1, <1>2
  <1>5. QED BY <1>3, <1>4, Zenon DEF ImageBy

\* What the surface of a disk with the same controls does not cover, no export reads.
LEMMA UnwatchedIsUnread ==
  ASSUME runtime \in AllRuntimes, NEW w, IsDisk(w), NEW d, IsDisk(d), d[RulesFile].valid,
         \A c \in ControlFiles : w[c] = d[c],
         NEW p \in Paths, ~Covered(ComputeSurface(w), p)
  PROVE  p \in Plain \ Reads(d, ResolvedStore(w))
  <1>1. w[IncludeFile] = d[IncludeFile] BY DEF ControlFiles
  <1>2. Inside(w) = Inside(d) /\ Verified(w) = Verified(d) BY <1>1, SameLists
  <1>3. runtime \in {"zeroclaw", "generic"} => w[RulesFile] = d[RulesFile] BY DEF ControlFiles
  <1>4. Inside(d) \subseteq {Note, Other} /\ Verified(d) \subseteq {Outside} BY Listed
  <1>5. p # Nowhere BY Distinct, InPaths
  <1>6. CASE runtime = "openclaw"
    <2>1. p \in {Vcs, Outside} BY <1>6, OpenClawCovers
    <2>2. p \notin {Soul, Note, OldStore, Scattered, Skill, Secrets} \cup Inside(d) BY <2>1, <1>4, Distinct
    <2>3. p \notin Reads(d, ResolvedStore(w)) BY <2>2, <1>6 DEF Reads
    <2>4. QED BY <2>1, <2>3 DEF Plain
  <1>7. CASE runtime = "hermes"
    <2>1. p \notin HermesAlways \cup Inside(d) \cup Verified(d) BY <1>2, <1>7, HermesCovers
    <2>2. p \notin Reads(d, ResolvedStore(w)) BY <2>1, <1>7 DEF Reads, HermesAlways
    <2>3. p \in Plain BY <2>1 DEF Paths, HermesAlways
    <2>4. QED BY <2>2, <2>3
  <1>8. CASE runtime = "zeroclaw"
    <2>1. p \notin ZeroClawAlways \cup Inside(w) \cup Trio(ResolvedStore(w)) \cup ({w[RulesFile].identity} \ {Nowhere})
      BY <1>8, ZeroClawCovers
    <2>2. p \notin ZeroClawAlways \cup Inside(d) \cup Trio(ResolvedStore(w)) \cup {d[RulesFile].identity}
      BY <2>1, <1>2, <1>3, <1>5, <1>8
    <2>3. p \notin Reads(d, ResolvedStore(w)) BY <2>2, <1>8 DEF Reads, ZeroClawAlways
    <2>4. p \in Plain BY <2>1 DEF Paths, ZeroClawAlways
    <2>5. QED BY <2>3, <2>4
  <1>9. CASE runtime = "generic"
    <2> DEFINE notes == IF "notes" \in d[RulesFile].sources THEN {Note, OldStore} ELSE {}
               store == IF "store" \in d[RulesFile].sources THEN {Store, StoreLog} ELSE {}
    <2>1. w[RulesFile] = d[RulesFile] BY <1>3, <1>9
    <2>2. w[RulesFile].valid BY <2>1
    <2>3. p \notin GenericAlways \cup Inside(w) \cup Verified(w)
                     \cup (IF "notes" \in w[RulesFile].sources THEN {Note, OldStore} ELSE {})
                     \cup (IF "store" \in w[RulesFile].sources THEN {Store, StoreLog} ELSE {})
                     \cup ({w[RulesFile].identity} \ {Nowhere})
      BY <1>9, <2>2, GenericCovers, Zenon
    <2>4. p \notin GenericAlways \cup Inside(d) \cup Verified(d) \cup notes \cup store \cup ({d[RulesFile].identity} \ {Nowhere})
      BY <2>1, <2>3, <1>2, Zenon
    <2> HIDE DEF notes, store
    <2>5. p \notin {Secrets, d[RulesFile].identity} \cup Inside(d) \cup Verified(d) \cup notes \cup store
      BY <2>4, <1>5 DEF GenericAlways
    <2>6. Reads(d, ResolvedStore(w)) = {Secrets, d[RulesFile].identity} \cup Inside(d) \cup Verified(d) \cup notes \cup store
      BY <1>9 DEF Reads, notes, store
    <2>7. p \in Plain BY <2>4 DEF Paths, GenericAlways
    <2>8. QED BY <2>5, <2>6, <2>7
  <1>10. QED BY <1>6, <1>7, <1>8, <1>9 DEF AllRuntimes

-----------------------------------------------------------------------------
(***************************************************************************)
(* The inductive invariant of ExportsAreWatched                            *)
(***************************************************************************)
\* The surface is that of w: of each control that w has in another version the
\* loop has an event, or it has read one and will refresh before it syncs.
SurfaceOf(w) ==
  /\ IsDisk(w) /\ surface = ComputeSurface(w)
  /\ \A c \in ControlFiles :
       w[c] # disk[c] => c \in pending \/ (~due /\ refresh /\ ControlId(c) \in dirty)

\* The last export had no store the surface of w does not watch.
NoOtherStore(w) ==
  runtime = "zeroclaw" => DOMAIN base.layers \cap {Store, OldStore} \subseteq Trio(ResolvedStore(w))

NothingToSync == dirty = {} /\ \A path \in pending : ~Watched(surface, path)

\* Without anything to sync, an export of the watched store packs what the last one did.
SyncedBy(w) ==
  Exportable(disk) /\ NoOtherStore(w) /\ NothingToSync => base = ImageBy(disk, ResolvedStore(w))

SurfaceInv ==
  /\ runtime \in AllRuntimes /\ IsDisk(disk)
  /\ pending \subseteq Paths /\ dirty \subseteq Ids(surface)
  /\ \E w : SurfaceOf(w) /\ SyncedBy(w)

\* What a step has to show.
LEMMA SurfaceInvNext ==
  ASSUME runtime' = runtime, runtime \in AllRuntimes, IsDisk(disk'),
         pending' \subseteq Paths, dirty' \subseteq Ids(surface'),
         NEW w, IsDisk(w), surface' = ComputeSurface(w),
         \A c \in ControlFiles :
           w[c] # disk'[c] => c \in pending' \/ (~due' /\ refresh' /\ ControlId(c) \in dirty'),
         /\ Exportable(disk')
         /\ runtime = "zeroclaw" => DOMAIN base'.layers \cap {Store, OldStore} \subseteq Trio(ResolvedStore(w))
         /\ dirty' = {} /\ \A path \in pending' : ~Watched(surface', path)
         => base' = ImageBy(disk', ResolvedStore(w))
  PROVE  SurfaceInv'
  <1>1. /\ IsDisk(disk)' <=> IsDisk(disk')
        /\ IsDisk(w)' <=> IsDisk(w)
    BY DEF IsDisk, RulesOf
  <1>2. ComputeSurface(w)' = ComputeSurface(w) BY DEF ComputeSurface, WatchPaths
  <1>3. ControlFiles' = ControlFiles BY DEF ControlFiles
  <1>4. \A c : ControlId(c)' = ControlId(c) BY DEF ControlId
  <1>5. ImageBy(disk, ResolvedStore(w))' = ImageBy(disk', ResolvedStore(w))
    BY DEF ImageBy, Raw, LayersBy, Layers
  <1>6. SurfaceOf(w)' BY <1>1, <1>2, <1>3, <1>4 DEF SurfaceOf
  <1>7. SyncedBy(w)' BY <1>5 DEF SyncedBy, NoOtherStore, NothingToSync
  <1>8. QED BY <1>1, <1>6, <1>7 DEF SurfaceInv

LEMMA SurfaceInvInit ==
  ASSUME Init
  PROVE  SurfaceInv
  <1>1. runtime \in AllRuntimes BY SurfaceAssumption DEF Init, AllRuntimes
  <1>2. PICK list \in Lists, rules \in RulesOf(runtime), absent \in SomeAbsent :
          disk = [path \in Paths |->
                    CASE path = IncludeFile -> list
                      [] path = RulesFile   -> rules
                      [] path = IgnoreFile  -> {}
                      [] path \in absent \cup {SyncLog} -> Absent
                      [] OTHER -> 1]
    BY DEF Init
  <1>3. IncludeFile \notin absent \cup {SyncLog} /\ RulesFile \notin absent \cup {SyncLog}
    BY Distinct DEF SomeAbsent
  <1>4. disk[IncludeFile] = list
    BY <1>2, <1>3, InPaths, Distinct
  <1>5. disk[RulesFile] = rules
    BY <1>2, <1>3, InPaths, Distinct
  <1>6. list \subseteq Entries BY ListsAssumption
  <1>7. disk = [path \in Paths |-> disk[path]] BY <1>2
  <1>8. IsDisk(disk) BY <1>4, <1>5, <1>6, <1>7 DEF IsDisk
  <1>9. /\ base = Image(disk) /\ surface = ComputeSurface(disk) /\ pending = {} /\ dirty = {}
    BY DEF Init
  <1>10. SurfaceOf(disk) BY <1>8, <1>9 DEF SurfaceOf
  <1>11. SyncedBy(disk) BY <1>1, <1>9, ImageOfItsStore DEF SyncedBy
  <1>12. QED BY <1>1, <1>8, <1>9, <1>10, <1>11 DEF SurfaceInv

LEMMA NewContentsFit ==
  ASSUME NEW path \in Paths, NEW content \in NewContents(path)
  PROVE  /\ path = IncludeFile => content \subseteq Entries
         /\ path = RulesFile => content \in RulesOf(runtime)
  <1>1. NewContents(IncludeFile) = Lists BY Distinct DEF NewContents
  <1>2. NewContents(RulesFile) = RulesOf(runtime) BY Distinct DEF NewContents, Contents
  <1>3. QED BY <1>1, <1>2, ListsAssumption

LEMMA SurfaceInvWrite ==
  ASSUME SurfaceInv, NEW p \in Paths, NEW content \in NewContents(p), Write(p, content)
  PROVE  SurfaceInv'
  <1>1. PICK w : SurfaceOf(w) /\ SyncedBy(w) BY DEF SurfaceInv
  <1>2. /\ runtime \in AllRuntimes /\ IsDisk(disk) /\ pending \subseteq Paths /\ dirty \subseteq Ids(surface)
    BY DEF SurfaceInv
  <1>3. /\ disk' = [disk EXCEPT ![p] = content]
        /\ pending' = pending \cup {q \in {p} : Watched(surface, q)}
        /\ runtime' = runtime /\ base' = base /\ surface' = surface
        /\ refresh' = refresh /\ dirty' = dirty /\ due' = due
    BY DEF Write
  <1>4. /\ disk' = [q \in Paths |-> disk'[q]] /\ disk'[p] = content
        /\ \A q \in Paths \ {p} : disk[q] = disk'[q]
    BY <1>2, <1>3 DEF IsDisk
  <1>5. IncludeFile \in Paths /\ RulesFile \in Paths BY InPaths
  <1>6. IsDisk(disk') BY <1>2, <1>4, <1>5, NewContentsFit DEF IsDisk
  <1>7. IsDisk(w) /\ surface = ComputeSurface(w) BY <1>1 DEF SurfaceOf
  <1>8. \A c \in ControlFiles :
          w[c] # disk'[c] => c \in pending' \/ (~due' /\ refresh' /\ ControlId(c) \in dirty')
    <2>1. SUFFICES ASSUME NEW c \in ControlFiles, w[c] # disk'[c]
                   PROVE  c \in pending' \/ (~due' /\ refresh' /\ ControlId(c) \in dirty')
      OBVIOUS
    <2>2. c \in Paths BY <1>5 DEF ControlFiles
    <2>3. CASE c = p
      <3>1. Watched(surface, c) BY <1>2, <1>7, ControlsAreWatched
      <3>2. QED BY <2>3, <3>1, <1>3
    <2>4. CASE c # p
      <3>1. w[c] # disk[c] BY <2>1, <2>2, <2>4, <1>4
      <3>2. c \in pending \/ (~due /\ refresh /\ ControlId(c) \in dirty) BY <3>1, <1>1 DEF SurfaceOf
      <3>3. QED BY <3>2, <1>3
    <2>5. QED BY <2>3, <2>4
  <1>9. ASSUME Exportable(disk'),
               runtime = "zeroclaw" => DOMAIN base'.layers \cap {Store, OldStore} \subseteq Trio(ResolvedStore(w)),
               dirty' = {}, \A path \in pending' : ~Watched(surface', path)
        PROVE  base' = ImageBy(disk', ResolvedStore(w))
    <2>1. ~Watched(surface, p)
      BY <1>3, <1>9
    <2>2. ~Covered(surface, p)
      BY <2>1, <1>2, <1>7, CoveredIsWatched DEF AllRuntimes
    <2>3. \A c \in ControlFiles : c # p BY <2>1, <1>2, <1>7, ControlsAreWatched
    <2>4. \A c \in ControlFiles : w[c] = disk'[c]
      <3>1. SUFFICES ASSUME NEW c \in ControlFiles, w[c] # disk'[c] PROVE FALSE OBVIOUS
      <3>2. c \in pending' BY <3>1, <1>8, <1>9
      <3>3. Watched(surface', c) BY <1>2, <1>3, <1>7, ControlsAreWatched
      <3>4. QED BY <3>2, <3>3, <1>9
    <2>5. \A c \in ControlFiles : w[c] = disk[c]
      BY <2>3, <2>4, <1>4, <1>5 DEF ControlFiles
    <2>6. disk'[RulesFile].valid BY <1>9 DEF Exportable
    <2>7. p \in Plain \ Reads(disk', ResolvedStore(w))
      BY <2>2, <2>4, <2>6, <1>2, <1>6, <1>7, UnwatchedIsUnread
    <2>8. ResolvedStore(w) \in {Store, OldStore} BY DEF ResolvedStore
    <2>9. ImageBy(disk, ResolvedStore(w)) = ImageBy(disk', ResolvedStore(w))
      <3>1. \A q \in Paths \ {p} : disk'[q] = disk[q] BY <1>4
      <3>2. p \in Plain /\ p \notin Reads(disk', ResolvedStore(w)) BY <2>7
      <3>3. QED BY <3>1, <3>2, <2>8, <1>2, UnreadFile
    <2>10. RulesFile # p BY <2>7, Distinct DEF Plain
    <2>11. Exportable(disk) BY <2>6, <2>10, <1>4, <1>5 DEF Exportable
    <2>12. NoOtherStore(w) /\ NothingToSync BY <1>3, <1>9 DEF NoOtherStore, NothingToSync
    <2>13. base = ImageBy(disk, ResolvedStore(w)) BY <2>11, <2>12, <1>1 DEF SyncedBy
    <2>14. QED BY <2>9, <2>13, <1>3
  <1>10. pending' \subseteq Paths /\ dirty' \subseteq Ids(surface') BY <1>2, <1>3
  <1>11. surface' = ComputeSurface(w) BY <1>3, <1>7
  <1>12. QED BY <1>2, <1>3, <1>6, <1>7, <1>8, <1>9, <1>10, <1>11, SurfaceInvNext

LEMMA SurfaceInvDrain ==
  ASSUME SurfaceInv, NEW p \in pending, Drain(p)
  PROVE  SurfaceInv'
  <1>1. PICK w : SurfaceOf(w) /\ SyncedBy(w) BY DEF SurfaceInv
  <1>2. /\ runtime \in AllRuntimes /\ IsDisk(disk) /\ pending \subseteq Paths /\ dirty \subseteq Ids(surface)
    BY DEF SurfaceInv
  <1>3. /\ ~due /\ due' = due
        /\ pending' = pending \ {p} /\ dirty' = dirty \cup IdsFor(surface, p)
        /\ refresh' = (refresh \/ Resurfaces(surface, IdsFor(surface, p)))
        /\ runtime' = runtime /\ disk' = disk /\ base' = base /\ surface' = surface
    BY Zenon DEF Drain
  <1>4. IsDisk(w) /\ surface = ComputeSurface(w) BY <1>1 DEF SurfaceOf
  <1>5. IdsFor(surface, p) \subseteq Ids(surface) BY IdsCover DEF Ids
  <1>6. \A c \in ControlFiles :
          w[c] # disk'[c] => c \in pending' \/ (~due' /\ refresh' /\ ControlId(c) \in dirty')
    <2>1. SUFFICES ASSUME NEW c \in ControlFiles, w[c] # disk'[c]
                   PROVE  c \in pending' \/ (~due' /\ refresh' /\ ControlId(c) \in dirty')
      OBVIOUS
    <2>2. w[c] # disk[c] BY <2>1, <1>3
    <2>3. c \in pending \/ (~due /\ refresh /\ ControlId(c) \in dirty) BY <2>2, <1>1 DEF SurfaceOf
    <2>4. CASE c = p
      <3>1. ControlId(c) \in IdsFor(surface, p) /\ Resurfaces(surface, IdsFor(surface, p))
        BY <2>4, <1>2, <1>4, ControlsAreWatched
      <3>2. refresh' BY <3>1, <1>3
      <3>3. QED BY <3>1, <3>2, <1>3
    <2>5. CASE c # p
      <3>1. refresh => refresh' BY <1>3
      <3>2. QED BY <2>3, <2>5, <3>1, <1>3
    <2>6. QED BY <2>4, <2>5
  <1>7. ASSUME Exportable(disk'),
               runtime = "zeroclaw" => DOMAIN base'.layers \cap {Store, OldStore} \subseteq Trio(ResolvedStore(w)),
               dirty' = {}, \A path \in pending' : ~Watched(surface', path)
        PROVE  base' = ImageBy(disk', ResolvedStore(w))
    <2>1. ~Watched(surface, p) BY <1>3, <1>7 DEF Watched
    <2>2. NothingToSync BY <2>1, <1>3, <1>7 DEF NothingToSync
    <2>3. Exportable(disk) /\ NoOtherStore(w) BY <1>3, <1>7 DEF NoOtherStore
    <2>4. base = ImageBy(disk, ResolvedStore(w)) BY <2>2, <2>3, <1>1 DEF SyncedBy
    <2>5. QED BY <2>4, <1>3
  <1>8. pending' \subseteq Paths /\ dirty' \subseteq Ids(surface') BY <1>2, <1>3, <1>5
  <1>9. IsDisk(disk') /\ surface' = ComputeSurface(w) BY <1>2, <1>3, <1>4
  <1>10. QED BY <1>2, <1>3, <1>4, <1>6, <1>7, <1>8, <1>9, SurfaceInvNext

LEMMA SurfaceInvTick ==
  ASSUME SurfaceInv, Tick
  PROVE  SurfaceInv'
  <1> DEFINE now == IF refresh THEN ComputeSurface(disk) ELSE surface
             changed == {spec.id : spec \in {spec \in now \cap surface : FingerprintsDiffer(spec, disk, scanned)}}
             news == (IF refresh THEN Redefined(surface, now) ELSE {}) \cup changed
  <1>1. PICK w : SurfaceOf(w) /\ SyncedBy(w) BY DEF SurfaceInv
  <1>2. /\ runtime \in AllRuntimes /\ IsDisk(disk) /\ pending \subseteq Paths /\ dirty \subseteq Ids(surface)
    BY DEF SurfaceInv
  <1>3. /\ surface' = now /\ dirty' = (dirty \cap Ids(now)) \cup news
        /\ runtime' = runtime /\ disk' = disk /\ base' = base /\ pending' = pending
    BY Zenon DEF Tick
  <1>4. IsDisk(w) /\ surface = ComputeSurface(w) BY <1>1 DEF SurfaceOf
  <1>5. dirty' \subseteq Ids(surface')
    <2>1. changed \subseteq Ids(now) BY DEF Ids
    <2>2. Redefined(surface, now) \subseteq Ids(now) BY DEF Redefined, Ids
    <2>3. QED BY <2>1, <2>2, <1>3
  <1>6. pending' \subseteq Paths /\ IsDisk(disk') BY <1>2, <1>3
  <1>7. CASE ~refresh
    <2>1. now = surface BY <1>7
    <2>2. \A c \in ControlFiles :
            w[c] # disk'[c] => c \in pending' \/ (~due' /\ refresh' /\ ControlId(c) \in dirty')
      BY <1>1, <1>3, <1>7 DEF SurfaceOf
    <2>3. ASSUME Exportable(disk'),
                 runtime = "zeroclaw" => DOMAIN base'.layers \cap {Store, OldStore} \subseteq Trio(ResolvedStore(w)),
                 dirty' = {}, \A path \in pending' : ~Watched(surface', path)
          PROVE  base' = ImageBy(disk', ResolvedStore(w))
      <3>1. dirty = {} BY <2>1, <2>3, <1>2, <1>3
      <3>2. NothingToSync BY <3>1, <2>1, <2>3, <1>3 DEF NothingToSync
      <3>3. Exportable(disk) /\ NoOtherStore(w) BY <2>3, <1>3 DEF NoOtherStore
      <3>4. base = ImageBy(disk, ResolvedStore(w)) BY <3>2, <3>3, <1>1 DEF SyncedBy
      <3>5. QED BY <3>4, <1>3
    <2>4. surface' = ComputeSurface(w) BY <2>1, <1>3, <1>4
    <2>5. QED BY <2>2, <2>3, <2>4, <1>2, <1>3, <1>4, <1>5, <1>6, SurfaceInvNext
  <1>8. CASE refresh
    <2>1. now = ComputeSurface(disk) BY <1>8
    <2>2. surface' = ComputeSurface(disk) BY <2>1, <1>3
    <2>3. \A c \in ControlFiles :
            disk[c] # disk'[c] => c \in pending' \/ (~due' /\ refresh' /\ ControlId(c) \in dirty')
      BY <1>3
    <2>4. ASSUME Exportable(disk'),
                 runtime = "zeroclaw" => DOMAIN base'.layers \cap {Store, OldStore} \subseteq Trio(ResolvedStore(disk)),
                 dirty' = {}, \A path \in pending' : ~Watched(surface', path)
          PROVE  base' = ImageBy(disk', ResolvedStore(disk))
      <3>1. dirty \cap Ids(now) = {} /\ Redefined(surface, now) = {} BY <2>4, <1>3, <1>8
      <3>2. \A c \in ControlFiles : w[c] = disk[c]
        <4>1. SUFFICES ASSUME NEW c \in ControlFiles, w[c] # disk[c] PROVE FALSE OBVIOUS
        <4>2. c \in pending \/ ControlId(c) \in dirty BY <4>1, <1>1 DEF SurfaceOf
        <4>3. ControlId(c) \in Ids(now) /\ Watched(now, c) BY <2>1, <1>2, ControlsAreWatched
        <4>4. QED BY <4>2, <4>3, <3>1, <2>4, <1>3
      <3>3. runtime = "zeroclaw" => ResolvedStore(w) = ResolvedStore(disk)
        <4>1. SUFFICES ASSUME runtime = "zeroclaw", ResolvedStore(w) # ResolvedStore(disk) PROVE FALSE OBVIOUS
        <4>2. "brain.db" \in Redefined(ComputeSurface(w), ComputeSurface(disk))
          BY <4>1, <1>2, <1>4, OtherStoreIsNew
        <4>3. QED BY <4>2, <3>1, <2>1, <1>4
      <3>4. ComputeSurface(w) = ComputeSurface(disk) BY <3>2, <3>3, <1>2, <1>4, SameSurface
      <3>5. now = surface BY <3>4, <2>1, <1>4
      <3>6. dirty = {} BY <3>1, <3>5, <1>2
      <3>7. NothingToSync BY <3>5, <3>6, <2>4, <1>3 DEF NothingToSync
      <3>8. Exportable(disk) /\ NoOtherStore(w) BY <2>4, <3>3, <1>3 DEF NoOtherStore
      <3>9. base = ImageBy(disk, ResolvedStore(w)) BY <3>7, <3>8, <1>1 DEF SyncedBy
      <3>10. ImageBy(disk, ResolvedStore(w)) = ImageBy(disk, ResolvedStore(disk))
        <4>1. LayersBy(disk, ResolvedStore(w)) = LayersBy(disk, ResolvedStore(disk))
          BY <3>3 DEF LayersBy
        <4>2. QED BY <4>1, Zenon DEF ImageBy
      <3>11. QED BY <3>9, <3>10, <1>3
    <2>5. PICK d : d = disk OBVIOUS
    <2>6. QED BY <2>2, <2>3, <2>4, <2>5, <1>2, <1>3, <1>5, <1>6, SurfaceInvNext
  <1>9. QED BY <1>7, <1>8

-----------------------------------------------------------------------------
(***************************************************************************)
(* Syncs                                                                   *)
(***************************************************************************)
\* The prune of a sync writes the list and the log.
LEMMA PrunedDisk ==
  ASSUME IsDisk(disk)
  PROVE  /\ IsDisk(Pruned)
         /\ Rewritten \subseteq {IncludeFile, SyncLog}
         /\ \A q \in Paths \ Rewritten : Pruned[q] = disk[q]
         /\ \A c \in ControlFiles : c \notin Rewritten => Pruned[c] = disk[c]
  <1> DEFINE gone == {e \in disk[IncludeFile] : e.kind = "inside" /\ disk[e.path] = Absent}
             left0 == disk[IncludeFile] \ gone
             log == IF disk[SyncLog] = 1 THEN 2 ELSE 1
             after == [[disk EXCEPT ![IncludeFile] = left0] EXCEPT ![SyncLog] = log]
  <1>1. IncludeFile \in Paths /\ SyncLog \in Paths /\ RulesFile \in Paths BY InPaths
  <1>2. DOMAIN disk = Paths BY DEF IsDisk
  <1>3. Pruned = IF gone = {} THEN disk ELSE after
    <2>1. SyncLog # IncludeFile BY Distinct
    <2>2. QED BY <2>1, <1>1, <1>2 DEF Pruned
  <1>4. Rewritten = {path \in {IncludeFile, SyncLog} : Pruned[path] # disk[path]}
    BY Zenon DEF Rewritten
  <1>5. left0 \subseteq Entries BY DEF IsDisk
  <1> HIDE DEF gone, left0, log
  <1>6. after = [path \in Paths |-> after[path]] BY <1>2
  <1>7. after[IncludeFile] = left0 /\ after[RulesFile] = disk[RulesFile]
    BY <1>1, <1>2, Distinct
  <1>8. \A q \in Paths \ {IncludeFile, SyncLog} : after[q] = disk[q] BY <1>2
  <1> HIDE DEF after
  <1>9. IsDisk(after) BY <1>5, <1>6, <1>7 DEF IsDisk
  <1>10. IsDisk(Pruned) BY <1>3, <1>9
  <1>11. Pruned[RulesFile] = disk[RulesFile] BY <1>3, <1>7
  <1>12. \A c \in ControlFiles : c \notin Rewritten => Pruned[c] = disk[c]
    BY <1>4, <1>11 DEF ControlFiles
  <1>13. \A q \in Paths \ Rewritten : Pruned[q] = disk[q] BY <1>3, <1>4, <1>8
  <1>14. QED BY <1>4, <1>10, <1>12, <1>13

\* A sync, of the loop or of somebody else.
LEMMA SurfaceInvExported ==
  ASSUME SurfaceInv, Exported, dirty' \subseteq dirty, ~due => ~due' /\ dirty' = dirty
  PROVE  SurfaceInv'
  <1>1. PICK w : SurfaceOf(w) /\ SyncedBy(w) BY DEF SurfaceInv
  <1>2. /\ runtime \in AllRuntimes /\ IsDisk(disk) /\ pending \subseteq Paths /\ dirty \subseteq Ids(surface)
    BY DEF SurfaceInv
  <1>3. /\ disk' = Pruned
        /\ pending' = pending \cup {path \in Rewritten : Watched(surface, path)}
        /\ base' = IF Exportable(disk') THEN Image(disk') ELSE base
        /\ runtime' = runtime /\ surface' = surface /\ refresh' = refresh
    BY Zenon DEF Exported
  <1>4. IsDisk(w) /\ surface = ComputeSurface(w) BY <1>1 DEF SurfaceOf
  <1>5. /\ IsDisk(disk') /\ Rewritten \subseteq {IncludeFile, SyncLog}
        /\ \A c \in ControlFiles : c \notin Rewritten => disk'[c] = disk[c]
    BY <1>2, <1>3, PrunedDisk
  <1>6. \A c \in ControlFiles :
          w[c] # disk'[c] => c \in pending' \/ (~due' /\ refresh' /\ ControlId(c) \in dirty')
    <2>1. SUFFICES ASSUME NEW c \in ControlFiles, w[c] # disk'[c]
                   PROVE  c \in pending' \/ (~due' /\ refresh' /\ ControlId(c) \in dirty')
      OBVIOUS
    <2>2. CASE c \in Rewritten
      <3>1. Watched(surface, c) BY <1>2, <1>4, ControlsAreWatched
      <3>2. QED BY <2>2, <3>1, <1>3
    <2>3. CASE c \notin Rewritten
      <3>1. w[c] # disk[c] BY <2>1, <2>3, <1>5
      <3>2. c \in pending \/ (~due /\ refresh /\ ControlId(c) \in dirty) BY <3>1, <1>1 DEF SurfaceOf
      <3>3. QED BY <3>2, <1>3
    <2>4. QED BY <2>2, <2>3
  <1>7. ASSUME Exportable(disk'),
               runtime = "zeroclaw" => DOMAIN base'.layers \cap {Store, OldStore} \subseteq Trio(ResolvedStore(w)),
               dirty' = {}, \A path \in pending' : ~Watched(surface', path)
        PROVE  base' = ImageBy(disk', ResolvedStore(w))
    <2>1. base' = Image(disk') BY <1>3, <1>7
    <2>2. DOMAIN base'.layers = Layers(disk') BY <2>1 DEF Image
    <2>3. Image(disk') = ImageBy(disk', ResolvedStore(w))
      BY <2>2, <1>2, <1>7, StoreSeen
    <2>4. QED BY <2>1, <2>3
  <1>8. pending' \subseteq Paths BY <1>2, <1>3, <1>5, InPaths
  <1>9. dirty' \subseteq Ids(surface') BY <1>2, <1>3
  <1>10. surface' = ComputeSurface(w) BY <1>3, <1>4
  <1>11. QED BY <1>2, <1>3, <1>4, <1>5, <1>6, <1>7, <1>8, <1>9, <1>10, SurfaceInvNext

LEMMA SurfaceInvStep ==
  ASSUME SurfaceInv, [Next]_vars
  PROVE  SurfaceInv'
  <1>1. CASE SomeWrite BY <1>1, SurfaceInvWrite DEF SomeWrite
  <1>2. CASE SomeDrain BY <1>2, SurfaceInvDrain DEF SomeDrain
  <1>3. CASE Tick BY <1>3, SurfaceInvTick
  <1>4. CASE Sync
    <2>1. /\ due /\ Exported /\ dirty' = IF Exportable(disk') THEN {} ELSE dirty
      BY <1>4, Zenon DEF Sync
    <2>2. dirty' \subseteq dirty BY <2>1
    <2>3. QED BY <2>1, <2>2, SurfaceInvExported
  <1>5. CASE ManualSync
    <2>1. Exported /\ dirty' = dirty /\ due' = due BY <1>5, Zenon DEF ManualSync
    <2>2. dirty' \subseteq dirty /\ (~due => ~due' /\ dirty' = dirty) BY <2>1
    <2>3. QED BY <2>1, <2>2, SurfaceInvExported
  <1>6. CASE UNCHANGED vars
    <2>1. /\ runtime' = runtime /\ disk' = disk /\ base' = base /\ surface' = surface /\ pending' = pending
          /\ refresh' = refresh /\ dirty' = dirty /\ due' = due
      BY <1>6, Zenon DEF vars
    <2>2. PICK w : SurfaceOf(w) /\ SyncedBy(w) BY DEF SurfaceInv
    <2>3. /\ runtime \in AllRuntimes /\ IsDisk(disk) /\ pending \subseteq Paths /\ dirty \subseteq Ids(surface)
      BY DEF SurfaceInv
    <2>4. IsDisk(w) /\ surface = ComputeSurface(w) BY <2>2 DEF SurfaceOf
    <2>5. \A c \in ControlFiles :
            w[c] # disk'[c] => c \in pending' \/ (~due' /\ refresh' /\ ControlId(c) \in dirty')
      BY <2>1, <2>2 DEF SurfaceOf
    <2>6. ASSUME Exportable(disk'),
                 runtime = "zeroclaw" => DOMAIN base'.layers \cap {Store, OldStore} \subseteq Trio(ResolvedStore(w)),
                 dirty' = {}, \A path \in pending' : ~Watched(surface', path)
          PROVE  base' = ImageBy(disk', ResolvedStore(w))
      BY <2>1, <2>2, <2>6 DEF SyncedBy, NoOtherStore, NothingToSync
    <2>7. pending' \subseteq Paths /\ dirty' \subseteq Ids(surface') BY <2>1, <2>3
    <2>8. IsDisk(disk') /\ surface' = ComputeSurface(w) BY <2>1, <2>3, <2>4
    <2>9. QED BY <2>1, <2>3, <2>4, <2>5, <2>6, <2>7, <2>8, SurfaceInvNext
  <1>7. QED BY <1>1, <1>2, <1>3, <1>4, <1>5, <1>6 DEF Next

\* The surface lags behind the disk only as far as an event of a control, or a
\* refresh that is asked for, will make good (SurfaceDriver, mcp/watch/mod.rs).
THEOREM SurfaceInvHolds == Spec => []SurfaceInv
  BY SurfaceInvInit, SurfaceInvStep, PTL DEF Spec

LEMMA SurfaceInvWatches ==
  ASSUME SurfaceInv
  PROVE  ExportsAreWatched
  <1>1. SUFFICES ASSUME Exportable(disk), StoreIsWatched, NothingToSync
                 PROVE  Image(disk) = base
    BY DEF ExportsAreWatched, NothingToSync
  <1>2. PICK w : SurfaceOf(w) /\ SyncedBy(w) BY DEF SurfaceInv
  <1>3. runtime \in AllRuntimes /\ IsDisk(w) /\ surface = ComputeSurface(w)
    BY <1>2 DEF SurfaceInv, SurfaceOf
  <1>4. runtime = "zeroclaw" => /\ ResolvedStore(w) = ResolvedStore(disk)
                                /\ DOMAIN base.layers \cap {Store, OldStore} \subseteq Trio(ResolvedStore(w))
    <2>1. SUFFICES ASSUME runtime = "zeroclaw"
                   PROVE  /\ ResolvedStore(w) = ResolvedStore(disk)
                          /\ DOMAIN base.layers \cap {Store, OldStore} \subseteq Trio(ResolvedStore(w))
      OBVIOUS
    <2>2. PICK spec \in surface : spec.id = "brain.db" BY <2>1, <1>3, BrainDb
    <2>3. spec.roots = Trio(ResolvedStore(w)) BY <2>1, <2>2, <1>3, BrainDb
    <2>4. /\ spec.roots = Trio(ResolvedStore(disk))
          /\ DOMAIN base.layers \cap {Store, OldStore} \subseteq spec.roots
      BY <2>2, <1>1 DEF StoreIsWatched
    <2>5. ResolvedStore(w) = ResolvedStore(disk)
      BY <2>3, <2>4, Trios, Distinct DEF ResolvedStore
    <2>6. QED BY <2>3, <2>4, <2>5
  <1>5. base = ImageBy(disk, ResolvedStore(w))
    BY <1>1, <1>2, <1>4 DEF SyncedBy, NoOtherStore
  <1>6. LayersBy(disk, ResolvedStore(w)) = LayersBy(disk, ResolvedStore(disk))
    BY <1>4 DEF LayersBy
  <1>7. ImageBy(disk, ResolvedStore(w)) = ImageBy(disk, ResolvedStore(disk))
    BY <1>6, Zenon DEF ImageBy
  <1>8. QED BY <1>3, <1>5, <1>7, ImageOfItsStore

\* Whatever an export would pack differently from the last one, the loop knows of
\* or has an event of: every watch_paths covers what its export reads, whoever
\* writes what and whichever source an event is of (adapter-*/src/watch.rs).
THEOREM ExportsAreWatchedHolds == Spec => []ExportsAreWatched
  BY SurfaceInvHolds, SurfaceInvWatches, PTL

-----------------------------------------------------------------------------
\* A refresh that finds the surface as it was, and no new change below it, asks
\* for no other (SurfaceDriver, mcp/watch/mod.rs).
THEOREM RefreshesSettleHolds == Spec => RefreshesSettle
  <1>1. ASSUME refresh, scanned = disk, surface = ComputeSurface(disk), Tick
        PROVE  ~refresh'
    <2> DEFINE now == IF refresh THEN ComputeSurface(disk) ELSE surface
               changed == {spec.id : spec \in {spec \in now \cap surface : FingerprintsDiffer(spec, disk, scanned)}}
               news == (IF refresh THEN Redefined(surface, now) ELSE {}) \cup changed
    <2>1. refresh' = Resurfaces(now, news) BY <1>1, Zenon DEF Tick
    <2>2. now = surface BY <1>1
    <2>3. Redefined(surface, now) = {} BY <2>2 DEF Redefined, Ids
    <2>4. \A spec : ~FingerprintsDiffer(spec, disk, scanned) BY <1>1 DEF FingerprintsDiffer
    <2>5. changed = {} BY <2>4
    <2>6. news = {} BY <2>3, <2>5
    <2> HIDE DEF now, news
    <2>7. QED BY <2>1, <2>6 DEF Resurfaces
  <1>2. [Next]_vars => [(refresh /\ scanned = disk /\ surface = ComputeSurface(disk) /\ Tick) => ~refresh']_vars
    BY <1>1
  <1>3. QED BY <1>2, PTL DEF Spec, RefreshesSettle

-----------------------------------------------------------------------------
(***************************************************************************)
(* The inductive invariant of TrackedEditsKeepCadence                      *)
(***************************************************************************)
\* The paths whose writes are of the kind "tracked".
TrackedPaths(d) ==
  {SyncLog} \cup (IF runtime = "openclaw" THEN Inside(d)
                  ELSE {IncludeFile, Other} \cup (IF runtime = "zeroclaw" THEN {} ELSE {Outside}))

TrackedIds == {"tracked-files", "tracked-controls"}

Untracked(specs) == {spec \in specs : ~spec.tracked}

Unscanned == {path \in Paths : scanned[path] # disk[path]}

\* As long as nothing else was written, nothing else is to be read or synced, and
\* a refresh would find the other sources as they are.
CadenceInv ==
  touched \subseteq {"tracked"} =>
    /\ Exportable(disk)
    /\ pending \cup Unscanned \subseteq TrackedPaths(disk)
    /\ dirty \subseteq TrackedIds
    /\ Untracked(surface) = Untracked(ComputeSurface(disk))

LEMMA KindTracked ==
  ASSUME IsDisk(disk), runtime \in AllRuntimes, NEW p \in Paths, Kind(p) \in {"tracked"}
  PROVE  p \in TrackedPaths(disk)
  <1> DEFINE packs == Inside(disk) \cup (IF runtime \in {"hermes", "generic"} THEN Verified(disk) ELSE {})
             own == {disk[RulesFile].identity} \cup {file \in Plain : Under(file, Content)}
  <1>1. \/ p = SyncLog
        \/ p = IncludeFile /\ runtime # "openclaw"
        \/ p \in packs \ (IF runtime = "openclaw" THEN {} ELSE own)
    BY DEF Kind
  <1>2. Inside(disk) \subseteq {Note, Other} /\ Verified(disk) \subseteq {Outside} BY Listed
  <1>3. Note \in own
    <2>1. Note \in Plain BY DEF Plain
    <2>2. Under(Note, Content) BY UnderContent, InPaths
    <2>3. QED BY <2>1, <2>2
  <1>4. CASE runtime = "openclaw"
    <2>1. packs = Inside(disk) BY <1>4
    <2>2. p = SyncLog \/ p \in Inside(disk) BY <1>1, <1>4, <2>1
    <2>3. QED BY <2>2, <1>4 DEF TrackedPaths
  <1>5. CASE runtime \in {"hermes", "generic"}
    <2>1. packs \subseteq {Note, Other, Outside} BY <1>2
    <2>2. runtime # "openclaw" /\ runtime # "zeroclaw" BY <1>5
    <2> HIDE DEF packs, own
    <2>3. p \in {SyncLog, IncludeFile, Other, Outside} BY <1>1, <1>3, <2>1, <2>2
    <2>4. QED BY <2>2, <2>3 DEF TrackedPaths
  <1>6. CASE runtime = "zeroclaw"
    <2>1. packs \subseteq {Note, Other} BY <1>2, <1>6
    <2>2. runtime # "openclaw" BY <1>6
    <2> HIDE DEF packs, own
    <2>3. p \in {SyncLog, IncludeFile, Other} BY <1>1, <1>3, <2>1, <2>2
    <2>4. QED BY <2>2, <2>3 DEF TrackedPaths
  <1>7. QED BY <1>4, <1>5, <1>6 DEF AllRuntimes

LEMMA NotUnderTracked ==
  \A p \in {SyncLog, IncludeFile, Other, Outside} :
    ~Under(p, Content) /\ ~Under(p, Skills) /\ ~Under(p, Front(Secrets))
  BY UnderContent, UnderSkills, UnderVault, InPaths, Distinct

LEMMA FileMisses ==
  ASSUME NEW spec, ~spec.recursive, NEW p, p \notin spec.roots
  PROVE  \A root \in spec.roots : ~Covers(spec, root, p)
  BY DEF Covers

LEMMA DirMisses ==
  ASSUME NEW spec, spec.recursive, NEW p, \A root \in spec.roots : ~Under(p, root)
  PROVE  \A root \in spec.roots : ~Covers(spec, root, p)
  BY DEF Covers

LEMMA VaultsMiss ==
  ASSUME NEW p \in {SyncLog, IncludeFile, Other, Outside, Note}
  PROVE  \A root \in Vaults.roots : ~Covers(Vaults, root, p)
  <1>1. Vaults.recursive /\ Vaults.roots = {Front(Secrets)} BY DEF Vaults, Source
  <1>2. ~Under(p, Front(Secrets)) BY UnderVault, InPaths, Distinct
  <1>3. QED BY <1>1, <1>2, DirMisses

LEMMA IgnoresMiss ==
  ASSUME NEW p \in {SyncLog, IncludeFile, Other, Outside, Note}
  PROVE  \A root \in Ignores.roots : ~Covers(Ignores, root, p)
  <1>1. ~Ignores.recursive /\ Ignores.roots = {IgnoreFile} BY DEF Ignores, Source
  <1>2. p # IgnoreFile BY Distinct
  <1>3. QED BY <1>1, <1>2, FileMisses

LEMMA TrackedMarks ==
  ASSUME NEW d
  PROVE  Controls.tracked /\ \A spec \in TrackedRoots(d) : spec.tracked
  BY DEF Controls, TrackedRoots, TrackedFiles, Source

\* No other source covers a tracked path.
LEMMA UntrackedMiss ==
  ASSUME NEW d, IsDisk(d), d[RulesFile].valid, runtime \in AllRuntimes,
         NEW spec \in ComputeSurface(d), ~spec.tracked, NEW p \in TrackedPaths(d)
  PROVE  \A root \in spec.roots : ~Covers(spec, root, p)
  <1>1. Inside(d) \subseteq {Note, Other} BY Listed
  <1>2. spec # Controls /\ spec \notin TrackedRoots(d) BY TrackedMarks
  <1>3. CASE runtime = "openclaw"
    <2> DEFINE tree == Source("workspace", {Workspace}, {Git(Workspace)} \cup OpenClawOwn(d), TRUE, FALSE, FALSE)
               config == Source("openclaw-config", {AgentSet}, {}, FALSE, FALSE, TRUE)
    <2>1. p \in {SyncLog} \cup Inside(d) BY <1>3 DEF TrackedPaths
    <2>2. p \in {SyncLog, IncludeFile, Other, Outside, Note} BY <2>1, <1>1
    <2>3. ComputeSurface(d) = TrackedRoots(d) \cup {tree, Controls, Ignores, config, Vaults}
      BY <1>3, OpenClawSources
    <2>4. tree.exclude = {Git(Workspace)} \cup OpenClawOwn(d) BY DEF Source
    <2>5. ~config.recursive /\ config.roots = {AgentSet} BY DEF Source
    <2> HIDE DEF tree, config
    <2>6. spec \in {tree, Ignores, config, Vaults} BY <2>3, <1>2
    <2>7. CASE spec = tree
      <3>1. p \in OpenClawOwn(d) BY <2>1 DEF OpenClawOwn
      <3>2. p \in {Note, Other, IncludeFile, SyncLog, IgnoreFile} BY <2>1, <1>1
      <3>3. Under(p, p) BY <3>2, UnderFiles, InPaths
      <3>4. QED BY <3>1, <3>3, <2>4, <2>7 DEF Covers
    <2>8. CASE spec = config
      <3>1. p # AgentSet BY <2>2, Distinct
      <3>2. QED BY <3>1, <2>5, <2>8, FileMisses
    <2>9. QED BY <2>2, <2>6, <2>7, <2>8, IgnoresMiss, VaultsMiss
  <1>4. CASE runtime = "hermes"
    <2> DEFINE root0 == Source("root-files", {Soul}, {}, FALSE, FALSE, FALSE)
               content == Source("content", {Content}, {Git(Content)}, TRUE, FALSE, TRUE)
               skills == Source("skills", {Skills}, {Git(Skills)}, TRUE, FALSE, TRUE)
               db == Source("state.db", {Store, StoreLog}, {}, FALSE, FALSE, FALSE)
               config == Source("config", {RulesFile}, {}, FALSE, FALSE, TRUE)
    <2>1. runtime # "openclaw" /\ runtime # "zeroclaw" BY <1>4
    <2>2. p \in {SyncLog, IncludeFile, Other, Outside} BY <2>1 DEF TrackedPaths
    <2>3. ComputeSurface(d) = TrackedRoots(d) \cup {root0, content, skills, db, config, Controls, Ignores, Vaults}
      BY <1>4, HermesSources
    <2>4. ~root0.recursive /\ root0.roots = {Soul} BY DEF Source
    <2>5. content.recursive /\ content.roots = {Content} BY DEF Source
    <2>6. skills.recursive /\ skills.roots = {Skills} BY DEF Source
    <2>7. ~db.recursive /\ db.roots = {Store, StoreLog} BY DEF Source
    <2>8. ~config.recursive /\ config.roots = {RulesFile} BY DEF Source
    <2> HIDE DEF root0, content, skills, db, config
    <2>9. spec \in {root0, content, skills, db, config, Ignores, Vaults} BY <2>3, <1>2
    <2>10. p \notin {Soul, Store, StoreLog, RulesFile} BY <2>2, Distinct
    <2>11. CASE spec \in {root0, db, config} BY <2>4, <2>7, <2>8, <2>10, <2>11, FileMisses
    <2>12. CASE spec \in {content, skills} BY <2>2, <2>5, <2>6, <2>12, NotUnderTracked, DirMisses
    <2>13. QED BY <2>2, <2>9, <2>11, <2>12, IgnoresMiss, VaultsMiss
  <1>5. CASE runtime = "zeroclaw"
    <2> DEFINE db == Source("brain.db", Trio(ResolvedStore(d)), {}, FALSE, FALSE, FALSE)
               root0 == Source("root-files", {Soul}, {}, FALSE, FALSE, FALSE)
               memory == Source("memory", {Content}, {Git(Content)}, TRUE, FALSE, TRUE)
               config == Source("config", {RulesFile}, {}, FALSE, FALSE, TRUE)
               identity == Source("identity", {d[RulesFile].identity}, {}, FALSE, FALSE, FALSE)
    <2>1. runtime # "openclaw" BY <1>5
    <2>2. p \in {SyncLog, IncludeFile, Other} BY <2>1, <1>5 DEF TrackedPaths
    <2>3. ComputeSurface(d) = TrackedRoots(d) \cup {db, root0, memory, config, Controls, Ignores, Vaults}
                              \cup {s \in {identity} : d[RulesFile].identity # Nowhere}
      BY <1>5, ZeroClawSources, Zenon
    <2>4. ~root0.recursive /\ root0.roots = {Soul} BY DEF Source
    <2>5. memory.recursive /\ memory.roots = {Content} BY DEF Source
    <2>6. ~db.recursive /\ db.roots = Trio(ResolvedStore(d)) BY DEF Source
    <2>7. ~config.recursive /\ config.roots = {RulesFile} BY DEF Source
    <2>8. ~identity.recursive /\ identity.roots = {d[RulesFile].identity} BY DEF Source
    <2> HIDE DEF db, root0, memory, config, identity
    <2>9. spec \in {db, root0, memory, config, identity, Ignores, Vaults} BY <2>3, <1>2
    <2>10. p \notin {Soul, RulesFile} BY <2>2, Distinct
    <2>11. p \notin Trio(ResolvedStore(d)) BY <2>2, Trios, Distinct DEF ResolvedStore
    <2>12. p # d[RulesFile].identity
      <3>1. d[RulesFile].identity \in {Nowhere, Scattered, Outside} BY RulesShape DEF AllRuntimes
      <3>2. QED BY <3>1, <2>2, Distinct
    <2>13. CASE spec \in {db, root0, config, identity}
      BY <2>4, <2>6, <2>7, <2>8, <2>10, <2>11, <2>12, <2>13, FileMisses
    <2>14. CASE spec = memory BY <2>2, <2>5, <2>14, NotUnderTracked, DirMisses
    <2>15. QED BY <2>2, <2>9, <2>13, <2>14, IgnoresMiss, VaultsMiss
  <1>6. CASE runtime = "generic"
    <2> DEFINE controls == Source("export-controls", {RulesFile, IgnoreFile}, {}, FALSE, FALSE, TRUE)
               identity == Source("identity", {d[RulesFile].identity}, {}, FALSE, FALSE, FALSE)
    <2>1. runtime # "openclaw" /\ runtime # "zeroclaw" BY <1>6
    <2>2. p \in {SyncLog, IncludeFile, Other, Outside} BY <2>1 DEF TrackedPaths
    <2>3. d[RulesFile] \in RulesOf(runtime) BY DEF IsDisk
    <2>4. ComputeSurface(d) = TrackedRoots(d) \cup {Controls, controls, Vaults}
                              \cup ({s \in {NotesSource} : "notes" \in d[RulesFile].sources}
                                    \cup {s \in {StoreSource} : "store" \in d[RulesFile].sources}
                                    \cup {s \in {identity} : d[RulesFile].identity # Nowhere})
      BY <1>6, <2>3, GenericSources
    <2>5. ~controls.recursive /\ controls.roots = {RulesFile, IgnoreFile} BY DEF Source
    <2>6. ~identity.recursive /\ identity.roots = {d[RulesFile].identity} BY DEF Source
    <2>7. NotesSource.recursive /\ NotesSource.roots = {Content} BY DEF NotesSource, Source
    <2>8. ~StoreSource.recursive /\ StoreSource.roots = {Store, StoreLog} BY DEF StoreSource, Source
    <2> HIDE DEF controls, identity
    <2>9. spec \in {controls, identity, NotesSource, StoreSource, Vaults} BY <2>4, <1>2
    <2>10. p \notin {RulesFile, IgnoreFile, Store, StoreLog} BY <2>2, Distinct
    <2>11. p # d[RulesFile].identity
      <3>1. d[RulesFile].identity \in {Nowhere, Scattered} BY <1>6, RulesShape DEF AllRuntimes
      <3>2. QED BY <3>1, <2>2, Distinct
    <2>12. CASE spec \in {controls, identity, StoreSource}
      BY <2>5, <2>6, <2>8, <2>10, <2>11, <2>12, FileMisses
    <2>13. CASE spec = NotesSource BY <2>2, <2>7, <2>13, NotUnderTracked, DirMisses
    <2>14. QED BY <2>2, <2>9, <2>12, <2>13, VaultsMiss
  <1>7. QED BY <1>3, <1>4, <1>5, <1>6 DEF AllRuntimes

\* The other sources depend on the rules and the store alone.
LEMMA SameUntracked ==
  ASSUME NEW d, IsDisk(d), NEW e, IsDisk(e), runtime \in AllRuntimes,
         runtime = "openclaw" => Inside(d) = Inside(e),
         d[RulesFile] = e[RulesFile],
         runtime = "zeroclaw" => ResolvedStore(d) = ResolvedStore(e)
  PROVE  Untracked(ComputeSurface(d)) \subseteq Untracked(ComputeSurface(e))
  <1>1. SUFFICES ASSUME NEW spec \in ComputeSurface(d), ~spec.tracked
                 PROVE  spec \in ComputeSurface(e)
    BY DEF Untracked
  <1>2. spec \notin TrackedRoots(d) BY <1>1, TrackedMarks
  <1>3. CASE runtime = "openclaw"
    <2> DEFINE rest(f) == {Source("workspace", {Workspace}, {Git(Workspace)} \cup OpenClawOwn(f), TRUE, FALSE, FALSE),
                           Controls, Ignores, Source("openclaw-config", {AgentSet}, {}, FALSE, FALSE, TRUE), Vaults}
    <2>1. OpenClawOwn(d) = OpenClawOwn(e) BY <1>3 DEF OpenClawOwn
    <2>2. rest(d) = rest(e) BY <2>1, Zenon
    <2>3. /\ ComputeSurface(d) = TrackedRoots(d) \cup rest(d)
          /\ ComputeSurface(e) = TrackedRoots(e) \cup rest(e)
      BY <1>3, OpenClawSources, Zenon
    <2> HIDE DEF rest
    <2>4. QED BY <2>2, <2>3, <1>1, <1>2
  <1>4. CASE runtime = "hermes"
    <2> DEFINE rest == {Source("root-files", {Soul}, {}, FALSE, FALSE, FALSE),
                        Source("content", {Content}, {Git(Content)}, TRUE, FALSE, TRUE),
                        Source("skills", {Skills}, {Git(Skills)}, TRUE, FALSE, TRUE),
                        Source("state.db", {Store, StoreLog}, {}, FALSE, FALSE, FALSE),
                        Source("config", {RulesFile}, {}, FALSE, FALSE, TRUE),
                        Controls, Ignores, Vaults}
    <2>1. /\ ComputeSurface(d) = TrackedRoots(d) \cup rest
          /\ ComputeSurface(e) = TrackedRoots(e) \cup rest
      BY <1>4, HermesSources, Zenon
    <2> HIDE DEF rest
    <2>2. QED BY <2>1, <1>1, <1>2
  <1>5. CASE runtime = "zeroclaw"
    <2> DEFINE rest(f) == {Source("brain.db", Trio(ResolvedStore(f)), {}, FALSE, FALSE, FALSE),
                           Source("root-files", {Soul}, {}, FALSE, FALSE, FALSE),
                           Source("memory", {Content}, {Git(Content)}, TRUE, FALSE, TRUE),
                           Source("config", {RulesFile}, {}, FALSE, FALSE, TRUE),
                           Controls, Ignores, Vaults}
               named(f) == {s \in {Source("identity", {f[RulesFile].identity}, {}, FALSE, FALSE, FALSE)} :
                              f[RulesFile].identity # Nowhere}
    <2>1. rest(d) = rest(e) BY <1>5, Zenon
    <2>2. named(d) = named(e) BY Zenon
    <2>3. /\ ComputeSurface(d) = TrackedRoots(d) \cup rest(d) \cup named(d)
          /\ ComputeSurface(e) = TrackedRoots(e) \cup rest(e) \cup named(e)
      BY <1>5, ZeroClawSources, Zenon
    <2> HIDE DEF rest, named
    <2>4. QED BY <2>1, <2>2, <2>3, <1>1, <1>2
  <1>6. CASE runtime = "generic"
    <2> DEFINE rest(f) ==
                 IF f[RulesFile].valid
                 THEN {s \in {NotesSource} : "notes" \in f[RulesFile].sources}
                      \cup {s \in {StoreSource} : "store" \in f[RulesFile].sources}
                      \cup {s \in {Source("identity", {f[RulesFile].identity}, {}, FALSE, FALSE, FALSE)} :
                              f[RulesFile].identity # Nowhere}
                 ELSE {Source("workspace", {Workspace}, {Git(Workspace)}, TRUE, FALSE, FALSE)}
               fixed == {Controls, Source("export-controls", {RulesFile, IgnoreFile}, {}, FALSE, FALSE, TRUE), Vaults}
    <2>1. d[RulesFile] \in RulesOf(runtime) /\ e[RulesFile] \in RulesOf(runtime) BY DEF IsDisk
    <2>2. rest(d) = rest(e) BY Zenon
    <2>3. /\ ComputeSurface(d) = TrackedRoots(d) \cup fixed \cup rest(d)
          /\ ComputeSurface(e) = TrackedRoots(e) \cup fixed \cup rest(e)
      BY <1>6, <2>1, GenericSources, Zenon
    <2> HIDE DEF rest, fixed
    <2>4. QED BY <2>2, <2>3, <1>1, <1>2
  <1>7. QED BY <1>3, <1>4, <1>5, <1>6 DEF AllRuntimes

\* Writes of tracked paths leave what is tracked, the rules and the store.
LEMMA TrackedWrites ==
  ASSUME NEW d, IsDisk(d), NEW e, IsDisk(e), runtime \in AllRuntimes,
         NEW X \in SUBSET TrackedPaths(d), \A q \in Paths \ X : e[q] = d[q]
  PROVE  /\ TrackedPaths(e) = TrackedPaths(d)
         /\ Exportable(e) <=> Exportable(d)
         /\ Untracked(ComputeSurface(e)) = Untracked(ComputeSurface(d))
  <1>1. Inside(d) \subseteq {Note, Other} BY Listed
  <1>2. X \subseteq {SyncLog, IncludeFile, Note, Other, Outside} BY <1>1 DEF TrackedPaths
  <1>3. e[RulesFile] = d[RulesFile] /\ e[Store] = d[Store] /\ e[OldStore] = d[OldStore]
    BY <1>2, InPaths, Distinct
  <1>4. ResolvedStore(e) = ResolvedStore(d) BY <1>3 DEF ResolvedStore
  <1>5. runtime = "openclaw" => Inside(e) = Inside(d)
    <2>1. SUFFICES ASSUME runtime = "openclaw" PROVE Inside(e) = Inside(d) OBVIOUS
    <2>2. X \subseteq {SyncLog, Note, Other} BY <2>1, <1>1 DEF TrackedPaths
    <2>3. e[IncludeFile] = d[IncludeFile] BY <2>2, InPaths, Distinct
    <2>4. QED BY <2>3, SameLists
  <1>6. TrackedPaths(e) = TrackedPaths(d) BY <1>5 DEF TrackedPaths
  <1>7. Exportable(e) <=> Exportable(d) BY <1>3 DEF Exportable
  <1>8. Untracked(ComputeSurface(e)) \subseteq Untracked(ComputeSurface(d))
    BY <1>3, <1>4, <1>5, SameUntracked
  <1>9. Untracked(ComputeSurface(d)) \subseteq Untracked(ComputeSurface(e))
    BY <1>3, <1>4, <1>5, SameUntracked
  <1>10. QED BY <1>6, <1>7, <1>8, <1>9

\* An event or a change of a tracked path is of a tracked source.
LEMMA TrackedSources ==
  ASSUME SurfaceInv, Exportable(disk), Untracked(surface) = Untracked(ComputeSurface(disk)),
         NEW p \in TrackedPaths(disk), NEW spec \in surface, NEW root \in spec.roots, Covers(spec, root, p)
  PROVE  spec.id \in TrackedIds
  <1>1. PICK w : IsDisk(w) /\ surface = ComputeSurface(w) BY DEF SurfaceInv, SurfaceOf
  <1>2. runtime \in AllRuntimes /\ IsDisk(disk) BY DEF SurfaceInv
  <1>3. spec.tracked
    <2>1. SUFFICES ASSUME ~spec.tracked PROVE FALSE OBVIOUS
    <2>2. spec \in ComputeSurface(disk) BY <2>1 DEF Untracked
    <2>3. disk[RulesFile].valid BY DEF Exportable
    <2>4. QED BY <2>1, <2>2, <2>3, <1>2, UntrackedMiss
  <1>4. Shape(spec) BY <1>1, <1>2, SurfaceShape DEF AllRuntimes
  <1>5. QED BY <1>3, <1>4 DEF Shape, TrackedIds

LEMMA CadenceInvInit ==
  ASSUME Init
  PROVE  CadenceInv
  <1>1. disk[RulesFile].valid
    <2>1. PICK list \in Lists, rules \in RulesOf(runtime), absent \in SomeAbsent :
            /\ rules.valid
            /\ disk = [path \in Paths |->
                      CASE path = IncludeFile -> list
                        [] path = RulesFile   -> rules
                        [] path = IgnoreFile  -> {}
                        [] path \in absent \cup {SyncLog} -> Absent
                        [] OTHER -> 1]
      BY DEF Init
    <2>2. RulesFile \notin absent \cup {SyncLog} BY Distinct DEF SomeAbsent
    <2>3. disk[RulesFile] = rules BY <2>1, <2>2, InPaths, Distinct
    <2>4. QED BY <2>1, <2>3
  <1>2. surface = ComputeSurface(disk) /\ pending = {} /\ dirty = {} /\ scanned = disk BY DEF Init
  <1>3. QED BY <1>1, <1>2 DEF CadenceInv, Exportable, Unscanned

\* What a write or a sync has to show.
LEMMA CadenceInvNext ==
  ASSUME SurfaceInv, CadenceInv, touched \subseteq {"tracked"}, runtime' = runtime, IsDisk(disk'),
         NEW X \in SUBSET TrackedPaths(disk), \A q \in Paths \ X : disk'[q] = disk[q],
         pending' \subseteq pending \cup X, dirty' \subseteq dirty,
         surface' = surface, scanned' = scanned
  PROVE  CadenceInv'
  <1>1. runtime \in AllRuntimes /\ IsDisk(disk) BY DEF SurfaceInv
  <1>2. /\ TrackedPaths(disk') = TrackedPaths(disk)
        /\ Exportable(disk') <=> Exportable(disk)
        /\ Untracked(ComputeSurface(disk')) = Untracked(ComputeSurface(disk))
    BY <1>1, TrackedWrites
  <1>3. /\ Exportable(disk) /\ pending \cup Unscanned \subseteq TrackedPaths(disk)
        /\ dirty \subseteq TrackedIds /\ Untracked(surface) = Untracked(ComputeSurface(disk))
    BY DEF CadenceInv
  <1>4. Unscanned' \subseteq Unscanned \cup X BY DEF Unscanned
  <1>5. TrackedPaths(disk)' = TrackedPaths(disk') BY DEF TrackedPaths
  <1>6. ComputeSurface(disk)' = ComputeSurface(disk') BY DEF ComputeSurface, WatchPaths
  <1>7. Exportable(disk)' /\ dirty' \subseteq TrackedIds BY <1>2, <1>3
  <1>8. (pending \cup Unscanned)' \subseteq TrackedPaths(disk)' BY <1>2, <1>3, <1>4, <1>5
  <1>9. Untracked(surface)' = Untracked(ComputeSurface(disk))' BY <1>2, <1>3, <1>6 DEF Untracked
  <1>10. QED BY <1>7, <1>8, <1>9 DEF CadenceInv

LEMMA CadenceInvWrite ==
  ASSUME SurfaceInv, SurfaceInv', CadenceInv, NEW p \in Paths, NEW content, Write(p, content)
  PROVE  CadenceInv'
  <1>1. SUFFICES ASSUME touched' \subseteq {"tracked"} PROVE CadenceInv' BY DEF CadenceInv
  <1>2. /\ disk' = [disk EXCEPT ![p] = content]
        /\ pending' = pending \cup {q \in {p} : Watched(surface, q)}
        /\ touched' = touched \cup {Kind(p)}
        /\ runtime' = runtime /\ surface' = surface /\ dirty' = dirty /\ scanned' = scanned
    BY DEF Write
  <1>3. runtime \in AllRuntimes /\ IsDisk(disk) BY DEF SurfaceInv
  <1>4. touched \subseteq {"tracked"} /\ Kind(p) \in {"tracked"} BY <1>1, <1>2
  <1>5. p \in TrackedPaths(disk) BY <1>3, <1>4, KindTracked
  <1>6. IsDisk(disk')
    <2>1. IsDisk(disk)' BY DEF SurfaceInv
    <2>2. IsDisk(disk)' <=> IsDisk(disk') BY <1>2 DEF IsDisk, RulesOf
    <2>3. QED BY <2>1, <2>2
  <1>7. \A q \in Paths \ {p} : disk'[q] = disk[q] BY <1>2, <1>3 DEF IsDisk
  <1>8. pending' \subseteq pending \cup {p} BY <1>2
  <1>9. {p} \in SUBSET TrackedPaths(disk) BY <1>5
  <1>10. QED BY <1>2, <1>4, <1>6, <1>7, <1>8, <1>9, CadenceInvNext

LEMMA CadenceInvDrain ==
  ASSUME SurfaceInv, CadenceInv, NEW p \in pending, Drain(p)
  PROVE  CadenceInv'
  <1>1. SUFFICES ASSUME touched' \subseteq {"tracked"} PROVE CadenceInv' BY DEF CadenceInv
  <1>2. /\ pending' = pending \ {p} /\ dirty' = dirty \cup IdsFor(surface, p)
        /\ runtime' = runtime /\ disk' = disk /\ surface' = surface /\ scanned' = scanned
        /\ touched' = touched
    BY Zenon DEF Drain
  <1>3. /\ Exportable(disk) /\ pending \cup Unscanned \subseteq TrackedPaths(disk)
        /\ dirty \subseteq TrackedIds /\ Untracked(surface) = Untracked(ComputeSurface(disk))
    BY <1>1, <1>2 DEF CadenceInv
  <1>4. p \in TrackedPaths(disk) BY <1>3
  <1>5. IdsFor(surface, p) \subseteq TrackedIds
    <2>1. SUFFICES ASSUME NEW id \in IdsFor(surface, p) PROVE id \in TrackedIds OBVIOUS
    <2>2. PICK spec \in surface : spec.id = id /\ \E root \in spec.roots : Covers(spec, root, p)
      BY IdsCover
    <2>3. QED BY <2>2, <1>3, <1>4, TrackedSources
  <1>6. TrackedPaths(disk)' = TrackedPaths(disk) BY <1>2 DEF TrackedPaths
  <1>7. ComputeSurface(disk)' = ComputeSurface(disk) BY <1>2 DEF ComputeSurface, WatchPaths
  <1>8. Unscanned' = Unscanned BY <1>2 DEF Unscanned
  <1>9. Exportable(disk)' BY <1>2, <1>3 DEF Exportable
  <1>10. (pending \cup Unscanned)' \subseteq TrackedPaths(disk)' BY <1>2, <1>3, <1>6, <1>8
  <1>11. Untracked(surface)' = Untracked(ComputeSurface(disk))' BY <1>2, <1>3, <1>7 DEF Untracked
  <1>12. dirty' \subseteq TrackedIds BY <1>2, <1>3, <1>5
  <1>13. QED BY <1>9, <1>10, <1>11, <1>12 DEF CadenceInv

LEMMA CadenceInvTick ==
  ASSUME SurfaceInv, CadenceInv, Tick
  PROVE  CadenceInv'
  <1> DEFINE now == IF refresh THEN ComputeSurface(disk) ELSE surface
             changed == {spec.id : spec \in {spec \in now \cap surface : FingerprintsDiffer(spec, disk, scanned)}}
             news == (IF refresh THEN Redefined(surface, now) ELSE {}) \cup changed
  <1>1. SUFFICES ASSUME touched' \subseteq {"tracked"} PROVE CadenceInv' BY DEF CadenceInv
  <1>2. /\ surface' = now /\ dirty' = (dirty \cap Ids(now)) \cup news /\ scanned' = disk
        /\ runtime' = runtime /\ disk' = disk /\ pending' = pending /\ touched' = touched
    BY Zenon DEF Tick
  <1>3. /\ Exportable(disk) /\ pending \cup Unscanned \subseteq TrackedPaths(disk)
        /\ dirty \subseteq TrackedIds /\ Untracked(surface) = Untracked(ComputeSurface(disk))
    BY <1>1, <1>2 DEF CadenceInv
  <1>4. runtime \in AllRuntimes /\ IsDisk(disk) BY DEF SurfaceInv
  <1>5. Untracked(now) = Untracked(ComputeSurface(disk)) BY <1>3
  <1>6. changed \subseteq TrackedIds
    <2>1. SUFFICES ASSUME NEW spec \in now \cap surface, FingerprintsDiffer(spec, disk, scanned)
                   PROVE  spec.id \in TrackedIds
      OBVIOUS
    <2>2. PICK path \in Paths : disk[path] # scanned[path] /\ \E root \in spec.roots : Covers(spec, root, path)
      BY <2>1 DEF FingerprintsDiffer
    <2>3. path \in Unscanned BY <2>2 DEF Unscanned
    <2>4. path \in TrackedPaths(disk) BY <2>3, <1>3
    <2>5. spec \in surface OBVIOUS
    <2>6. QED BY <2>2, <2>4, <2>5, <1>3, TrackedSources
  <1>7. refresh => Redefined(surface, now) \subseteq TrackedIds
    <2>1. SUFFICES ASSUME refresh, NEW spec \in now \ surface PROVE spec.id \in TrackedIds
      BY DEF Redefined, Ids
    <2>2. spec \in ComputeSurface(disk) /\ spec \notin surface BY <2>1
    <2>3. spec.tracked BY <2>2, <1>3 DEF Untracked
    <2>4. Shape(spec) BY <2>2, <1>4, SurfaceShape DEF AllRuntimes
    <2>5. QED BY <2>3, <2>4 DEF Shape, TrackedIds
  <1> HIDE DEF now, changed
  <1>8. dirty' \subseteq TrackedIds BY <1>2, <1>3, <1>6, <1>7
  <1>9. TrackedPaths(disk)' = TrackedPaths(disk) BY <1>2 DEF TrackedPaths
  <1>10. ComputeSurface(disk)' = ComputeSurface(disk) BY <1>2 DEF ComputeSurface, WatchPaths
  <1>11. Unscanned' = {} BY <1>2 DEF Unscanned
  <1>12. Exportable(disk)' BY <1>2, <1>3 DEF Exportable
  <1>13. (pending \cup Unscanned)' \subseteq TrackedPaths(disk)' BY <1>2, <1>3, <1>9, <1>11
  <1>14. Untracked(surface)' = Untracked(ComputeSurface(disk))' BY <1>2, <1>5, <1>10 DEF Untracked
  <1>15. QED BY <1>8, <1>12, <1>13, <1>14 DEF CadenceInv

LEMMA CadenceInvExported ==
  ASSUME SurfaceInv, SurfaceInv', CadenceInv, Exported, dirty' \subseteq dirty,
         touched' = touched \cup {Kind(path) : path \in Rewritten}
  PROVE  CadenceInv'
  <1>1. SUFFICES ASSUME touched' \subseteq {"tracked"} PROVE CadenceInv' BY DEF CadenceInv
  <1>2. /\ disk' = Pruned
        /\ pending' = pending \cup {path \in Rewritten : Watched(surface, path)}
        /\ runtime' = runtime /\ surface' = surface /\ scanned' = scanned
    BY Zenon DEF Exported
  <1>3. runtime \in AllRuntimes /\ IsDisk(disk) BY DEF SurfaceInv
  <1>4. /\ IsDisk(disk') /\ Rewritten \subseteq {IncludeFile, SyncLog}
        /\ \A q \in Paths \ Rewritten : disk'[q] = disk[q]
    BY <1>2, <1>3, PrunedDisk
  <1>5. touched \subseteq {"tracked"} /\ \A path \in Rewritten : Kind(path) \in {"tracked"}
    BY <1>1
  <1>6. Rewritten \subseteq TrackedPaths(disk)
    BY <1>3, <1>4, <1>5, InPaths, KindTracked
  <1>7. pending' \subseteq pending \cup Rewritten BY <1>2
  <1>8. QED BY <1>2, <1>4, <1>5, <1>6, <1>7, CadenceInvNext

LEMMA CadenceInvSync ==
  ASSUME SurfaceInv, SurfaceInv', CadenceInv, Sync
  PROVE  CadenceInv'
  <1>1. /\ Exported
        /\ dirty' = IF Exportable(disk') THEN {} ELSE dirty
        /\ touched' = IF Quiet /\ Rewritten = {} /\ Exportable(disk) THEN {}
                      ELSE touched \cup {Kind(path) : path \in Rewritten}
    BY Zenon DEF Sync
  <1>2. CASE Quiet /\ Rewritten = {} /\ Exportable(disk)
    <2>1. /\ disk' = Pruned /\ runtime' = runtime /\ surface' = surface /\ scanned' = scanned
          /\ pending' = pending \cup {path \in Rewritten : Watched(surface, path)}
      BY <1>1, Zenon DEF Exported
    <2>2. IsDisk(disk) BY DEF SurfaceInv
    <2>3. IsDisk(disk') /\ \A q \in Paths \ Rewritten : disk'[q] = disk[q] BY <2>1, <2>2, PrunedDisk
    <2>4. disk' = disk BY <1>2, <2>2, <2>3 DEF IsDisk
    <2>5. pending' = {} /\ scanned = disk /\ surface = ComputeSurface(disk) BY <1>2, <2>1 DEF Quiet
    <2>6. Exportable(disk)' BY <1>2, <2>4 DEF Exportable
    <2>7. dirty' = {} BY <1>1, <1>2, <2>4
    <2>8. Unscanned' = {} BY <2>1, <2>4, <2>5 DEF Unscanned
    <2>9. ComputeSurface(disk)' = ComputeSurface(disk) BY <2>1, <2>4 DEF ComputeSurface, WatchPaths
    <2>10. Untracked(surface)' = Untracked(ComputeSurface(disk))' BY <2>1, <2>5, <2>9 DEF Untracked
    <2>11. QED BY <2>5, <2>6, <2>7, <2>8, <2>10 DEF CadenceInv
  <1>3. CASE ~(Quiet /\ Rewritten = {} /\ Exportable(disk))
    <2>1. touched' = touched \cup {Kind(path) : path \in Rewritten} BY <1>1, <1>3
    <2>2. dirty' \subseteq dirty BY <1>1
    <2>3. QED BY <2>1, <2>2, <1>1, CadenceInvExported
  <1>4. QED BY <1>2, <1>3

LEMMA CadenceInvStep ==
  ASSUME SurfaceInv, SurfaceInv', CadenceInv, [Next]_vars
  PROVE  CadenceInv'
  <1>1. CASE SomeWrite BY <1>1, CadenceInvWrite DEF SomeWrite
  <1>2. CASE SomeDrain BY <1>2, CadenceInvDrain DEF SomeDrain
  <1>3. CASE Tick BY <1>3, CadenceInvTick
  <1>4. CASE Sync BY <1>4, CadenceInvSync
  <1>5. CASE ManualSync
    <2>1. /\ Exported /\ dirty' = dirty
          /\ touched' = touched \cup {Kind(path) : path \in Rewritten}
      BY <1>5, Zenon DEF ManualSync
    <2>2. QED BY <2>1, CadenceInvExported
  <1>6. CASE UNCHANGED vars
    <2>1. /\ runtime' = runtime /\ disk' = disk /\ surface' = surface /\ pending' = pending
          /\ dirty' = dirty /\ scanned' = scanned /\ touched' = touched
      BY <1>6, Zenon DEF vars
    <2>2. TrackedPaths(disk)' = TrackedPaths(disk) BY <2>1 DEF TrackedPaths
    <2>3. ComputeSurface(disk)' = ComputeSurface(disk) BY <2>1 DEF ComputeSurface, WatchPaths
    <2>4. Unscanned' = Unscanned /\ (Exportable(disk)' <=> Exportable(disk)) BY <2>1 DEF Unscanned, Exportable
    <2>5. Untracked(surface)' = Untracked(surface) BY <2>1 DEF Untracked
    <2>6. Untracked(ComputeSurface(disk))' = Untracked(ComputeSurface(disk)) BY <2>3 DEF Untracked
    <2>7. QED BY <2>1, <2>2, <2>4, <2>5, <2>6 DEF CadenceInv
  <1>7. QED BY <1>1, <1>2, <1>3, <1>4, <1>5, <1>6 DEF Next

LEMMA CadenceInvKeeps ==
  ASSUME SurfaceInv, CadenceInv
  PROVE  TrackedEditsKeepCadence
  <1>1. PICK w : IsDisk(w) /\ surface = ComputeSurface(w) BY DEF SurfaceInv, SurfaceOf
  <1>2. \A spec \in surface : Shape(spec) BY <1>1, SurfaceShape DEF SurfaceInv, AllRuntimes
  <1>3. QED BY <1>2 DEF CadenceInv, TrackedEditsKeepCadence, Shape, TrackedIds

\* As long as only tracked files change, only tracked sources are dirty: no other
\* source covers a tracked path, and no refresh finds one defined anew, so that the
\* snapshot each change costs waits for the tracked interval (RF-010).
THEOREM TrackedEditsKeepCadenceHolds == Spec => []TrackedEditsKeepCadence
  <1>1. Init => CadenceInv BY CadenceInvInit
  <1>2. SurfaceInv /\ SurfaceInv' /\ CadenceInv /\ [Next]_vars => CadenceInv' BY CadenceInvStep
  <1>3. SurfaceInv /\ CadenceInv => TrackedEditsKeepCadence BY CadenceInvKeeps
  <1>4. QED BY <1>1, <1>2, <1>3, SurfaceInvHolds, PTL DEF Spec

-----------------------------------------------------------------------------
(***************************************************************************)
(* Types                                                                   *)
(***************************************************************************)
\* A source is known by its id.
LEMMA UniqueIds ==
  ASSUME NEW w, IsDisk(w), runtime \in AllRuntimes,
         NEW one \in ComputeSurface(w), NEW two \in ComputeSurface(w), one.id = two.id
  PROVE  one = two
  <1>1. /\ Controls.id = "tracked-controls" /\ Ignores.id = "export-controls" /\ Vaults.id = "agent-vault"
        /\ NotesSource.id = "notes" /\ StoreSource.id = "store"
    BY DEF Controls, Ignores, Vaults, NotesSource, StoreSource, Source
  <1>2. TrackedRoots(w) \subseteq {TrackedFiles(w)} /\ TrackedFiles(w).id = "tracked-files"
    BY DEF TrackedRoots, TrackedFiles, Source
  <1> DEFINE tracked == TrackedFiles(w)
  <1> HIDE DEF tracked
  <1>3. CASE runtime = "openclaw"
    <2> DEFINE tree == Source("workspace", {Workspace}, {Git(Workspace)} \cup OpenClawOwn(w), TRUE, FALSE, FALSE)
               config == Source("openclaw-config", {AgentSet}, {}, FALSE, FALSE, TRUE)
    <2>1. ComputeSurface(w) = TrackedRoots(w) \cup {tree, Controls, Ignores, config, Vaults}
      BY <1>3, OpenClawSources
    <2>2. tree.id = "workspace" /\ config.id = "openclaw-config" BY DEF Source
    <2> HIDE DEF tree, config
    <2>3. one \in {tracked, tree, Controls, Ignores, config, Vaults} BY <2>1, <1>2 DEF tracked
    <2>4. two \in {tracked, tree, Controls, Ignores, config, Vaults} BY <2>1, <1>2 DEF tracked
    <2>5. tracked.id = "tracked-files" BY <1>2 DEF tracked
    <2>6. QED BY <2>2, <2>3, <2>4, <2>5, <1>1
  <1>4. CASE runtime = "hermes"
    <2> DEFINE root0 == Source("root-files", {Soul}, {}, FALSE, FALSE, FALSE)
               content == Source("content", {Content}, {Git(Content)}, TRUE, FALSE, TRUE)
               skills == Source("skills", {Skills}, {Git(Skills)}, TRUE, FALSE, TRUE)
               db == Source("state.db", {Store, StoreLog}, {}, FALSE, FALSE, FALSE)
               config == Source("config", {RulesFile}, {}, FALSE, FALSE, TRUE)
    <2>1. ComputeSurface(w) = TrackedRoots(w) \cup {root0, content, skills, db, config, Controls, Ignores, Vaults}
      BY <1>4, HermesSources
    <2>2. /\ root0.id = "root-files" /\ content.id = "content" /\ skills.id = "skills"
          /\ db.id = "state.db" /\ config.id = "config"
      BY DEF Source
    <2> HIDE DEF root0, content, skills, db, config
    <2>3. one \in {tracked, root0, content, skills, db, config, Controls, Ignores, Vaults} BY <2>1, <1>2 DEF tracked
    <2>4. two \in {tracked, root0, content, skills, db, config, Controls, Ignores, Vaults} BY <2>1, <1>2 DEF tracked
    <2>5. tracked.id = "tracked-files" BY <1>2 DEF tracked
    <2>6. QED BY <2>2, <2>3, <2>4, <2>5, <1>1
  <1>5. CASE runtime = "zeroclaw"
    <2> DEFINE db == Source("brain.db", Trio(ResolvedStore(w)), {}, FALSE, FALSE, FALSE)
               root0 == Source("root-files", {Soul}, {}, FALSE, FALSE, FALSE)
               memory == Source("memory", {Content}, {Git(Content)}, TRUE, FALSE, TRUE)
               config == Source("config", {RulesFile}, {}, FALSE, FALSE, TRUE)
               identity == Source("identity", {w[RulesFile].identity}, {}, FALSE, FALSE, FALSE)
    <2>1. ComputeSurface(w) = TrackedRoots(w) \cup {db, root0, memory, config, Controls, Ignores, Vaults}
                              \cup {s \in {identity} : w[RulesFile].identity # Nowhere}
      BY <1>5, ZeroClawSources, Zenon
    <2>2. /\ db.id = "brain.db" /\ root0.id = "root-files" /\ memory.id = "memory"
          /\ config.id = "config" /\ identity.id = "identity"
      BY DEF Source
    <2> HIDE DEF db, root0, memory, config, identity
    <2>3. one \in {tracked, db, root0, memory, config, identity, Controls, Ignores, Vaults} BY <2>1, <1>2 DEF tracked
    <2>4. two \in {tracked, db, root0, memory, config, identity, Controls, Ignores, Vaults} BY <2>1, <1>2 DEF tracked
    <2>5. tracked.id = "tracked-files" BY <1>2 DEF tracked
    <2>6. QED BY <2>2, <2>3, <2>4, <2>5, <1>1
  <1>6. CASE runtime = "generic"
    <2> DEFINE controls == Source("export-controls", {RulesFile, IgnoreFile}, {}, FALSE, FALSE, TRUE)
               identity == Source("identity", {w[RulesFile].identity}, {}, FALSE, FALSE, FALSE)
               tree == Source("workspace", {Workspace}, {Git(Workspace)}, TRUE, FALSE, FALSE)
    <2>1. w[RulesFile] \in RulesOf(runtime) BY DEF IsDisk
    <2>2. ComputeSurface(w) = TrackedRoots(w) \cup {Controls, controls, Vaults}
                              \cup (IF w[RulesFile].valid
                                    THEN {s \in {NotesSource} : "notes" \in w[RulesFile].sources}
                                         \cup {s \in {StoreSource} : "store" \in w[RulesFile].sources}
                                         \cup {s \in {identity} : w[RulesFile].identity # Nowhere}
                                    ELSE {tree})
      BY <1>6, <2>1, GenericSources, Zenon
    <2>3. controls.id = "export-controls" /\ identity.id = "identity" /\ tree.id = "workspace" BY DEF Source
    <2> HIDE DEF controls, identity, tree
    <2>4. one \in {tracked, Controls, controls, Vaults, NotesSource, StoreSource, identity, tree}
      BY <2>2, <1>2 DEF tracked
    <2>5. two \in {tracked, Controls, controls, Vaults, NotesSource, StoreSource, identity, tree}
      BY <2>2, <1>2 DEF tracked
    <2>6. tracked.id = "tracked-files" BY <1>2 DEF tracked
    <2>7. QED BY <2>3, <2>4, <2>5, <2>6, <1>1
  <1>7. QED BY <1>3, <1>4, <1>5, <1>6 DEF AllRuntimes

\* What SurfaceInv leaves of SurfaceTypeOK.
Typed ==
  /\ \A path \in Paths : disk[path] \in Contents(path)
  /\ DOMAIN scanned = Paths
  /\ refresh \in BOOLEAN /\ due \in BOOLEAN
  /\ touched \subseteq {"plain", "tracked"}
  /\ left \in 0..MaxEdits

LEMMA TypedInit ==
  ASSUME Init
  PROVE  Typed
  <1>1. PICK list \in Lists, rules \in RulesOf(runtime), absent \in SomeAbsent :
          disk = [path \in Paths |->
                    CASE path = IncludeFile -> list
                      [] path = RulesFile   -> rules
                      [] path = IgnoreFile  -> {}
                      [] path \in absent \cup {SyncLog} -> Absent
                      [] OTHER -> 1]
    BY DEF Init
  <1>2. absent \cup {SyncLog} \subseteq Paths \ {IncludeFile, RulesFile, IgnoreFile}
    BY InPaths, Distinct DEF SomeAbsent
  <1>3. Absent \in Versions /\ 1 \in Versions BY DEF Absent, Versions
  <1>4. \A path \in Paths : disk[path] \in Contents(path)
    <2>1. SUFFICES ASSUME NEW path \in Paths PROVE disk[path] \in Contents(path) OBVIOUS
    <2>2. CASE path = IncludeFile
      <3>1. disk[path] = list BY <1>1, <1>2, <2>2, Distinct
      <3>2. QED BY <3>1, <2>2, ListsAssumption, Distinct DEF Contents
    <2>3. CASE path = RulesFile
      <3>1. disk[path] = rules BY <1>1, <1>2, <2>3, Distinct
      <3>2. QED BY <3>1, <2>3, Distinct DEF Contents
    <2>4. CASE path = IgnoreFile
      <3>1. disk[path] = {} BY <1>1, <1>2, <2>4, Distinct
      <3>2. QED BY <3>1, <2>4, Distinct DEF Contents
    <2>5. CASE path \notin {IncludeFile, RulesFile, IgnoreFile}
      <3>1. disk[path] \in {Absent, 1} BY <1>1, <2>5
      <3>2. QED BY <3>1, <2>5, <1>3 DEF Contents
    <2>6. QED BY <2>2, <2>3, <2>4, <2>5
  <1>5. scanned = disk /\ refresh = FALSE /\ due = FALSE /\ touched = {} /\ left = MaxEdits BY DEF Init
  <1>6. DOMAIN scanned = Paths BY <1>1, <1>5
  <1>7. left \in 0..MaxEdits BY <1>5, SurfaceAssumption
  <1>8. refresh \in BOOLEAN /\ due \in BOOLEAN BY <1>5
  <1>9. touched \subseteq {"plain", "tracked"} BY <1>5
  <1>10. QED BY <1>4, <1>6, <1>7, <1>8, <1>9 DEF Typed

LEMMA NewContentsTyped ==
  ASSUME NEW path \in Paths, NEW content \in NewContents(path)
  PROVE  content \in Contents(path)
  <1>1. NewContents(IncludeFile) = Lists /\ Contents(IncludeFile) = SUBSET Entries
    BY Distinct DEF NewContents, Contents
  <1>2. CASE path = IncludeFile BY <1>1, <1>2, ListsAssumption
  <1>3. CASE path # IncludeFile
    <2>1. NewContents(path) \in {{}, Contents(path)} BY <1>3 DEF NewContents
    <2>2. QED BY <2>1
  <1>4. QED BY <1>2, <1>3

LEMMA KindTyped == \A path : Kind(path) \in {"plain", "tracked"}
  BY DEF Kind

LEMMA TypedExported ==
  ASSUME SurfaceInv, Typed, Exported, due' \in BOOLEAN,
         touched' \subseteq touched \cup {Kind(path) : path \in Rewritten}
  PROVE  Typed'
  <1> DEFINE gone == {e \in disk[IncludeFile] : e.kind = "inside" /\ disk[e.path] = Absent}
             log == IF disk[SyncLog] = 1 THEN 2 ELSE 1
  <1>1. /\ disk' = Pruned /\ runtime' = runtime /\ refresh' = refresh /\ scanned' = scanned /\ left' = left
    BY Zenon DEF Exported
  <1>2. IsDisk(disk) /\ DOMAIN disk = Paths BY DEF SurfaceInv, IsDisk
  <1>3. IncludeFile \in Paths /\ SyncLog \in Paths /\ SyncLog # IncludeFile BY InPaths, Distinct
  <1>4. \A path \in Paths : disk[path] \in Contents(path) BY DEF Typed
  <1>5. /\ \A path \in Paths \ {IncludeFile, SyncLog} : Pruned[path] = disk[path]
        /\ Pruned[IncludeFile] \subseteq disk[IncludeFile]
        /\ Pruned[SyncLog] \in {disk[SyncLog], log}
    BY <1>2, <1>3 DEF Pruned
  <1>6. Contents(IncludeFile) = SUBSET Entries /\ Contents(SyncLog) = Versions
    BY Distinct DEF Contents
  <1>7. log \in Versions BY DEF Versions
  <1>8. \A path \in Paths : Pruned[path] \in Contents(path)
    <2>1. Pruned[IncludeFile] \in Contents(IncludeFile) BY <1>3, <1>4, <1>5, <1>6
    <2>2. Pruned[SyncLog] \in Contents(SyncLog) BY <1>3, <1>4, <1>5, <1>6, <1>7
    <2>3. QED BY <2>1, <2>2, <1>4, <1>5
  <1>9. \A path : Contents(path)' = Contents(path) BY <1>1 DEF Contents, RulesOf
  <1>10. touched' \subseteq {"plain", "tracked"} BY KindTyped DEF Typed
  <1>11. QED BY <1>1, <1>8, <1>9, <1>10 DEF Typed

LEMMA TypedStep ==
  ASSUME SurfaceInv, Typed, [Next]_vars
  PROVE  Typed'
  <1>1. CASE SomeWrite
    <2>1. PICK p \in Paths : \E content \in NewContents(p) : Write(p, content) BY <1>1 DEF SomeWrite
    <2>2. PICK content \in NewContents(p) : Write(p, content) BY <2>1
    <2>3. /\ left > 0 /\ left' = left - 1 /\ disk' = [disk EXCEPT ![p] = content]
          /\ touched' = touched \cup {Kind(p)}
          /\ runtime' = runtime /\ refresh' = refresh /\ scanned' = scanned /\ due' = due
      BY <2>2 DEF Write
    <2>4. content \in Contents(p) BY NewContentsTyped
    <2>5. DOMAIN disk = Paths BY DEF SurfaceInv, IsDisk
    <2>6. \A path \in Paths : disk'[path] \in Contents(path) BY <2>3, <2>4, <2>5 DEF Typed
    <2>7. \A path : Contents(path)' = Contents(path) BY <2>3 DEF Contents, RulesOf
    <2>8. touched' \subseteq {"plain", "tracked"} BY <2>3, KindTyped DEF Typed
    <2>9. left' \in 0..MaxEdits BY <2>3, SurfaceAssumption DEF Typed
    <2>10. QED BY <2>3, <2>6, <2>7, <2>8, <2>9 DEF Typed
  <1>2. CASE SomeDrain
    <2>1. PICK p \in pending : Drain(p) BY <1>2 DEF SomeDrain
    <2>2. /\ runtime' = runtime /\ disk' = disk /\ scanned' = scanned /\ due' = due /\ touched' = touched
          /\ left' = left
      BY <2>1, Zenon DEF Drain
    <2>3. refresh' \in BOOLEAN BY <2>1 DEF Drain
    <2>4. \A path : Contents(path)' = Contents(path) BY <2>2 DEF Contents, RulesOf
    <2>5. QED BY <2>2, <2>3, <2>4 DEF Typed
  <1>3. CASE Tick
    <2>1. /\ runtime' = runtime /\ disk' = disk /\ scanned' = disk /\ touched' = touched /\ left' = left
      BY <1>3, Zenon DEF Tick
    <2>2. due' \in {FALSE, dirty' # {}} BY <1>3, Zenon DEF Tick
    <2>3. due' \in BOOLEAN BY <2>2
    <2>4. refresh' \in BOOLEAN BY <1>3 DEF Tick, Resurfaces
    <2>5. \A path : Contents(path)' = Contents(path) BY <2>1 DEF Contents, RulesOf
    <2>6. DOMAIN scanned' = Paths BY <2>1 DEF SurfaceInv, IsDisk
    <2>7. QED BY <2>1, <2>3, <2>4, <2>5, <2>6 DEF Typed
  <1>4. CASE Sync
    <2>1. /\ Exported /\ due' = FALSE
          /\ touched' = IF Quiet /\ Rewritten = {} /\ Exportable(disk) THEN {}
                        ELSE touched \cup {Kind(path) : path \in Rewritten}
      BY <1>4, Zenon DEF Sync
    <2>2. touched' \subseteq touched \cup {Kind(path) : path \in Rewritten} BY <2>1
    <2>3. QED BY <2>1, <2>2, TypedExported
  <1>5. CASE ManualSync
    <2>1. /\ Exported /\ due' = due /\ touched' = touched \cup {Kind(path) : path \in Rewritten}
      BY <1>5, Zenon DEF ManualSync
    <2>2. due' \in BOOLEAN BY <2>1 DEF Typed
    <2>3. QED BY <2>1, <2>2, TypedExported
  <1>6. CASE UNCHANGED vars
    <2>1. /\ runtime' = runtime /\ disk' = disk /\ scanned' = scanned /\ due' = due /\ touched' = touched
          /\ left' = left /\ refresh' = refresh
      BY <1>6, Zenon DEF vars
    <2>2. \A path : Contents(path)' = Contents(path) BY <2>1 DEF Contents, RulesOf
    <2>3. QED BY <2>1, <2>2 DEF Typed
  <1>7. QED BY <1>1, <1>2, <1>3, <1>4, <1>5, <1>6 DEF Next

LEMMA TypedSurface ==
  ASSUME SurfaceInv, Typed
  PROVE  SurfaceTypeOK
  <1>1. PICK w : IsDisk(w) /\ surface = ComputeSurface(w) BY DEF SurfaceInv, SurfaceOf
  <1>2. \A one, two \in surface : one.id = two.id => one = two BY <1>1, UniqueIds DEF SurfaceInv
  <1>3. DOMAIN disk = Paths BY DEF SurfaceInv, IsDisk
  <1>4. QED BY <1>2, <1>3 DEF SurfaceInv, Typed, SurfaceTypeOK

\* The state has its types: among them, no two sources of a surface share an id, so
\* that an id in the dirty set says which source it is (WatchSpec, alf-core adapter.rs).
THEOREM SurfaceTypeHolds == Spec => []SurfaceTypeOK
  <1>1. Init => Typed BY TypedInit
  <1>2. SurfaceInv /\ Typed /\ [Next]_vars => Typed' BY TypedStep
  <1>3. SurfaceInv /\ Typed => SurfaceTypeOK BY TypedSurface
  <1>4. QED BY <1>1, <1>2, <1>3, SurfaceInvHolds, PTL DEF Spec
=============================================================================
