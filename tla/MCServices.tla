----------------------------- MODULE MCServices -----------------------------
(* Small instances of the services around the FTP code, which share nothing *)
(* with one another: a behaviour is of one of them.                         *)
EXTENDS JobSchedule, BackgroundJobs, RowSweep, Retention, HourCoverage,
        RolloverFamily, MemberDirectory, SearchPages, CollectFiles,
        UrlShortener, Reindex

VARIABLE part   \* the service that moves

Parts == {"schedule", "jobs", "sweep", "retention", "coverage",
          "families", "members", "search", "files", "links", "reindex"}

MCInit ==
  /\ part \in Parts
  /\ SchedInit /\ RegistryInit /\ CoverageInit /\ MemberInit /\ ShortenerInit
  /\ SweepInit /\ (part # "sweep" => rows = 1)
  /\ RetentionInit /\ (part # "retention" => rule = "age")
  /\ FamilyInit /\ (part # "families" => family = SemMsrInfo)
  /\ SearchInit /\ (part # "search" => unchanged = {} /\ sorting = "none" /\ maxRows = 0)
  /\ CollectInit /\ (part # "files" => fleet = {} /\ sink = "collect_fleet")
  /\ ReindexInit /\ (part # "reindex" => source = [d \in Docs |-> 0])

MCNext ==
  \/ /\ part = "schedule" /\ SchedNext
     /\ UNCHANGED <<part, registryVars, sweepVars, retentionVars, coverageVars, familyVars,
                    memberVars, searchVars, collectVars, shortenerVars, reindexVars>>
  \/ /\ part = "jobs" /\ RegistryNext
     /\ UNCHANGED <<part, schedVars, sweepVars, retentionVars, coverageVars, familyVars,
                    memberVars, searchVars, collectVars, shortenerVars, reindexVars>>
  \/ /\ part = "sweep" /\ SweepNext
     /\ UNCHANGED <<part, schedVars, registryVars, retentionVars, coverageVars, familyVars,
                    memberVars, searchVars, collectVars, shortenerVars, reindexVars>>
  \/ /\ part = "retention" /\ RetentionNext
     /\ UNCHANGED <<part, schedVars, registryVars, sweepVars, coverageVars, familyVars,
                    memberVars, searchVars, collectVars, shortenerVars, reindexVars>>
  \/ /\ part = "coverage" /\ CoverageNext
     /\ UNCHANGED <<part, schedVars, registryVars, sweepVars, retentionVars, familyVars,
                    memberVars, searchVars, collectVars, shortenerVars, reindexVars>>
  \/ /\ part = "families" /\ FamilyNext
     /\ UNCHANGED <<part, schedVars, registryVars, sweepVars, retentionVars, coverageVars,
                    memberVars, searchVars, collectVars, shortenerVars, reindexVars>>
  \/ /\ part = "members" /\ MemberNext
     /\ UNCHANGED <<part, schedVars, registryVars, sweepVars, retentionVars, coverageVars,
                    familyVars, searchVars, collectVars, shortenerVars, reindexVars>>
  \/ /\ part = "search" /\ SearchNext
     /\ UNCHANGED <<part, schedVars, registryVars, sweepVars, retentionVars, coverageVars,
                    familyVars, memberVars, collectVars, shortenerVars, reindexVars>>
  \/ /\ part = "files" /\ CollectNext
     /\ UNCHANGED <<part, schedVars, registryVars, sweepVars, retentionVars, coverageVars,
                    familyVars, memberVars, searchVars, shortenerVars, reindexVars>>
  \/ /\ part = "links" /\ ShortenerNext
     /\ UNCHANGED <<part, schedVars, registryVars, sweepVars, retentionVars, coverageVars,
                    familyVars, memberVars, searchVars, collectVars, reindexVars>>
  \/ /\ part = "reindex" /\ ReindexNext
     /\ UNCHANGED <<part, schedVars, registryVars, sweepVars, retentionVars, coverageVars,
                    familyVars, memberVars, searchVars, collectVars, shortenerVars>>

MCSpec == MCInit /\ [][MCNext]_<<part, schedVars, registryVars, sweepVars, retentionVars,
                                 coverageVars, familyVars, memberVars, searchVars,
                                 collectVars, shortenerVars, reindexVars>>
=============================================================================
