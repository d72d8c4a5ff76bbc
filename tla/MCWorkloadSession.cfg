SPECIFICATION Spec
CONSTANTS
  NumSessions = 2
  Options <- AllWorkloads
INVARIANTS TypeOK AssertsHold HeldOnce RefsExact OwnersLive QueuesFollowRing NotStranded CountersAgree HistogramAgrees ExitsWhenAllOver
PROPERTIES ImplementsVisits EventuallyFinishes
