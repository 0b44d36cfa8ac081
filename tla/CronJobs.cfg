CONSTANTS
    MaxOccurrence = 2
    Ticks = {t1, t2}
    MaxRetries = 0
    JobKinds = {"at", "every", "cron"}
    Settings = {{"queue"}, {"shared"}}
    Events = {"edit", "remove", "now", "resume", "crash"}
    MaxEvents = 1
    Requests = {"name", "schedule", "enable", "disable"}
    Faults = {"database"}
SPECIFICATION Spec
INVARIANTS CronTypeOK  EnabledJobHasATimer QueuedRunsDoNotOverlap
CHECK_DEADLOCK FALSE
