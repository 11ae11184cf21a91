SPECIFICATION FairSpec
CONSTANTS

    Files = {f1}
    Channels = {w1}
    MaxChanges = 3
    MaxEvents = 2
    MaxReloads = 1
    QueueSize = 1
    Assume = {"refreshes_apart", "removals_apart", "lasting_files", "steady_reload", "fresh_content", "connected_first"}
    NoUpdate = NoUpdate
INVARIANT TypeOK
PROPERTY MirrorsInOrder MirrorFollows
CHECK_DEADLOCK FALSE
