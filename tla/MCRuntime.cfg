SPECIFICATION Spec
CONSTANTS
    worker = worker
    helper = helper
    Threads = {main, worker, helper}
    Main = main
    Children = {noisy}
    Noisy = {noisy}
    Signals = {2, 15}
    Sockets = {1, 2, 3}
    NoThread = NoThread
    Outside = Outside
    Capacity = 1
    Polls = 2
    Programs <- MCPrograms
    MaxCalls <- MCMaxCalls
INVARIANTS ReapedOnce
PROPERTIES MutexWaitsEnd BlockOnReturns
CHECK_DEADLOCK FALSE
