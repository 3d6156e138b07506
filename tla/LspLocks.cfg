SPECIFICATION LockSpec
CONSTANTS
    Threads = {t1, t2}
    Requests = {"completion", "definition", "references", "document_symbols",
                "workspace_symbols", "rename", "code_action", "format"}
PROPERTY LocksAreGranted
