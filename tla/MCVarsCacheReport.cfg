CONSTANTS
    CacheHosts = {ha, hb, hc}
    Keywords <- MCKeywords
INIT ReportInit
NEXT ReportNext
INVARIANT ReportComplete
