SPECIFICATION FairSpec
CONSTANTS
    Campanhas = {c1}
    Alvos = {1}
    Workers = {w1}
    Varredor = varredor
    Nenhum = nenhum
    ChunkSize = 1
    MaxActiveCampaigns = 1
    MaxActiveChunks = 1
    ItemCabeNoLease = TRUE
    MaxChunks = 4
    MaxMensagens = 1
    MaxQuedas = 1
    MaxTrocas = 1
    MaxAtrasos = 0
    MaxReentregas = 0
    MaxFalhas = 1
    MaxEventos = 2
PROPERTY RetomadaQuandoVerde
CHECK_DEADLOCK FALSE
