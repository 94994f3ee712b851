SPECIFICATION Spec
CONSTANTS
    k1 = k1
    k2 = k2
    Chaves = {k1, k2}
    Arquivos <- SaiUma
    Fontes = {"dfp", "fre"}
    Ruim = "ruim"
    Estouro = "estouro"
    Zero = "zero"
    Vazio = "vazio"
    MaxCorridas = 2
    MaxPublicacoes = 1
    MaxConfigs = 0
    MaxCadastros = 0
    MaxQuedas = 0
    MaxReplays = 0
    MaxRefeitas = 0
    MaxImprevistos = 0
PROPERTY SaiuSome
CHECK_DEADLOCK FALSE
